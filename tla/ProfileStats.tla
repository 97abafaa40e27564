---------------------------- MODULE ProfileStats ----------------------------
(***************************************************************************)
(* total_bookings and total_spent of a guest's profile.  Two signals of    *)
(* the booking model recompute them (two queries, then the whole profile   *)
(* is saved), but only after some of the changes of a booking; a third     *)
(* signal, of the user model, loads and saves the profile whenever the     *)
(* user is saved.  One guest, the one all bookings belong to.              *)
(*                                                                         *)
(* A number is modelled by the set of bookings it counts or adds up.       *)
(*                                                                         *)
(* History: exact holds every set the numbers should have shown so far;    *)
(* disturbed the recounts since whose first query the right set changed.   *)
(***************************************************************************)
EXTENDS FiniteSets

CONSTANTS
    Stay,           \* keys of the guest's bookings
    Request,        \* requests that may be in progress at the same time
    Idle            \* no request

(* A purged booking is a cancelled one here, and whether a cancelled one   *)
(* is paid is left out: it is not counted, and may be either when the desk *)
(* brings it back.                                                         *)
StayStatus == {"none", "pending", "confirmed", "completed", "cancelled"}
StayRow == {row \in [status : StayStatus, paid : BOOLEAN] :
               row.paid => row.status \notin {"none", "cancelled"}}

Numbers == [total_bookings : SUBSET Stay, total_spent : SUBSET Stay]
Phase == {"count", "sum", "save", "copied"}

ASSUME IdleAssumption == Idle \notin [at : Phase, copy : Numbers]

VARIABLES
    stay,           \* status and payment status of each booking
    profile,        \* the two columns of UserProfile
    syncing,        \* requests that recompute or copy the profile
    exact, disturbed

statsVars == <<stay, profile, syncing, exact, disturbed>>

StatsTypeOK ==
    /\ stay \in [Stay -> StayRow]
    /\ profile \in Numbers
    /\ syncing \in [Request -> [at : Phase, copy : Numbers] \cup {Idle}]
    /\ exact \subseteq SUBSET Stay
    /\ disturbed \subseteq Request

StatsInit ==
    /\ stay = [b \in Stay |-> [status |-> "none", paid |-> FALSE]]
    /\ profile = [total_bookings |-> {}, total_spent |-> {}]
    /\ syncing = [q \in Request |-> Idle]
    /\ exact = {{}}
    /\ disturbed = {}

----------------------------------------------------------------------------
(* The bookings both queries select.                                       *)
Counted(bookings) ==
    {b \in Stay : bookings[b].status \in {"completed", "confirmed"} /\ bookings[b].paid}

Change(b, row) ==
    /\ stay' = [stay EXCEPT ![b] = row]
    /\ exact' = exact \cup {Counted(stay')}
    /\ disturbed' = IF Counted(stay') = Counted(stay) THEN disturbed
                    ELSE disturbed \cup {q \in Request : /\ syncing[q] # Idle
                                                         /\ syncing[q].at \in {"sum", "save"}}

(* The signals of a booking saved by request q.  The profile is loaded, but *)
(* both its numbers are replaced before it is saved.                       *)
StartSync(q) ==
    /\ syncing[q] = Idle
    /\ syncing' = [syncing EXCEPT ![q] =
            [at |-> "count", copy |-> [total_bookings |-> {}, total_spent |-> {}]]]

(* A new booking, and one that is saved as completed or cancelled.         *)
Signals(old, new) == old.status = "none" \/ new.status \in {"completed", "cancelled"}

(* Booking.save(): a new booking, a new status, a payment or a refund.     *)
SaveStay(q, b, row) ==
    LET old == stay[b] IN
    /\ row # old /\ row.status # "none"
    /\ old.status = "none" => row = [status |-> "pending", paid |-> FALSE]
    /\ Change(b, row)
    /\ IF Signals(old, row) THEN StartSync(q) ELSE UNCHANGED syncing
    /\ UNCHANGED profile

(* queryset.update() and queryset.delete() send none of these signals:     *)
(* the admin actions and the scheduled expiry.                             *)
UpdateStay(b) ==
    /\ \/ stay[b].status = "pending" /\ Change(b, [stay[b] EXCEPT !.status = "confirmed"])
       \/ /\ stay[b].status \in {"pending", "confirmed"}
          /\ Change(b, [status |-> "cancelled", paid |-> FALSE])
       \/ /\ stay[b].status \notin {"none", "cancelled"} /\ ~stay[b].paid
          /\ Change(b, [stay[b] EXCEPT !.paid = TRUE])
    /\ UNCHANGED <<profile, syncing>>

(* completed_bookings.count()                                              *)
CountStays(q) ==
    /\ syncing[q] # Idle /\ syncing[q].at = "count"
    /\ syncing' = [syncing EXCEPT ![q] = [at |-> "sum",
                       copy |-> [@.copy EXCEPT !.total_bookings = Counted(stay)]]]
    /\ UNCHANGED <<stay, profile, exact, disturbed>>

(* Mutant: what the profile holds is kept, as an increment would.          *)
SumStays_Added(q) ==
    /\ syncing[q] # Idle /\ syncing[q].at = "sum"
    /\ syncing' = [syncing EXCEPT ![q] = [at |-> "save",
                       copy |-> [@.copy EXCEPT !.total_spent = profile.total_spent \cup Counted(stay)]]]
    /\ UNCHANGED <<stay, profile, exact, disturbed>>

(* Mutant: the second query forgets the payment status.                    *)
SumStays_Unpaid(q) ==
    /\ syncing[q] # Idle /\ syncing[q].at = "sum"
    /\ syncing' = [syncing EXCEPT ![q] = [at |-> "save",
           copy |-> [@.copy EXCEPT !.total_spent =
                         {b \in Stay : stay[b].status \in {"completed", "confirmed"}}]]]
    /\ UNCHANGED <<stay, profile, exact, disturbed>>

(* completed_bookings.aggregate(Sum('total_amount'))                       *)
SumStays(q) ==
    /\ syncing[q] # Idle /\ syncing[q].at = "sum"
    /\ syncing' = [syncing EXCEPT ![q] = [at |-> "save",
                       copy |-> [@.copy EXCEPT !.total_spent = Counted(stay)]]]
    /\ UNCHANGED <<stay, profile, exact, disturbed>>

(* save_user_profile: any save of the user loads the profile ...           *)
CopyProfile(q) ==
    /\ syncing[q] = Idle
    /\ syncing' = [syncing EXCEPT ![q] = [at |-> "copied", copy |-> profile]]
    /\ UNCHANGED <<stay, profile, exact, disturbed>>

(* ... and saves it whole, as the end of a recount does.                   *)
SaveProfile(q) ==
    /\ syncing[q] # Idle /\ syncing[q].at \in {"save", "copied"}
    /\ profile' = syncing[q].copy
    /\ syncing' = [syncing EXCEPT ![q] = Idle]
    /\ disturbed' = disturbed \ {q}
    /\ UNCHANGED <<stay, exact>>

(* The request dies; the change of the booking stays.                      *)
AbandonSync(q) ==
    /\ syncing[q] # Idle
    /\ syncing' = [syncing EXCEPT ![q] = Idle]
    /\ disturbed' = disturbed \ {q}
    /\ UNCHANGED <<stay, profile, exact>>

StatsNext ==
    \/ \E b \in Stay : \/ UpdateStay(b)
                       \/ \E q \in Request, row \in StayRow : SaveStay(q, b, row)
    \/ \E q \in Request :
           \/ CountStays(q)
           \/ SumStays(q)
           \/ CopyProfile(q)
           \/ SaveProfile(q)
           \/ AbandonSync(q)

StatsSpec == StatsInit /\ [][StatsNext]_statsVars

----------------------------------------------------------------------------
(* Properties.                                                             *)

(* However old, each of the two numbers was right at some moment: recounts *)
(* that overlap and copies that are saved late never make up a number, as  *)
(* increments and decrements would.                                        *)
NumbersWereExact ==
    /\ profile.total_bookings \in exact
    /\ profile.total_spent \in exact

(* A recount during which no booking changes stores two numbers of one     *)
(* moment, and they are right when they are stored.                        *)
QuietRecountIsExact ==
    [][\A q \in Request :
          (/\ syncing[q] # Idle /\ syncing'[q] = Idle
           /\ syncing[q].at = "save" /\ profile' = syncing[q].copy
           /\ q \notin disturbed)
          => profile' = [total_bookings |-> Counted(stay), total_spent |-> Counted(stay)]]_statsVars
=============================================================================
