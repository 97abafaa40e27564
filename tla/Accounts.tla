------------------------------ MODULE Accounts ------------------------------
(***************************************************************************)
(* Accounts: registration, the two logins with their counter of failed     *)
(* attempts, e-mail verification, password reset, and the requests that    *)
(* save a whole user row.  As with bookings, a request loads the row,      *)
(* decides on its copy and writes later; nothing locks the row.  Some      *)
(* writes name their columns (update_fields), the others write all.        *)
(*                                                                         *)
(* History variables: tries counts the failed attempts since the counter   *)
(* was last set by anything else; settled holds the reset links that       *)
(* existed when a password of their account was reset; late counts the     *)
(* passwords a link has set after that; vouched holds the accounts that    *)
(* administrators have set out to verify.                                  *)
(***************************************************************************)
EXTENDS Integers, FiniteSets

CONSTANTS
    User,           \* e-mail addresses
    Staff,          \* those an administrator makes staff (user_type, is_staff)
    Password,
    Link,           \* tokens of password reset links
    Worker,         \* requests that may be in progress at the same time
    None,           \* no row, no link, no request
    LoginLimit,     \* 5: failed attempts that lock an account
    ViewLimit,      \* 10: the limit login_api_view checks again
    Recent,         \* 5 minutes: no new reset link within this time
    ResetLife,      \* 1 hour
    VerifyLife,     \* 24 hours
    LastTick,       \* bound of the clock
    Required        \* setting ENABLE_EMAIL_VERIFICATION

ASSUME AccountsAssumption ==
    /\ LoginLimit \in Nat /\ ViewLimit \in Nat /\ LoginLimit <= ViewLimit
    /\ Staff \subseteq User /\ Required \in BOOLEAN
    /\ {Recent, ResetLife, VerifyLife, LastTick} \subseteq Nat

(* A server has finitely many threads, and at least one.                   *)
ASSUME WorkerAssumption == IsFiniteSet(Worker) /\ Worker # {}

Tick == 0..LastTick

(* The columns of CustomUser that a request decides on or writes.          *)
Account == [password : Password, failed : Nat, verified : BOOLEAN]

(* A password reset link.                                                  *)
ResetRow == [user : User, made : Tick, used : BOOLEAN]

(* The one verification link of an account: resend_verification_email has  *)
(* no route, so registration is its only source.                           *)
VerifyRow == [made : Tick, used : BOOLEAN]

Op == {"login", "manager", "save", "verify", "ask", "reset"}
Stage == {"loaded", "denied", "granted"}

(* A request in progress: the row it will save whole or decide on (copy),  *)
(* the counter it loaded, and the reset link it follows, as far as it has  *)
(* them.  A posted password is named by the step that uses it first.       *)
Job == [op : Op, at : Stage, user : User, copy : Account \cup {None},
        failed : Nat, link : Link \cup {None}]

ASSUME NoneAssumption ==
    None \notin Account \cup ResetRow \cup VerifyRow \cup Job \cup Link

VARIABLES
    users,          \* rows of table user
    verifyLink,     \* rows of EmailVerificationToken
    resetLink,      \* rows of PasswordResetToken
    now,
    job,
    tries, settled, late, vouched

rows == <<users, verifyLink, resetLink>>
history == <<tries, settled, late, vouched>>
vars == <<rows, now, job, history>>

TypeOK ==
    /\ users \in [User -> Account \cup {None}]
    /\ verifyLink \in [User -> VerifyRow \cup {None}]
    /\ resetLink \in [Link -> ResetRow \cup {None}]
    /\ now \in Tick
    /\ job \in [Worker -> Job \cup {None}]
    /\ tries \in [User -> Nat]
    /\ settled \subseteq Link
    /\ late \in [Link -> Nat]
    /\ vouched \subseteq User

Init ==
    /\ users = [u \in User |-> None]
    /\ verifyLink = [u \in User |-> None]
    /\ resetLink = [k \in Link |-> None]
    /\ now = 0
    /\ job = [w \in Worker |-> None]
    /\ tries = [u \in User |-> 0]
    /\ settled = {}
    /\ late = [k \in Link |-> 0]
    /\ vouched = {}

----------------------------------------------------------------------------
Exists(u) == users[u] # None

(* is_expired: now > created_at + life.                                    *)
Expired(made, life) == now > made + life

(* Unused reset links of an account.                                       *)
OpenLinks(u) == {k \in Link : /\ resetLink[k] # None /\ resetLink[k].user = u
                              /\ ~resetLink[k].used}

New(op, u) == [op |-> op, at |-> "loaded", user |-> u,
               copy |-> None, failed |-> 0, link |-> None]

Begin(w, j) ==
    /\ job[w] = None
    /\ job' = [job EXCEPT ![w] = j]
    /\ UNCHANGED <<rows, now, history>>

End(w) == job' = [job EXCEPT ![w] = None]

At(w, ops, stage) == job[w] # None /\ job[w].op \in ops /\ job[w].at = stage

(* The end of a write to the row of a user that is no failed attempt.      *)
SetUser(w, row) ==
    /\ users' = [users EXCEPT ![job[w].user] = row]
    /\ tries' = [tries EXCEPT ![job[w].user] = 0]
    /\ End(w)

----------------------------------------------------------------------------
(* Registration: user, profile, verification link and API token in one     *)
(* transaction; a second registration of the address is refused.           *)
Register(u, p) ==
    /\ ~Exists(u)
    /\ users' = [users EXCEPT ![u] =
            [password |-> p, failed |-> 0, verified |-> ~Required]]
    /\ verifyLink' = IF Required
                     THEN [verifyLink EXCEPT ![u] = [made |-> now, used |-> FALSE]]
                     ELSE verifyLink
    /\ UNCHANGED <<resetLink, now, job, history>>

----------------------------------------------------------------------------
(* Logging in.                                                             *)

(* LoginSerializer.validate loads the user and checks the lock.            *)
LoadLogin(w, u) ==
    /\ Exists(u) /\ users[u].failed < LoginLimit
    /\ Begin(w, [New("login", u) EXCEPT !.failed = users[u].failed])

(* ManagerLoginView.post does the same.                                    *)
LoadManagerLogin(w, u) ==
    /\ Exists(u) /\ users[u].failed < LoginLimit
    /\ Begin(w, [New("manager", u) EXCEPT !.failed = users[u].failed])

(* authenticate() reads the row again; on success the request goes on with *)
(* this second copy, on failure with the first.                            *)
Authenticate(w, p) ==
    /\ At(w, {"login", "manager"}, "loaded")
    /\ LET u == job[w].user IN
       job' = [job EXCEPT ![w] =
                 IF users[u].password = p
                 THEN [@ EXCEPT !.at = "granted", !.copy = users[u], !.failed = 0]
                 ELSE [@ EXCEPT !.at = "denied"]]
    /\ UNCHANGED <<rows, now, history>>

(* Mutant: the counter holds the attempts that are left.                   *)
SaveFailure_CountsDown(w) ==
    /\ At(w, {"login", "manager"}, "denied")
    /\ LET u == job[w].user IN
       /\ users' = [users EXCEPT ![u].failed = job[w].failed - 1]
       /\ tries' = [tries EXCEPT ![u] = @ + 1]
    /\ End(w)
    /\ UNCHANGED <<verifyLink, resetLink, now, settled, late, vouched>>

(* Mutant: the failure is stored without being counted.                    *)
SaveFailure_NotCounted(w) ==
    /\ At(w, {"login", "manager"}, "denied")
    /\ LET u == job[w].user IN
       /\ users' = [users EXCEPT ![u].failed = job[w].failed]
       /\ tries' = [tries EXCEPT ![u] = @ + 1]
    /\ End(w)
    /\ UNCHANGED <<verifyLink, resetLink, now, settled, late, vouched>>

(* A wrong password: the counter of the copy plus one is saved.            *)
SaveFailure(w) ==
    /\ At(w, {"login", "manager"}, "denied")
    /\ LET u == job[w].user IN
       /\ users' = [users EXCEPT ![u].failed = job[w].failed + 1]
       /\ tries' = [tries EXCEPT ![u] = @ + 1]
    /\ End(w)
    /\ UNCHANGED <<verifyLink, resetLink, now, settled, late, vouched>>

(* login_api_view: the second limit, the verification, the counter reset,  *)
(* the token.  A refusal at this point is a Break.                         *)
SaveLogin(w) ==
    /\ At(w, {"login"}, "granted")
    /\ job[w].copy.failed < ViewLimit /\ job[w].copy.verified
    /\ SetUser(w, [users[job[w].user] EXCEPT !.failed = 0])
    /\ UNCHANGED <<verifyLink, resetLink, now, settled, late, vouched>>

(* Mutant: save() without update_fields.                                   *)
SaveManagerLogin_WholeRow(w) ==
    /\ At(w, {"manager"}, "granted")
    /\ job[w].user \in Staff
    /\ SetUser(w, [job[w].copy EXCEPT !.failed = 0])
    /\ UNCHANGED <<verifyLink, resetLink, now, settled, late, vouched>>

(* The manager's login wants staff, and no verification.                   *)
SaveManagerLogin(w) ==
    /\ At(w, {"manager"}, "granted")
    /\ job[w].user \in Staff
    /\ SetUser(w, [users[job[w].user] EXCEPT !.failed = 0])
    /\ UNCHANGED <<verifyLink, resetLink, now, settled, late, vouched>>

----------------------------------------------------------------------------
(* Requests that save the whole row of the copy they loaded.               *)

(* PATCH profile/update/ and the manager's profile form.                   *)
LoadProfile(w, u) ==
    /\ Exists(u)
    /\ Begin(w, [New("save", u) EXCEPT !.copy = users[u]])

LoadManagerProfile(w, u) ==
    /\ Exists(u) /\ u \in Staff
    /\ Begin(w, [New("save", u) EXCEPT !.copy = users[u]])

(* POST password/change/ and the manager's form: the old password given is *)
(* the copy's, the new one goes into the copy.                             *)
LoadChange(w, u, p) ==
    /\ Exists(u)
    /\ Begin(w, [New("save", u) EXCEPT !.copy = [users[u] EXCEPT !.password = p]])

LoadManagerChange(w, u, p) ==
    /\ Exists(u) /\ u \in Staff
    /\ Begin(w, [New("save", u) EXCEPT !.copy = [users[u] EXCEPT !.password = p]])

(* The user page of the Django admin, where the verification is a box to   *)
(* tick and failed_login_attempts is read-only.                            *)
LoadAdmin(w, u) ==
    /\ Exists(u) /\ job[w] = None
    /\ job' = [job EXCEPT ![w] = [New("save", u) EXCEPT
                   !.copy = [users[u] EXCEPT !.verified = ~@]]]
    /\ vouched' = IF users[u].verified THEN vouched ELSE vouched \cup {u}
    /\ UNCHANGED <<rows, now, tries, settled, late>>

SaveWhole(w) ==
    /\ At(w, {"save"}, "loaded")
    /\ SetUser(w, job[w].copy)
    /\ UNCHANGED <<verifyLink, resetLink, now, settled, late, vouched>>

(* GET verify-email/: the link is unused and has not expired.              *)
LoadVerify(w, u) ==
    /\ Exists(u)
    /\ verifyLink[u] # None /\ ~verifyLink[u].used
    /\ ~Expired(verifyLink[u].made, VerifyLife)
    /\ Begin(w, [New("verify", u) EXCEPT !.copy = [users[u] EXCEPT !.verified = TRUE]])

(* Mutant: the link is not marked used.                                    *)
SaveVerified_LinkOpen(w) ==
    /\ At(w, {"verify"}, "loaded")
    /\ SetUser(w, job[w].copy)
    /\ UNCHANGED <<verifyLink, resetLink, now, settled, late, vouched>>

(* One transaction: the whole user row, and the link is used.              *)
SaveVerified(w) ==
    /\ At(w, {"verify"}, "loaded")
    /\ SetUser(w, job[w].copy)
    /\ verifyLink' = [verifyLink EXCEPT ![job[w].user].used = TRUE]
    /\ UNCHANGED <<resetLink, now, settled, late, vouched>>

----------------------------------------------------------------------------
(* Password reset.                                                         *)

(* POST password/reset/request/: nothing is done if an open link is young. *)
AskReset(w, u) ==
    /\ Exists(u)
    /\ \A k \in OpenLinks(u) : \/ now >= resetLink[k].made + ResetLife
                               \/ now >= resetLink[k].made + Recent
    /\ Begin(w, New("ask", u))

CreateLink(w, k) ==
    /\ At(w, {"ask"}, "loaded")
    /\ resetLink[k] = None
    /\ resetLink' = [resetLink EXCEPT ![k] =
            [user |-> job[w].user, made |-> now, used |-> FALSE]]
    /\ End(w)
    /\ UNCHANGED <<users, verifyLink, now, history>>

(* POST password/reset/confirm/: the link is looked up before the          *)
(* transaction that uses it.                                               *)
LoadReset(w, k) ==
    /\ resetLink[k] # None /\ ~resetLink[k].used
    /\ ~Expired(resetLink[k].made, ResetLife)
    /\ Begin(w, [New("reset", resetLink[k].user) EXCEPT !.link = k])

CountLate(w) ==
    [late EXCEPT ![job[w].link] = IF job[w].link \in settled THEN @ + 1 ELSE @]

(* Mutant: the links of the account that were not followed stay open.      *)
ConfirmReset_OthersOpen(w, p) ==
    /\ At(w, {"reset"}, "loaded")
    /\ LET u == job[w].user IN
       /\ SetUser(w, [users[u] EXCEPT !.password = p, !.failed = 0])
       /\ resetLink' = [resetLink EXCEPT ![job[w].link].used = TRUE]
       /\ settled' = settled \cup {k \in Link : resetLink[k] # None /\ resetLink[k].user = u}
       /\ late' = CountLate(w)
    /\ UNCHANGED <<verifyLink, now, vouched>>

(* One transaction: password and counter, the link, all other open links.  *)
ConfirmReset(w, p) ==
    /\ At(w, {"reset"}, "loaded")
    /\ LET u == job[w].user IN
       /\ SetUser(w, [users[u] EXCEPT !.password = p, !.failed = 0])
       /\ resetLink' = [k \in Link |->
               IF k = job[w].link \/ k \in OpenLinks(u)
               THEN [resetLink[k] EXCEPT !.used = TRUE] ELSE resetLink[k]]
       /\ settled' = settled \cup {k \in Link : resetLink[k] # None /\ resetLink[k].user = u}
       /\ late' = CountLate(w)
    /\ UNCHANGED <<verifyLink, now, vouched>>

----------------------------------------------------------------------------
(* A refusal, an error or the end of the process.                          *)
Break(w) ==
    /\ job[w] # None
    /\ End(w)
    /\ UNCHANGED <<rows, now, history>>

Wait ==
    /\ now < LastTick
    /\ now' = now + 1
    /\ UNCHANGED <<rows, job, history>>

Load(w) ==
    \/ \E u \in User :
           \/ LoadLogin(w, u)
           \/ LoadManagerLogin(w, u)
           \/ LoadProfile(w, u)
           \/ LoadManagerProfile(w, u)
           \/ LoadAdmin(w, u)
           \/ LoadVerify(w, u)
           \/ AskReset(w, u)
    \/ \E u \in User, p \in Password : LoadChange(w, u, p) \/ LoadManagerChange(w, u, p)
    \/ \E k \in Link : LoadReset(w, k)

Finish(w) ==
    \/ \E p \in Password : Authenticate(w, p) \/ ConfirmReset(w, p)
    \/ SaveFailure(w)
    \/ SaveLogin(w)
    \/ SaveManagerLogin(w)
    \/ SaveWhole(w)
    \/ SaveVerified(w)
    \/ \E k \in Link : CreateLink(w, k)
    \/ Break(w)

Next ==
    \/ \E u \in User, p \in Password : Register(u, p)
    \/ \E w \in Worker : Load(w) \/ Finish(w)
    \/ Wait

Spec == Init /\ [][Next]_vars

----------------------------------------------------------------------------
(* Properties.                                                             *)

(* The counter of failed attempts never passes the lock: an attempt that   *)
(* counts has loaded a counter below 5, and what it saves is one more than *)
(* it loaded.  So the second limit of 10 (login_api_view) is never met,    *)
(* however many attempts race.                                             *)
CounterAtMostLimit == \A u \in User : Exists(u) => users[u].failed <= LoginLimit

(* Attempts that race are counted once, and a late one even lowers the     *)
(* counter again, so more than 5 may fail before an account stays locked;  *)
(* but not any number.  With two requests at a time the worst case is      *)
(* that one of them holds each value of the counter while the other runs   *)
(* up to the limit: 5*8/2 = 20 attempts instead of 5.                      *)
TriesBounded ==
    /\ CounterAtMostLimit
    /\ Cardinality(Worker) = 2 =>
           \A u \in User : tries[u] <= (LoginLimit * (LoginLimit + 3)) \div 2

(* With verification required nobody is verified whose link was not        *)
(* followed, except by an administrator: no request that saves a whole     *)
(* copy brings a verification into the table that had no source.           *)
VerifiedByLink ==
    Required =>
        \A u \in User : Exists(u) /\ users[u].verified =>
            \/ verifyLink[u] # None /\ verifyLink[u].used
            \/ u \in vouched

(* A reset link works once, and setting a password closes every other link *)
(* of the account; but a link is looked up before the transaction that     *)
(* uses it, so each other request in progress may still set a password by  *)
(* a link that is closed: none of them if requests come one at a time.     *)
ClosedLinksSetNoPassword ==
    \A k \in Link : late[k] < Cardinality(Worker)

(* The request of w, for u, ends; it saves a whole row.                    *)
Ends(w, u) == job[w] # None /\ job[w].user = u /\ job'[w] = None
Whole(w) == job[w].op \in {"save", "verify"}

StaleCopies(u) ==
    /\ users[u].verified /\ ~users'[u].verified
          => \E w \in Worker : Ends(w, u) /\ Whole(w) /\ ~job[w].copy.verified
    /\ users[u].failed >= LoginLimit /\ users'[u].failed < LoginLimit
          => \E w \in Worker :
                /\ Ends(w, u)
                /\ \/ job[w].op = "reset" \/ job[w].at = "granted"
                   \/ job[w].at = "denied" /\ job[w].failed < LoginLimit
                   \/ Whole(w) /\ job[w].copy.failed < LoginLimit
    /\ users'[u].password # users[u].password
          => \E w \in Worker :
                /\ Ends(w, u)
                /\ \/ job[w].op = "reset"
                   \/ Whole(w) /\ users'[u].password = job[w].copy.password

(* What a request has achieved is undone only by one that was in progress  *)
(* then and saves what it had loaded before - a verification, and a        *)
(* password - or by the administrator who unticks the verification.  A     *)
(* lock is released by a reset or by a request that was let in before,     *)
(* never by time.  In particular no login changes anything but the counter.*)
UndoneOnlyByStaleCopies == [][\A u \in User : Exists(u) => StaleCopies(u)]_vars
=============================================================================
