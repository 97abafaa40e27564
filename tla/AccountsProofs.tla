--------------------------- MODULE AccountsProofs ---------------------------
(***************************************************************************)
(* For any number of accounts, requests, links and attempts: the counter   *)
(* of failed logins never passes the lock, nobody is verified without a    *)
(* link or an administrator, and what is undone is undone by a request     *)
(* that was in progress.  The argument is about the copies: a request that *)
(* counts a failure has loaded a counter below the lock, and one that      *)
(* saves a whole row has a copy that was true of the row when it loaded.   *)
(* From that invariant: how many passwords closed links may still set, and *)
(* how many attempts two racing requests may fail before the lock holds.   *)
(***************************************************************************)
EXTENDS Accounts, FiniteSetTheorems, TLAPS

(* A verification of u has a source.                                       *)
Sourced(u) ==
    \/ verifyLink[u] # None /\ verifyLink[u].used
    \/ u \in vouched

(* What a request in progress holds.                                       *)
Held(j) ==
    /\ Exists(j.user)
    /\ j.op \in {"login", "manager"} /\ j.at # "granted" => j.failed < LoginLimit
    /\ j.op \in {"save", "verify"} => j.copy # None /\ j.copy.failed <= LoginLimit
    /\ j.op = "save" /\ j.copy.verified /\ Required => Sourced(j.user)
    /\ j.op = "verify" => verifyLink[j.user] # None
    /\ j.op = "reset" => j.link \in Link /\ resetLink[j.link] # None

(* A reset link is one of an account.                                      *)
LinksOwned == \A k \in Link : resetLink[k] # None => Exists(resetLink[k].user)

IInv ==
    /\ TypeOK
    /\ LinksOwned
    /\ CounterAtMostLimit
    /\ VerifiedByLink
    /\ \A w \in Worker : job[w] # None => Held(job[w])

----------------------------------------------------------------------------
(* Types.                                                                  *)

LEMMA AccountTypes ==
    ASSUME TypeOK, NEW u \in User, Exists(u)
    PROVE  /\ users[u] \in Account
           /\ users[u].password \in Password /\ users[u].failed \in Nat
           /\ users[u].verified \in BOOLEAN
<1>1. users[u] \in Account
  BY DEF TypeOK, Exists
<1>2. QED
  BY <1>1 DEF Account

LEMMA JobTypes ==
    ASSUME TypeOK, NEW w \in Worker, job[w] # None
    PROVE  /\ job[w] \in Job
           /\ job[w].op \in Op /\ job[w].at \in Stage /\ job[w].user \in User
           /\ job[w].copy \in Account \cup {None} /\ job[w].failed \in Nat
           /\ job[w].link \in Link \cup {None}
<1>1. job[w] \in Job
  BY DEF TypeOK
<1>2. QED
  BY <1>1 DEF Job

LEMMA CopyTypes ==
    ASSUME TypeOK, NEW w \in Worker, job[w] # None, job[w].copy # None
    PROVE  /\ job[w].copy \in Account /\ job[w].copy.failed \in Nat
           /\ job[w].copy.verified \in BOOLEAN /\ job[w].copy.password \in Password
<1>1. job[w].copy \in Account
  BY JobTypes
<1>2. QED
  BY <1>1 DEF Account

LEMMA Limits ==
    /\ LoginLimit \in Nat /\ Required \in BOOLEAN /\ 0 \in Tick
    /\ None \notin Account /\ None \notin Job /\ None \notin Link
    /\ None \notin VerifyRow /\ None \notin ResetRow
  BY AccountsAssumption, NoneAssumption DEF Tick

(* A request begins: only job has changed.                                 *)
LEMMA NewTypes ==
    ASSUME NEW op \in Op, NEW u \in User
    PROVE  /\ New(op, u) \in Job
           /\ New(op, u).op = op /\ New(op, u).at = "loaded" /\ New(op, u).user = u
           /\ New(op, u).copy = None /\ New(op, u).failed = 0 /\ New(op, u).link = None
  BY DEF New, Job, Stage

LEMMA BeginStep ==
    ASSUME IInv, NEW w \in Worker, NEW j \in Job, Begin(w, j), Held(j)
    PROVE  IInv'
<1>1. UNCHANGED <<rows, now, history>> /\ job' = [job EXCEPT ![w] = j]
  BY DEF Begin
<1>2. TypeOK'
  BY <1>1 DEF IInv, TypeOK, rows, history
<1>3. CounterAtMostLimit' /\ VerifiedByLink' /\ LinksOwned'
  BY <1>1 DEF IInv, CounterAtMostLimit, VerifiedByLink, LinksOwned, Exists, rows, history
<1>4. ASSUME NEW v \in Worker, job'[v] # None PROVE Held(job[v])'
  <2>1. Held(job'[v])
    BY <1>1, <1>4 DEF IInv, TypeOK
  <2>2. QED
    BY <2>1, <1>1 DEF Held, Exists, Sourced, rows, history
<1>5. QED
  BY <1>2, <1>3, <1>4 DEF IInv

(* What a request holds stays true while rows only appear and links and    *)
(* vouchers are only used and given.                                       *)
LEMMA OthersHold ==
    ASSUME IInv, NEW w \in Worker, job' = [job EXCEPT ![w] = None] \/ job' = job,
           \A u \in User : /\ Exists(u) => Exists(u)'
                           /\ Sourced(u) => Sourced(u)'
                           /\ verifyLink[u] # None => verifyLink'[u] # None,
           \A k \in Link : resetLink[k] # None => resetLink'[k] # None
    PROVE  \A v \in Worker : job'[v] # None => Held(job[v])'
<1> SUFFICES ASSUME NEW v \in Worker, job'[v] # None PROVE Held(job[v])'
  OBVIOUS
<1>1. job'[v] = job[v] /\ job[v] # None
  BY DEF IInv, TypeOK
<1>2. Held(job[v]) /\ job[v].user \in User
  BY <1>1, JobTypes DEF IInv
<1>3. QED
  BY <1>1, <1>2 DEF Held

(* A request ends with a write to its user.                                *)
LEMMA SetUserStep ==
    ASSUME IInv, NEW w \in Worker, job[w] # None, NEW row \in Account, SetUser(w, row),
           row.failed <= LoginLimit,
           NEW u \in User, job[w].user = u, Required /\ row.verified => Sourced(u)',
           verifyLink' \in [User -> VerifyRow \cup {None}],
           resetLink' \in [Link -> ResetRow \cup {None}],
           now' = now, settled' \subseteq Link, late' \in [Link -> Nat], vouched' = vouched,
           \A x \in User : /\ Sourced(x) => Sourced(x)'
                           /\ verifyLink[x] # None => verifyLink'[x] # None,
           \A k \in Link : /\ resetLink[k] # None => resetLink'[k] # None
                           /\ resetLink'[k] # None =>
                                /\ resetLink[k] # None
                                /\ resetLink'[k].user = resetLink[k].user
    PROVE  IInv'
<1>1. /\ users' = [users EXCEPT ![u] = row] /\ tries' = [tries EXCEPT ![u] = 0]
      /\ job' = [job EXCEPT ![w] = None]
  BY DEF SetUser, End
<1>2. TypeOK'
  BY <1>1 DEF IInv, TypeOK
<1>3. \A x \in User : users'[x] = IF x = u THEN row ELSE users[x]
  BY <1>1 DEF IInv, TypeOK
<1>4. row # None
  BY Limits
<1>5. CounterAtMostLimit'
  BY <1>3 DEF IInv, CounterAtMostLimit, Exists
<1>6. VerifiedByLink'
  <2> SUFFICES ASSUME Required, NEW x \in User, users'[x] # None, users'[x].verified
               PROVE  Sourced(x)'
    BY DEF VerifiedByLink, Exists, Sourced
  <2>1. CASE x = u
    BY <2>1, <1>3
  <2>2. CASE x # u
    <3>1. users[x] # None /\ users[x].verified
      BY <1>3, <2>2
    <3>2. Sourced(x)
      BY <3>1 DEF IInv, VerifiedByLink, Exists, Sourced
    <3>3. QED
      BY <3>2
  <2>3. QED
    BY <2>1, <2>2
<1>7. \A x \in User : Exists(x) => Exists(x)'
  BY <1>3, <1>4 DEF Exists
<1>8. \A v \in Worker : job'[v] # None => Held(job[v])'
  BY <1>1, <1>7, OthersHold
<1>9. LinksOwned'
  <2> SUFFICES ASSUME NEW k \in Link, resetLink'[k] # None
               PROVE  users'[resetLink'[k].user] # None
    BY DEF LinksOwned, Exists
  <2>1. resetLink[k] # None /\ resetLink'[k].user = resetLink[k].user
    OBVIOUS
  <2>2. resetLink[k].user \in User /\ Exists(resetLink[k].user)
    BY <2>1 DEF IInv, TypeOK, ResetRow, LinksOwned
  <2>3. QED
    BY <2>1, <2>2, <1>3, <1>4 DEF Exists
<1>10. QED
  BY <1>2, <1>5, <1>6, <1>8, <1>9 DEF IInv

----------------------------------------------------------------------------
(* Each step keeps the invariant.                                          *)

LEMMA InitInvariant == Init => IInv
<1> SUFFICES ASSUME Init PROVE IInv
  OBVIOUS
<1>1. TypeOK
  BY Limits DEF Init, TypeOK
<1>2. QED
  BY <1>1 DEF Init, IInv, CounterAtMostLimit, VerifiedByLink, LinksOwned, Exists

LEMMA RegisterStep ==
    ASSUME IInv, NEW u \in User, NEW p \in Password, Register(u, p)
    PROVE  IInv'
<1> DEFINE row == [password |-> p, failed |-> 0, verified |-> ~Required]
<1>1. /\ ~Exists(u) /\ row \in Account /\ row # None
      /\ row.failed = 0 /\ row.verified = ~Required
      /\ users' = [users EXCEPT ![u] = row]
      /\ UNCHANGED <<resetLink, now, job, history>>
  <2>1. (~Required) \in BOOLEAN
    OBVIOUS
  <2>2. row \in Account
    BY <2>1 DEF Account
  <2>3. QED
    BY <2>2, Limits DEF Register
<1>2. /\ verifyLink' \in [User -> VerifyRow \cup {None}]
      /\ \A x \in User : x # u => verifyLink'[x] = verifyLink[x]
      /\ verifyLink[u] # None => verifyLink'[u] # None
  <2>1. [made |-> now, used |-> FALSE] \in VerifyRow
    BY DEF IInv, TypeOK, VerifyRow
  <2>2. QED
    BY <2>1, Limits DEF Register, IInv, TypeOK
<1>3. TypeOK'
  BY <1>1, <1>2 DEF IInv, TypeOK, history
<1>4. \A x \in User : users'[x] = IF x = u THEN row ELSE users[x]
  BY <1>1 DEF IInv, TypeOK
<1>5. CounterAtMostLimit'
  BY <1>1, <1>4, Limits DEF IInv, CounterAtMostLimit, Exists
<1>6. VerifiedByLink'
  BY <1>1, <1>2, <1>4 DEF IInv, VerifiedByLink, Exists, history
<1>7. \A v \in Worker : job'[v] # None => Held(job[v])'
  <2> SUFFICES ASSUME NEW v \in Worker, job[v] # None PROVE Held(job[v])'
    BY <1>1 DEF history
  <2>1. Held(job[v]) /\ job[v].user \in User /\ job[v].user # u
    BY <1>1, JobTypes DEF IInv, Held
  <2>2. QED
    BY <2>1, <1>1, <1>2, <1>4 DEF Held, Exists, Sourced, history
<1>8. LinksOwned'
  <2> SUFFICES ASSUME NEW k \in Link, resetLink[k] # None
               PROVE  users'[resetLink[k].user] # None
    BY <1>1 DEF LinksOwned, Exists
  <2>1. resetLink[k].user \in User /\ Exists(resetLink[k].user)
    BY DEF IInv, TypeOK, ResetRow, LinksOwned
  <2>2. QED
    BY <2>1, <1>1, <1>4 DEF Exists
<1>9. QED
  BY <1>3, <1>5, <1>6, <1>7, <1>8 DEF IInv

(* The steps that only begin a request.                                    *)
LEMMA LoadStep ==
    ASSUME IInv, NEW w \in Worker, Load(w)
    PROVE  IInv'
<1>1. ASSUME NEW u \in User, LoadLogin(w, u) \/ LoadManagerLogin(w, u)
      PROVE  IInv'
  <2> DEFINE j(op) == [New(op, u) EXCEPT !.failed = users[u].failed]
  <2>1. PICK op \in {"login", "manager"} : Begin(w, j(op))
    BY <1>1 DEF LoadLogin, LoadManagerLogin
  <2>2. Exists(u) /\ users[u].failed < LoginLimit /\ users[u].failed \in Nat
    BY <1>1, AccountTypes DEF LoadLogin, LoadManagerLogin, IInv
  <2>3. /\ j(op) \in Job /\ j(op).op = op /\ j(op).user = u
        /\ j(op).failed = users[u].failed
    BY <2>2, NewTypes DEF Job, Op
  <2>4. Held(j(op))
    BY <2>2, <2>3 DEF Held
  <2>5. QED
    BY <2>1, <2>3, <2>4, BeginStep
<1>2. ASSUME NEW u \in User, Exists(u), NEW row \in Account, row.failed = users[u].failed,
             row.verified = users[u].verified,
             Begin(w, [New("save", u) EXCEPT !.copy = row])
      PROVE  IInv'
  <2> DEFINE j == [New("save", u) EXCEPT !.copy = row]
  <2>1. j \in Job /\ j.op = "save" /\ j.user = u /\ j.copy = row /\ row # None
    BY NewTypes, Limits DEF Job, Op
  <2>2. Held(j)
    BY <1>2, <2>1 DEF Held, IInv, CounterAtMostLimit, VerifiedByLink, Sourced
  <2>3. QED
    BY <1>2, <2>1, <2>2, BeginStep
<1>3. ASSUME NEW u \in User, LoadProfile(w, u) \/ LoadManagerProfile(w, u)
      PROVE  IInv'
  BY <1>2, <1>3, AccountTypes DEF LoadProfile, LoadManagerProfile, IInv
<1>4. ASSUME NEW u \in User, NEW p \in Password,
             LoadChange(w, u, p) \/ LoadManagerChange(w, u, p)
      PROVE  IInv'
  <2> DEFINE row == [users[u] EXCEPT !.password = p]
  <2>1. Exists(u) /\ users[u] \in Account
    BY <1>4, AccountTypes DEF LoadChange, LoadManagerChange, IInv
  <2>2. /\ row \in Account /\ row.failed = users[u].failed
        /\ row.verified = users[u].verified
    BY <2>1 DEF Account
  <2>3. Begin(w, [New("save", u) EXCEPT !.copy = row])
    BY <1>4 DEF LoadChange, LoadManagerChange
  <2>4. QED
    BY <1>2, <2>1, <2>2, <2>3
<1>5. ASSUME NEW u \in User, LoadAdmin(w, u)
      PROVE  IInv'
  <2> DEFINE row == [users[u] EXCEPT !.verified = ~@]
             j == [New("save", u) EXCEPT !.copy = row]
  <2>1. /\ Exists(u) /\ job' = [job EXCEPT ![w] = j] /\ job[w] = None
        /\ vouched' = IF users[u].verified THEN vouched ELSE vouched \cup {u}
        /\ UNCHANGED <<rows, now, tries, settled, late>>
    BY <1>5 DEF LoadAdmin
  <2>2. users[u] \in Account /\ users[u].failed \in Nat /\ users[u].verified \in BOOLEAN
    BY <2>1, AccountTypes DEF IInv
  <2>3. /\ row \in Account /\ row.failed = users[u].failed
        /\ row.verified => ~users[u].verified
    <3>1. (~users[u].verified) \in BOOLEAN
      OBVIOUS
    <3>2. QED
      BY <2>2, <3>1 DEF Account
  <2>4. j \in Job /\ j.op = "save" /\ j.user = u /\ j.copy = row /\ row # None
    BY <2>3, NewTypes, Limits DEF Job, Op
  <2>5. TypeOK'
    BY <2>1, <2>4 DEF IInv, TypeOK, rows
  <2>6. CounterAtMostLimit' /\ VerifiedByLink' /\ LinksOwned'
    BY <2>1 DEF IInv, CounterAtMostLimit, VerifiedByLink, LinksOwned, Exists, rows
  <2>7. /\ \A x \in User : Sourced(x) => Sourced(x)'
        /\ row.verified => Sourced(u)'
    BY <2>1, <2>3 DEF Sourced, rows
  <2>8. ASSUME NEW v \in Worker, job'[v] # None PROVE Held(job[v])'
    <3>1. CASE v = w
      <4>1. job'[v] = j /\ users' = users
        BY <3>1, <2>1 DEF IInv, TypeOK, rows
      <4>2. row.failed <= LoginLimit
        BY <2>1, <2>3 DEF IInv, CounterAtMostLimit
      <4>3. QED
        BY <4>1, <4>2, <2>1, <2>4, <2>7 DEF Held, Exists
    <3>2. CASE v # w
      <4>1. job'[v] = job[v] /\ job[v] # None
        BY <3>2, <2>1, <2>8 DEF IInv, TypeOK
      <4>2. Held(job[v]) /\ job[v].user \in User
        BY <4>1, JobTypes DEF IInv
      <4>3. QED
        BY <4>1, <4>2, <2>1, <2>7 DEF Held, Exists, rows
    <3>3. QED
      BY <3>1, <3>2
  <2>9. QED
    BY <2>5, <2>6, <2>8 DEF IInv
<1>6. ASSUME NEW u \in User, LoadVerify(w, u)
      PROVE  IInv'
  <2> DEFINE row == [users[u] EXCEPT !.verified = TRUE]
             j == [New("verify", u) EXCEPT !.copy = row]
  <2>1. Exists(u) /\ users[u] \in Account /\ verifyLink[u] # None /\ Begin(w, j)
    BY <1>6, AccountTypes DEF LoadVerify, IInv
  <2>2. row \in Account /\ row.failed = users[u].failed
    BY <2>1 DEF Account
  <2> HIDE DEF row
  <2>3. j \in Job /\ j.op = "verify" /\ j.user = u /\ j.copy = row /\ row # None
    BY <2>2, NewTypes, Limits DEF Job, Op
  <2>4. Held(j)
    BY <2>1, <2>2, <2>3 DEF Held, IInv, CounterAtMostLimit
  <2>5. QED
    BY <2>1, <2>3, <2>4, BeginStep
<1>7. ASSUME NEW u \in User, AskReset(w, u)
      PROVE  IInv'
  <2>1. Exists(u) /\ Begin(w, New("ask", u))
    BY <1>7 DEF AskReset
  <2>2. New("ask", u) \in Job /\ Held(New("ask", u))
    BY <2>1, NewTypes DEF Held, Op
  <2>3. QED
    BY <2>1, <2>2, BeginStep
<1>8. ASSUME NEW k \in Link, LoadReset(w, k)
      PROVE  IInv'
  <2> DEFINE u == resetLink[k].user
             j == [New("reset", u) EXCEPT !.link = k]
  <2>1. resetLink[k] # None /\ Begin(w, j)
    BY <1>8 DEF LoadReset
  <2>2. u \in User
    BY <2>1 DEF IInv, TypeOK, ResetRow
  <2>3. j \in Job /\ j.op = "reset" /\ j.user = u /\ j.link = k
    BY <2>2, NewTypes DEF Job, Op
  <2>4. Held(j)
    BY <2>1, <2>3 DEF Held, IInv, LinksOwned
  <2>5. QED
    BY <2>1, <2>3, <2>4, BeginStep
<1>9. QED
  BY <1>1, <1>3, <1>4, <1>5, <1>6, <1>7, <1>8 DEF Load

(* The steps that go on with a request or end it.                          *)
LEMMA AuthenticateStep ==
    ASSUME IInv, NEW w \in Worker, NEW p \in Password, Authenticate(w, p)
    PROVE  IInv'
<1> DEFINE u == job[w].user
           granted == [job[w] EXCEPT !.at = "granted", !.copy = users[u], !.failed = 0]
           denied == [job[w] EXCEPT !.at = "denied"]
<1>1. /\ job[w] # None /\ job[w].op \in {"login", "manager"} /\ job[w].at = "loaded"
      /\ UNCHANGED <<rows, now, history>>
      /\ \/ job' = [job EXCEPT ![w] = granted]
         \/ job' = [job EXCEPT ![w] = denied]
  BY DEF Authenticate, At
<1>2. job[w] \in Job /\ Held(job[w]) /\ u \in User /\ users[u] \in Account \cup {None}
  BY <1>1, JobTypes DEF IInv, TypeOK
<1>3. /\ granted \in Job /\ granted.op = job[w].op /\ granted.user = u
      /\ granted.at = "granted"
  BY <1>2 DEF Job, Stage
<1>4. /\ denied \in Job /\ denied.op = job[w].op /\ denied.user = u
      /\ denied.failed = job[w].failed
  BY <1>2 DEF Job, Stage
<1>5. Held(granted) /\ Held(denied)
  BY <1>1, <1>2, <1>3, <1>4 DEF Held
<1> HIDE DEF granted, denied
<1>6. TypeOK'
  BY <1>1, <1>3, <1>4 DEF IInv, TypeOK, rows, history
<1>7. CounterAtMostLimit' /\ VerifiedByLink' /\ LinksOwned'
  BY <1>1 DEF IInv, CounterAtMostLimit, VerifiedByLink, LinksOwned, Exists, rows, history
<1>8. ASSUME NEW v \in Worker, job'[v] # None PROVE Held(job[v])'
  <2>1. Held(job'[v])
    BY <1>1, <1>5, <1>8 DEF IInv, TypeOK
  <2>2. QED
    BY <2>1, <1>1 DEF Held, Exists, Sourced, rows, history
<1>9. QED
  BY <1>6, <1>7, <1>8 DEF IInv

LEMMA SaveFailureStep ==
    ASSUME IInv, NEW w \in Worker, SaveFailure(w)
    PROVE  IInv'
<1> DEFINE u == job[w].user
           row == [users[u] EXCEPT !.failed = job[w].failed + 1]
<1>1. /\ job[w] # None /\ job[w].op \in {"login", "manager"} /\ job[w].at = "denied"
      /\ users' = [users EXCEPT ![u] = row]
      /\ tries' = [tries EXCEPT ![u] = @ + 1]
      /\ job' = [job EXCEPT ![w] = None]
      /\ UNCHANGED <<verifyLink, resetLink, now, settled, late, vouched>>
  BY DEF SaveFailure, At, End
<1>2. /\ u \in User /\ users[u] \in Account /\ users[u] # None
      /\ job[w].failed \in Nat /\ job[w].failed < LoginLimit
  BY <1>1, JobTypes, AccountTypes DEF IInv, Held, Exists
<1>3. /\ row \in Account /\ row.failed <= LoginLimit /\ row # None
      /\ row.verified = users[u].verified
  BY <1>2, Limits DEF Account
<1> HIDE DEF row
<1>4. \A x \in User : users'[x] = IF x = u THEN row ELSE users[x]
  BY <1>1 DEF IInv, TypeOK
<1>5. TypeOK'
  BY <1>1, <1>2, <1>3 DEF IInv, TypeOK
<1>6. CounterAtMostLimit' /\ VerifiedByLink'
  BY <1>1, <1>2, <1>3, <1>4 DEF IInv, CounterAtMostLimit, VerifiedByLink, Exists
<1>7. \A x \in User : Exists(x) => Exists(x)'
  BY <1>3, <1>4 DEF Exists
<1>8. LinksOwned'
  BY <1>1, <1>7 DEF IInv, TypeOK, ResetRow, LinksOwned, Exists
<1>9. \A v \in Worker : job'[v] # None => Held(job[v])'
  BY <1>1, <1>7, OthersHold DEF Sourced
<1>10. QED
  BY <1>5, <1>6, <1>8, <1>9 DEF IInv

LEMMA SaveLoginStep ==
    ASSUME IInv, NEW w \in Worker, SaveLogin(w) \/ SaveManagerLogin(w)
    PROVE  IInv'
<1> DEFINE u == job[w].user
           row == [users[u] EXCEPT !.failed = 0]
<1>1. /\ job[w] # None /\ SetUser(w, row)
      /\ UNCHANGED <<verifyLink, resetLink, now, settled, late, vouched>>
  BY DEF SaveLogin, SaveManagerLogin, At
<1>2. u \in User /\ users[u] \in Account /\ users[u] # None
  BY <1>1, JobTypes, AccountTypes DEF IInv, Held, Exists
<1>3. row \in Account /\ row.failed <= LoginLimit /\ row.verified = users[u].verified
  BY <1>2, Limits DEF Account
<1> HIDE DEF row
<1>4. Required /\ row.verified => Sourced(u)
  BY <1>2, <1>3 DEF IInv, VerifiedByLink, Sourced, Exists
<1>5. \A x \in User : Sourced(x)' <=> Sourced(x)
  BY <1>1 DEF Sourced
<1> HIDE DEF u
<1>6. QED
  BY <1>1, <1>2, <1>3, <1>4, <1>5, SetUserStep DEF IInv, TypeOK, u

LEMMA SaveWholeStep ==
    ASSUME IInv, NEW w \in Worker, SaveWhole(w)
    PROVE  IInv'
<1>1. /\ job[w] # None /\ job[w].op = "save" /\ SetUser(w, job[w].copy)
      /\ UNCHANGED <<verifyLink, resetLink, now, settled, late, vouched>>
  BY DEF SaveWhole, At
<1>2. PICK u \in User : job[w].user = u
  BY <1>1, JobTypes DEF IInv
<1>3. /\ job[w].copy \in Account /\ job[w].copy.failed <= LoginLimit
      /\ Required /\ job[w].copy.verified => Sourced(u)
  BY <1>1, <1>2, CopyTypes DEF IInv, Held
<1>4. \A x \in User : Sourced(x)' <=> Sourced(x)
  BY <1>1 DEF Sourced
<1>5. PICK row \in Account : row = job[w].copy
  BY <1>3
<1>6. QED
  BY <1>1, <1>2, <1>3, <1>4, <1>5, SetUserStep DEF IInv, TypeOK

LEMMA SaveVerifiedStep ==
    ASSUME IInv, NEW w \in Worker, SaveVerified(w)
    PROVE  IInv'
<1>1. /\ job[w] # None /\ job[w].op = "verify" /\ SetUser(w, job[w].copy)
      /\ verifyLink' = [verifyLink EXCEPT ![job[w].user].used = TRUE]
      /\ UNCHANGED <<resetLink, now, settled, late, vouched>>
  BY DEF SaveVerified, At
<1>2. PICK u \in User : job[w].user = u
  BY <1>1, JobTypes DEF IInv
<1>3. /\ job[w].copy \in Account /\ job[w].copy.failed <= LoginLimit
      /\ verifyLink[u] # None /\ verifyLink[u] \in VerifyRow
  BY <1>1, <1>2, CopyTypes DEF IInv, Held, TypeOK
<1>4. /\ verifyLink' \in [User -> VerifyRow \cup {None}]
      /\ verifyLink'[u] \in VerifyRow /\ verifyLink'[u].used
      /\ \A x \in User : x # u => verifyLink'[x] = verifyLink[x]
  BY <1>1, <1>2, <1>3 DEF IInv, TypeOK, VerifyRow
<1>5. verifyLink'[u] # None
  BY <1>4, Limits
<1>6. Sourced(u)' /\ \A x \in User : Sourced(x) => Sourced(x)'
  BY <1>1, <1>4, <1>5 DEF Sourced
<1>7. \A x \in User : verifyLink[x] # None => verifyLink'[x] # None
  BY <1>4, <1>5
<1>8. PICK row \in Account : row = job[w].copy
  BY <1>3
<1>9. QED
  BY <1>1, <1>2, <1>3, <1>4, <1>6, <1>7, <1>8, SetUserStep DEF IInv, TypeOK

LEMMA ConfirmResetStep ==
    ASSUME IInv, NEW w \in Worker, NEW p \in Password, ConfirmReset(w, p)
    PROVE  IInv'
<1>1. PICK u \in User : job[w].user = u
  BY JobTypes DEF ConfirmReset, At, IInv
<1> DEFINE row == [users[u] EXCEPT !.password = p, !.failed = 0]
           closed(k) == k = job[w].link \/ k \in OpenLinks(u)
<1>2. /\ job[w] # None /\ job[w].op = "reset" /\ SetUser(w, row)
      /\ resetLink' = [k \in Link |-> IF closed(k)
                                      THEN [resetLink[k] EXCEPT !.used = TRUE]
                                      ELSE resetLink[k]]
      /\ settled' \subseteq Link /\ late' = CountLate(w)
      /\ UNCHANGED <<verifyLink, now, vouched>>
  BY <1>1 DEF ConfirmReset, At, IInv, TypeOK
<1>3. /\ users[u] \in Account /\ users[u] # None
      /\ job[w].link \in Link /\ resetLink[job[w].link] # None
  BY <1>1, <1>2, AccountTypes DEF IInv, Held, Exists
<1>4. row \in Account /\ row.failed <= LoginLimit /\ row.verified = users[u].verified
  <2> DEFINE half == [users[u] EXCEPT !.password = p]
  <2>1. half \in Account /\ half.verified = users[u].verified
    BY <1>3 DEF Account
  <2>2. row = [half EXCEPT !.failed = 0]
    OBVIOUS
  <2> HIDE DEF half, row
  <2>3. row \in Account /\ row.failed = 0 /\ row.verified = half.verified
    BY <2>1, <2>2 DEF Account
  <2>4. QED
    BY <2>1, <2>3, Limits
<1> HIDE DEF row
<1>5. ASSUME NEW k \in Link
      PROVE  /\ resetLink'[k] \in ResetRow \cup {None}
             /\ resetLink[k] # None => resetLink'[k] # None
             /\ resetLink'[k] # None => /\ resetLink[k] # None
                                       /\ resetLink'[k].user = resetLink[k].user
  <2>1. CASE closed(k)
    <3>1. resetLink[k] # None /\ resetLink[k] \in ResetRow
      BY <2>1, <1>3 DEF OpenLinks, IInv, TypeOK
    <3>2. resetLink'[k] = [resetLink[k] EXCEPT !.used = TRUE]
      BY <2>1, <1>2
    <3>3. resetLink'[k] \in ResetRow /\ resetLink'[k].user = resetLink[k].user
      BY <3>1, <3>2 DEF ResetRow
    <3>4. QED
      BY <3>1, <3>3, Limits
  <2>2. CASE ~closed(k)
    <3>1. resetLink'[k] = resetLink[k]
      BY <2>2, <1>2
    <3>2. QED
      BY <3>1 DEF IInv, TypeOK
  <2>3. QED
    BY <2>1, <2>2
<1>6. resetLink' \in [Link -> ResetRow \cup {None}]
  <2>1. resetLink' = [k \in Link |-> resetLink'[k]]
    BY <1>2
  <2>2. QED
    BY <2>1, <1>5
<1>7. late' \in [Link -> Nat]
  BY <1>2, <1>3 DEF CountLate, IInv, TypeOK
<1>8. Required /\ row.verified => Sourced(u)
  BY <1>3, <1>4 DEF IInv, VerifiedByLink, Sourced, Exists
<1>9. \A x \in User : Sourced(x)' <=> Sourced(x)
  BY <1>2 DEF Sourced
<1>10. QED
  BY <1>1, <1>2, <1>4, <1>5, <1>6, <1>7, <1>8, <1>9, SetUserStep DEF IInv, TypeOK

LEMMA CreateLinkStep ==
    ASSUME IInv, NEW w \in Worker, NEW k \in Link, CreateLink(w, k)
    PROVE  IInv'
<1> DEFINE u == job[w].user
           row == [user |-> u, made |-> now, used |-> FALSE]
<1>1. /\ job[w] # None /\ resetLink[k] = None
      /\ resetLink' = [resetLink EXCEPT ![k] = row]
      /\ job' = [job EXCEPT ![w] = None]
      /\ UNCHANGED <<users, verifyLink, now, history>>
  BY DEF CreateLink, At, End
<1>2. u \in User /\ Exists(u)
  BY <1>1, JobTypes DEF IInv, Held
<1>3. row \in ResetRow /\ row.user = u
  BY <1>2 DEF IInv, TypeOK, ResetRow
<1>4. row # None
  BY <1>3, Limits
<1> HIDE DEF row
<1>5. \A x \in Link : resetLink'[x] = IF x = k THEN row ELSE resetLink[x]
  BY <1>1 DEF IInv, TypeOK
<1>6. TypeOK'
  BY <1>1, <1>3 DEF IInv, TypeOK, history
<1>7. CounterAtMostLimit' /\ VerifiedByLink'
  BY <1>1 DEF IInv, CounterAtMostLimit, VerifiedByLink, Exists, history
<1>8. LinksOwned'
  BY <1>1, <1>2, <1>3, <1>5 DEF IInv, LinksOwned, Exists
<1>9. \A v \in Worker : job'[v] # None => Held(job[v])'
  BY <1>1, <1>4, <1>5, OthersHold DEF Sourced, Exists, history
<1>10. QED
  BY <1>6, <1>7, <1>8, <1>9 DEF IInv

LEMMA IdleStep ==
    ASSUME IInv, Wait \/ (\E w \in Worker : Break(w)) \/ UNCHANGED vars
    PROVE  IInv'
<1>1. /\ UNCHANGED <<rows, history>> /\ now' \in Tick
      /\ job' = job \/ \E w \in Worker : job' = [job EXCEPT ![w] = None]
  <2>1. CASE Wait
    BY <2>1, AccountsAssumption DEF Wait, IInv, TypeOK, Tick
  <2>2. CASE \E w \in Worker : Break(w)
    BY <2>2 DEF Break, End, IInv, TypeOK
  <2>3. CASE UNCHANGED vars
    BY <2>3 DEF vars, IInv, TypeOK
  <2>4. QED
    BY <2>1, <2>2, <2>3
<1>2. TypeOK'
  BY <1>1 DEF IInv, TypeOK, rows, history
<1>3. CounterAtMostLimit' /\ VerifiedByLink' /\ LinksOwned'
  BY <1>1 DEF IInv, CounterAtMostLimit, VerifiedByLink, LinksOwned, Exists, rows, history
<1>4. ASSUME NEW v \in Worker, job'[v] # None PROVE Held(job[v])'
  <2>1. job'[v] = job[v] /\ Held(job[v])
    BY <1>1, <1>4 DEF IInv, TypeOK
  <2>2. QED
    BY <2>1, <1>1 DEF Held, Exists, Sourced, rows, history
<1>5. QED
  BY <1>2, <1>3, <1>4 DEF IInv

LEMMA NextInvariant == IInv /\ [Next]_vars => IInv'
<1> SUFFICES ASSUME IInv, [Next]_vars PROVE IInv'
  OBVIOUS
<1>1. ASSUME NEW w \in Worker, Finish(w) PROVE IInv'
  BY <1>1, AuthenticateStep, ConfirmResetStep, SaveFailureStep, SaveLoginStep,
     SaveWholeStep, SaveVerifiedStep, CreateLinkStep, IdleStep DEF Finish
<1>2. QED
  BY <1>1, RegisterStep, LoadStep, IdleStep DEF Next

----------------------------------------------------------------------------
(* The theorems.                                                           *)

LEMMA Invariant == Spec => []IInv
<1>1. QED
  BY InitInvariant, NextInvariant, PTL DEF Spec

(* The tables, the requests and the history have their types, for any      *)
(* number of accounts, requests and links.                                 *)
THEOREM AccountsTyped == Spec => []TypeOK
<1>1. IInv => TypeOK
  BY DEF IInv
<1>2. QED
  BY <1>1, Invariant, PTL

(* serializers.py:90 and views_cbv.py:93: however many logins race, the    *)
(* counter stops at the lock.                                              *)
THEOREM LockNeverPassed == Spec => []CounterAtMostLimit
<1>1. IInv => CounterAtMostLimit
  BY DEF IInv
<1>2. QED
  BY <1>1, Invariant, PTL

(* Requests that save whole rows bring no verification into the table that *)
(* neither a link nor an administrator has given.                          *)
THEOREM VerifiedOnlyByLink == Spec => []VerifiedByLink
<1>1. IInv => VerifiedByLink
  BY DEF IInv
<1>2. QED
  BY <1>1, Invariant, PTL

----------------------------------------------------------------------------
(* Undone only by stale copies: a step that takes something from the row   *)
(* of u is the end of a request of u, and what it saves is its copy.       *)

(* The end of a request that writes row to its user.                       *)
LEMMA OneRowChanges ==
    ASSUME TypeOK, NEW w \in Worker, job[w] # None, NEW row,
           users' = [users EXCEPT ![job[w].user] = row],
           job' = [job EXCEPT ![w] = None],
           NEW u \in User, users'[u] # users[u]
    PROVE  job[w].user = u /\ users'[u] = row /\ job'[w] = None
  BY DEF TypeOK

(* The requests that only touch the counter, and the lock.                 *)
LEMMA CounterOnly ==
    ASSUME IInv, NEW w \in Worker, NEW u \in User, Exists(u),
           SaveFailure(w) \/ SaveLogin(w) \/ SaveManagerLogin(w), users'[u] # users[u]
    PROVE  /\ users'[u].verified = users[u].verified
           /\ users'[u].password = users[u].password
           /\ job[w] # None /\ job[w].user = u /\ job'[w] = None
           /\ \/ job[w].at = "granted"
              \/ /\ job[w].at = "denied" /\ job[w].failed < LoginLimit
<1>1. PICK n : /\ users' = [users EXCEPT ![job[w].user].failed = n]
               /\ job' = [job EXCEPT ![w] = None] /\ job[w] # None
               /\ job[w].at \in {"denied", "granted"} /\ job[w].op \in {"login", "manager"}
  BY DEF SaveFailure, SaveLogin, SaveManagerLogin, SetUser, At, End
<1>2. job[w].user = u /\ users'[u] = [users[u] EXCEPT !.failed = n] /\ job'[w] = None
  BY <1>1, JobTypes DEF IInv, TypeOK
<1>3. users[u] \in Account
  BY AccountTypes DEF IInv
<1>4. /\ users'[u].verified = users[u].verified
      /\ users'[u].password = users[u].password
  BY <1>2, <1>3 DEF Account
<1>5. job[w].at = "denied" => job[w].failed < LoginLimit
  BY <1>1 DEF IInv, Held
<1>6. QED
  BY <1>1, <1>2, <1>4, <1>5

LEMMA UndoneStep ==
    ASSUME IInv, Next, NEW u \in User, Exists(u)
    PROVE  StaleCopies(u)
<1>1. CASE users'[u] = users[u]
  <2>1. users[u].failed \in Nat /\ LoginLimit \in Nat
    BY AccountTypes, Limits DEF IInv
  <2>2. QED
    BY <1>1, <2>1 DEF StaleCopies
<1>2. CASE users'[u] # users[u]
  <2>1. ASSUME NEW x \in User, NEW p \in Password, Register(x, p) PROVE StaleCopies(u)
    <3>1. users'[u] = users[u]
      BY <2>1 DEF Register, Exists, IInv, TypeOK
    <3>2. QED
      BY <3>1, <1>2
  <2>2. ASSUME NEW w \in Worker, SaveFailure(w) \/ SaveLogin(w) \/ SaveManagerLogin(w)
        PROVE  StaleCopies(u)
    BY <1>2, <2>2, CounterOnly DEF StaleCopies, Ends
  <2>3. ASSUME NEW w \in Worker, SaveWhole(w) \/ SaveVerified(w)
        PROVE  StaleCopies(u)
    <3>1. /\ job[w] # None /\ Whole(w)
          /\ users' = [users EXCEPT ![job[w].user] = job[w].copy]
          /\ job' = [job EXCEPT ![w] = None]
      BY <2>3 DEF SaveWhole, SaveVerified, At, SetUser, End, Whole
    <3>2. PICK row : row = job[w].copy
      OBVIOUS
    <3>3. users' = [users EXCEPT ![job[w].user] = row]
      BY <3>1, <3>2
    <3>4. job[w].user = u /\ users'[u] = row /\ job'[w] = None
      BY <3>1, <3>3, <1>2, OneRowChanges DEF IInv
    <3>5. QED
      BY <3>1, <3>2, <3>4 DEF StaleCopies, Ends
  <2>4. ASSUME NEW w \in Worker, NEW p \in Password, ConfirmReset(w, p)
        PROVE  StaleCopies(u)
    <3> DEFINE row == [users[job[w].user] EXCEPT !.password = p, !.failed = 0]
    <3>1. /\ job[w] # None /\ job[w].op = "reset"
          /\ users' = [users EXCEPT ![job[w].user] = row]
          /\ job' = [job EXCEPT ![w] = None]
      BY <2>4 DEF ConfirmReset, At, SetUser, End
    <3> HIDE DEF row
    <3>2. Ends(w, u) /\ users'[u] = row
      BY <3>1, <1>2, OneRowChanges DEF IInv, Ends
    <3>3. users'[u].verified = users[u].verified
      <4>1. job[w].user = u /\ users[u] \in Account
        BY <3>2, AccountTypes DEF Ends, IInv
      <4>2. QED
        BY <4>1, <3>2 DEF row, Account
    <3>4. QED
      BY <3>1, <3>2, <3>3 DEF StaleCopies
  <2>5. ASSUME NEW w \in Worker,
               \/ Load(w) \/ Break(w) \/ \E k \in Link : CreateLink(w, k)
               \/ \E p \in Password : Authenticate(w, p)
        PROVE  users' = users
    BY <2>5 DEF Load, LoadLogin, LoadManagerLogin, LoadProfile, LoadManagerProfile,
       LoadAdmin, LoadVerify, AskReset, LoadChange, LoadManagerChange, LoadReset,
       Begin, Break, CreateLink, Authenticate, rows
  <2>6. ~Wait
    BY <1>2 DEF Wait, rows
  <2>7. QED
    BY <1>2, <2>1, <2>2, <2>3, <2>4, <2>5, <2>6 DEF Next, Finish
<1>3. QED
  BY <1>1, <1>2

(* What a request has achieved is undone only by another that was in       *)
(* progress and saves what it had loaded, by a reset, or by a login that   *)
(* was let in: for any number of requests and whatever they are.           *)
THEOREM StaleCopiesOnly == Spec => UndoneOnlyByStaleCopies
<1> DEFINE A == \A u \in User : Exists(u) => StaleCopies(u)
<1>1. IInv /\ [Next]_vars => [A]_vars
  BY UndoneStep
<1>2. QED
  BY <1>1, Invariant, PTL DEF Spec, UndoneOnlyByStaleCopies

----------------------------------------------------------------------------
(* Closed links: a request that follows a link found it open, so once a    *)
(* reset of the account has closed the link nobody new follows it.  The    *)
(* requests that did are among the others than the one that closed it, and *)
(* each of them sets a password at most once.                              *)

(* The request of w follows link k.                                        *)
Follows(w, k) == job[w] # None /\ job[w].op = "reset" /\ job[w].link = k
Followers(k) == {w \in Worker : Follows(w, k)}

LinkInv ==
    /\ \A w \in Worker, k \in Link : Follows(w, k) => job[w].user = resetLink[k].user
    /\ \A k \in settled : resetLink[k] # None /\ resetLink[k].used
    /\ \A k \in Link \ settled : late[k] = 0
    /\ \A k \in settled : late[k] + Cardinality(Followers(k)) < Cardinality(Worker)

LEMMA FollowersFinite ==
    ASSUME NEW k
    PROVE  /\ IsFiniteSet(Followers(k)) /\ Cardinality(Followers(k)) \in Nat
           /\ Cardinality(Worker) \in Nat /\ Cardinality(Worker) > 0
<1>1. Followers(k) \in SUBSET Worker
  BY DEF Followers
<1>2. IsFiniteSet(Followers(k))
  BY <1>1, FS_Subset, WorkerAssumption
<1>3. Cardinality(Worker) # 0
  BY FS_EmptySet, WorkerAssumption
<1>4. QED
  BY <1>2, <1>3, FS_CardinalityType, WorkerAssumption

(* Fewer followers never hurt.                                             *)
LEMMA FewerFollowers ==
    ASSUME NEW k, \A w \in Worker : Follows(w, k)' => Follows(w, k)
    PROVE  /\ IsFiniteSet(Followers(k)') /\ Cardinality(Followers(k)') \in Nat
           /\ Cardinality(Followers(k)') <= Cardinality(Followers(k))
<1>1. Followers(k)' \in SUBSET Followers(k)
  BY DEF Followers
<1>2. QED
  BY <1>1, FollowersFinite, FS_Subset, FS_CardinalityType

(* What a request has loaded when it begins: a login, the counter.         *)
Loaded(j) ==
    j.op \in {"login", "manager"} =>
        /\ j.user \in User /\ Exists(j.user)
        /\ j.failed = users[j.user].failed /\ j.failed < LoginLimit

LEMMA BegunJob ==
    ASSUME NEW w \in Worker, Load(w)
    PROVE  \E j : /\ job[w] = None /\ job' = [job EXCEPT ![w] = j] /\ Loaded(j)
                  /\ j.op = "reset" => \E k \in Link : LoadReset(w, k)
                  /\ UNCHANGED <<rows, now, tries, settled, late>>
<1> DEFINE Goal(j) == /\ job[w] = None /\ job' = [job EXCEPT ![w] = j] /\ Loaded(j)
                      /\ j.op = "reset" => \E k \in Link : LoadReset(w, k)
                      /\ UNCHANGED <<rows, now, tries, settled, late>>
<1>1. ASSUME NEW u \in User, LoadLogin(w, u) \/ LoadManagerLogin(w, u)
      PROVE  \E j : Goal(j)
  <2> DEFINE j(op) == [New(op, u) EXCEPT !.failed = users[u].failed]
  <2>1. PICK op \in {"login", "manager"} :
            Begin(w, j(op)) /\ Exists(u) /\ users[u].failed < LoginLimit
    BY <1>1 DEF LoadLogin, LoadManagerLogin
  <2>2. j(op).op = op /\ j(op).user = u /\ j(op).failed = users[u].failed
    BY DEF New
  <2> HIDE DEF j
  <2>3. Goal(j(op))
    BY <2>1, <2>2 DEF Begin, Loaded, history
  <2>4. QED
    BY <2>3
<1>2. ASSUME NEW op \in {"save", "verify"}, NEW u, NEW row,
             Begin(w, [New(op, u) EXCEPT !.copy = row])
      PROVE  \E j : Goal(j)
  <2> DEFINE j == [New(op, u) EXCEPT !.copy = row]
  <2>1. j.op = op /\ Begin(w, j)
    BY <1>2 DEF New
  <2> HIDE DEF j
  <2>2. Goal(j)
    BY <2>1 DEF Begin, Loaded, history
  <2>3. QED
    BY <2>2
<1>3. ASSUME NEW u \in User,
             LoadProfile(w, u) \/ LoadManagerProfile(w, u) \/ LoadVerify(w, u)
      PROVE  \E j : Goal(j)
  BY <1>2, <1>3 DEF LoadProfile, LoadManagerProfile, LoadVerify
<1>4. ASSUME NEW u \in User, NEW p \in Password,
             LoadChange(w, u, p) \/ LoadManagerChange(w, u, p)
      PROVE  \E j : Goal(j)
  BY <1>2, <1>4 DEF LoadChange, LoadManagerChange
<1>5. ASSUME NEW u \in User, LoadAdmin(w, u)
      PROVE  \E j : Goal(j)
  <2> DEFINE j == [New("save", u) EXCEPT !.copy = [users[u] EXCEPT !.verified = ~@]]
  <2>1. /\ j.op = "save" /\ job[w] = None /\ job' = [job EXCEPT ![w] = j]
        /\ UNCHANGED <<rows, now, tries, settled, late>>
    BY <1>5 DEF LoadAdmin, New
  <2> HIDE DEF j
  <2>2. Goal(j)
    BY <2>1 DEF Loaded
  <2>3. QED
    BY <2>2
<1>6. ASSUME NEW u \in User, AskReset(w, u)
      PROVE  \E j : Goal(j)
  <2> DEFINE j == New("ask", u)
  <2>1. j.op = "ask" /\ Begin(w, j)
    BY <1>6 DEF AskReset, New
  <2> HIDE DEF j
  <2>2. Goal(j)
    BY <2>1 DEF Begin, Loaded, history
  <2>3. QED
    BY <2>2
<1>7. ASSUME NEW k \in Link, LoadReset(w, k)
      PROVE  \E j : Goal(j)
  <2> DEFINE j == [New("reset", resetLink[k].user) EXCEPT !.link = k]
  <2>1. j.op = "reset" /\ Begin(w, j)
    BY <1>7 DEF LoadReset, New
  <2> HIDE DEF j
  <2>2. Goal(j)
    BY <1>7, <2>1 DEF Begin, Loaded, history
  <2>3. QED
    BY <2>2
<1>8. QED
  BY <1>1, <1>3, <1>4, <1>5, <1>6, <1>7 DEF Load

(* The steps that touch no link but a new one, and begin no reset.         *)
LEMMA NoFollowerStep ==
    ASSUME IInv, LinkInv, settled' = settled, late' = late,
           \A k \in Link : resetLink[k] # None => resetLink'[k] = resetLink[k],
           \A w \in Worker, k \in Link :
               Follows(w, k)' => Follows(w, k) /\ job'[w].user = job[w].user
    PROVE  LinkInv'
<1>1. ASSUME NEW w \in Worker, NEW k \in Link, Follows(w, k)'
      PROVE  job'[w].user = resetLink'[k].user
  <2>1. Follows(w, k) /\ job'[w].user = job[w].user
    BY <1>1
  <2>2. resetLink[k] # None
    BY <2>1 DEF IInv, Held, Follows
  <2>3. QED
    BY <2>1, <2>2 DEF LinkInv
<1>2. ASSUME NEW k \in settled
      PROVE  /\ resetLink'[k] # None /\ resetLink'[k].used
             /\ late[k] + Cardinality(Followers(k)') < Cardinality(Worker)
  <2>1. k \in Link /\ resetLink[k] # None /\ late[k] \in Nat
    BY DEF IInv, TypeOK, LinkInv
  <2>2. Cardinality(Followers(k)') \in Nat
        /\ Cardinality(Followers(k)') <= Cardinality(Followers(k))
    BY <2>1, FewerFollowers
  <2>3. late[k] + Cardinality(Followers(k)) < Cardinality(Worker)
    BY DEF LinkInv
  <2>4. late[k] + Cardinality(Followers(k)') < Cardinality(Worker)
    BY <2>1, <2>2, <2>3, FollowersFinite
  <2>5. QED
    BY <2>1, <2>4 DEF LinkInv
<1>3. \A k \in Link \ settled : late[k] = 0
  BY DEF LinkInv
<1>4. QED
  BY <1>1, <1>2, <1>3 DEF LinkInv

(* A request begins to follow an open link: none that is settled.          *)
LEMMA LoadResetLinks ==
    ASSUME IInv, LinkInv, NEW w \in Worker, NEW l \in Link, LoadReset(w, l)
    PROVE  LinkInv'
<1> DEFINE u == resetLink[l].user
           j == [New("reset", u) EXCEPT !.link = l]
<1>1. /\ resetLink[l] # None /\ ~resetLink[l].used
      /\ job' = [job EXCEPT ![w] = j] /\ UNCHANGED <<rows, now, history>>
  BY DEF LoadReset, Begin
<1>2. j.op = "reset" /\ j.user = u /\ j.link = l
  BY DEF New
<1>3. l \notin settled
  BY <1>1 DEF LinkInv
<1> HIDE DEF j
<1>4. job'[w] = j /\ \A v \in Worker \ {w} : job'[v] = job[v]
  BY <1>1 DEF IInv, TypeOK
<1>5. ASSUME NEW v \in Worker, NEW k \in Link, Follows(v, k)'
      PROVE  job'[v].user = resetLink'[k].user
  BY <1>1, <1>2, <1>4, <1>5 DEF Follows, LinkInv, rows
<1>6. ASSUME NEW k \in settled
      PROVE  late[k] + Cardinality(Followers(k)') < Cardinality(Worker)
  <2>1. \A v \in Worker : Follows(v, k)' => Follows(v, k)
    BY <1>2, <1>3, <1>4 DEF Follows
  <2>2. Cardinality(Followers(k)') \in Nat
        /\ Cardinality(Followers(k)') <= Cardinality(Followers(k))
    BY <2>1, FewerFollowers
  <2>3. late[k] + Cardinality(Followers(k)) < Cardinality(Worker) /\ late[k] \in Nat
    BY DEF LinkInv, IInv, TypeOK
  <2>4. QED
    BY <2>2, <2>3, FollowersFinite
<1>7. QED
  BY <1>1, <1>5, <1>6 DEF LinkInv, rows, history

(* A password is reset by a link.                                          *)
LEMMA ConfirmResetLinks ==
    ASSUME IInv, LinkInv, NEW w \in Worker, NEW p \in Password, ConfirmReset(w, p)
    PROVE  LinkInv'
<1>1. PICK u \in User : job[w].user = u
  BY JobTypes DEF ConfirmReset, At, IInv
<1>2. PICK l \in Link : job[w].link = l /\ resetLink[l] # None
  BY DEF ConfirmReset, At, IInv, Held
<1> DEFINE owned == {k \in Link : resetLink[k] # None /\ resetLink[k].user = u}
<1>3. /\ job[w] # None /\ job[w].op = "reset" /\ job' = [job EXCEPT ![w] = None]
      /\ resetLink' = [k \in Link |-> IF k = l \/ k \in OpenLinks(u)
                                      THEN [resetLink[k] EXCEPT !.used = TRUE]
                                      ELSE resetLink[k]]
      /\ settled' = settled \cup owned
      /\ late' = [late EXCEPT ![l] = IF l \in settled THEN @ + 1 ELSE @]
  BY <1>1, <1>2 DEF ConfirmReset, At, SetUser, End, CountLate
<1>4. resetLink[l].user = u
  BY <1>1, <1>2, <1>3 DEF LinkInv, Follows
<1>5. \A k \in Link : resetLink[k] # None =>
          resetLink[k] \in ResetRow /\ resetLink'[k] \in ResetRow
          /\ resetLink'[k].user = resetLink[k].user
          /\ (resetLink[k].used => resetLink'[k].used)
          /\ (k \in owned => resetLink'[k].used)
  <2> SUFFICES ASSUME NEW k \in Link, resetLink[k] # None
               PROVE  resetLink[k] \in ResetRow /\ resetLink'[k] \in ResetRow
                      /\ resetLink'[k].user = resetLink[k].user
                      /\ (resetLink[k].used => resetLink'[k].used)
                      /\ (k \in owned => resetLink'[k].used)
    OBVIOUS
  <2>1. resetLink[k] \in ResetRow
    BY DEF IInv, TypeOK
  <2>2. CASE k = l \/ k \in OpenLinks(u)
    <3>1. resetLink'[k] = [resetLink[k] EXCEPT !.used = TRUE]
      BY <1>3, <2>2
    <3>2. QED
      BY <2>1, <3>1 DEF ResetRow
  <2>3. CASE ~(k = l \/ k \in OpenLinks(u))
    <3>1. resetLink'[k] = resetLink[k]
      BY <1>3, <2>3
    <3>2. QED
      BY <2>1, <2>3, <3>1 DEF OpenLinks
  <2>4. QED
    BY <2>2, <2>3
<1>6. job'[w] = None /\ \A v \in Worker \ {w} : job'[v] = job[v]
  BY <1>3 DEF IInv, TypeOK
<1>7. ASSUME NEW v \in Worker, NEW k \in Link, Follows(v, k)'
      PROVE  job'[v].user = resetLink'[k].user
  <2>1. v # w /\ job'[v] = job[v] /\ Follows(v, k)
    BY <1>6, <1>7 DEF Follows
  <2>2. resetLink[k] # None /\ job[v].user = resetLink[k].user
    BY <2>1 DEF IInv, Held, Follows, LinkInv
  <2>3. QED
    BY <2>1, <2>2, <1>5
<1>8. ASSUME NEW k \in settled'
      PROVE  /\ resetLink'[k] # None /\ resetLink'[k].used
             /\ late'[k] + Cardinality(Followers(k)') < Cardinality(Worker)
  <2>1. k \in Link /\ resetLink[k] # None
    BY <1>3 DEF IInv, TypeOK, LinkInv
  <2>2. resetLink'[k] # None
    BY <2>1, <1>5, Limits
  <2>3. resetLink'[k].used
    BY <2>1, <1>3, <1>5 DEF LinkInv
  <2>4. \A v \in Worker : Follows(v, k)' => Follows(v, k) /\ v # w
    BY <1>6 DEF Follows
  <2>5. /\ IsFiniteSet(Followers(k)') /\ Cardinality(Followers(k)') \in Nat
        /\ Cardinality(Followers(k)') <= Cardinality(Followers(k))
    BY <2>4, FewerFollowers
  <2>6. late[k] \in Nat /\ late'[k] = IF k = l /\ k \in settled THEN late[k] + 1 ELSE late[k]
    BY <2>1, <1>3 DEF IInv, TypeOK
  <2>7. CASE k \in settled /\ k # l
    <3>1. late[k] + Cardinality(Followers(k)) < Cardinality(Worker)
      BY <2>7 DEF LinkInv
    <3>2. late'[k] + Cardinality(Followers(k)') < Cardinality(Worker)
      BY <3>1, <2>5, <2>6, <2>7, FollowersFinite
    <3>3. QED
      BY <3>2, <2>2, <2>3
  <2>8. CASE k \in settled /\ k = l
    <3>1. late[k] + Cardinality(Followers(k)) < Cardinality(Worker)
      BY <2>8 DEF LinkInv
    <3>2. w \in Followers(k)
      BY <2>8, <1>2, <1>3 DEF Followers, Follows
    <3>3. Followers(k)' \in SUBSET (Followers(k) \ {w})
      BY <2>4 DEF Followers
    <3>4. /\ IsFiniteSet(Followers(k) \ {w})
          /\ Cardinality(Followers(k) \ {w}) = Cardinality(Followers(k)) - 1
      BY <3>2, FollowersFinite, FS_RemoveElement
    <3>5. Cardinality(Followers(k)') <= Cardinality(Followers(k)) - 1
      BY <3>3, <3>4, FS_Subset
    <3>6. late'[k] + Cardinality(Followers(k)') < Cardinality(Worker)
      BY <3>1, <3>5, <2>5, <2>6, <2>8, FollowersFinite
    <3>7. QED
      BY <3>6, <2>2, <2>3
  <2>9. CASE k \notin settled
    <3>1. late'[k] = 0
      BY <2>1, <2>6, <2>9 DEF LinkInv
    <3>2. Followers(k)' \in SUBSET (Worker \ {w})
      BY <2>4 DEF Followers
    <3>3. /\ IsFiniteSet(Worker \ {w})
          /\ Cardinality(Worker \ {w}) = Cardinality(Worker) - 1
      BY WorkerAssumption, FS_RemoveElement
    <3>4. Cardinality(Followers(k)') <= Cardinality(Worker) - 1
      BY <3>2, <3>3, FS_Subset
    <3>5. late'[k] + Cardinality(Followers(k)') < Cardinality(Worker)
      BY <3>1, <3>4, <2>5, FollowersFinite
    <3>6. QED
      BY <3>5, <2>2, <2>3
  <2>10. QED
    BY <2>7, <2>8, <2>9
<1>9. \A k \in Link \ settled' : late'[k] = 0
  <2> SUFFICES ASSUME NEW k \in Link, k \notin settled' PROVE late'[k] = 0
    OBVIOUS
  <2>1. k \notin settled /\ late[k] = 0
    BY <1>3 DEF LinkInv
  <2>2. QED
    BY <2>1, <1>3 DEF IInv, TypeOK
<1>10. QED
  BY <1>7, <1>8, <1>9 DEF LinkInv

LEMMA LinksNext == IInv /\ LinkInv /\ [Next]_vars => LinkInv'
<1> SUFFICES ASSUME IInv, LinkInv, [Next]_vars PROVE LinkInv'
  OBVIOUS
<1>1. ASSUME NEW u \in User, NEW p \in Password, Register(u, p) PROVE LinkInv'
  BY <1>1, NoFollowerStep DEF Register, Follows, history
<1>2. ASSUME NEW w \in Worker, Load(w) PROVE LinkInv'
  <2>1. CASE \E k \in Link : LoadReset(w, k)
    BY <2>1, LoadResetLinks
  <2>2. CASE ~\E k \in Link : LoadReset(w, k)
    <3>1. PICK j : /\ job' = [job EXCEPT ![w] = j] /\ j.op # "reset"
                   /\ UNCHANGED <<rows, settled, late>>
      BY <1>2, <2>2, BegunJob
    <3>2. \A v \in Worker : job'[v] = job[v] \/ job'[v] = j
      BY <3>1 DEF IInv, TypeOK
    <3>3. \A v \in Worker, k \in Link :
              Follows(v, k)' => Follows(v, k) /\ job'[v].user = job[v].user
      BY <3>1, <3>2 DEF Follows
    <3>4. QED
      BY <3>1, <3>3, NoFollowerStep DEF rows
  <2>3. QED
    BY <2>1, <2>2
<1>3. ASSUME NEW w \in Worker, Finish(w) PROVE LinkInv'
  <2>1. CASE \E p \in Password : ConfirmReset(w, p)
    BY <2>1, ConfirmResetLinks
  <2>2. CASE \E p \in Password : Authenticate(w, p)
    <3>1. /\ job[w] # None /\ job[w].op # "reset" /\ UNCHANGED <<rows, now, history>>
          /\ \A v \in Worker : v # w => job'[v] = job[v]
          /\ job'[w].op = job[w].op
      <4>1. job[w] # None /\ job[w].op \in {"login", "manager"} /\ job[w] \in Job
        BY <2>2, JobTypes DEF Authenticate, At, IInv
      <4>2. QED
        BY <4>1, <2>2 DEF Authenticate, Job, IInv, TypeOK
    <3>2. \A v \in Worker, k \in Link :
              Follows(v, k)' => Follows(v, k) /\ job'[v].user = job[v].user
      BY <3>1 DEF Follows
    <3>3. QED
      BY <3>1, <3>2, NoFollowerStep DEF rows, history
  <2>3. CASE \/ SaveFailure(w) \/ SaveLogin(w) \/ SaveManagerLogin(w)
             \/ SaveWhole(w) \/ SaveVerified(w) \/ Break(w)
             \/ \E k \in Link : CreateLink(w, k)
    <3>1. job' = [job EXCEPT ![w] = None] /\ UNCHANGED <<settled, late>>
      BY <2>3 DEF SaveFailure, SaveLogin, SaveManagerLogin, SaveWhole, SaveVerified,
         Break, CreateLink, SetUser, End, history
    <3>2. \A v \in Worker : job'[v] = job[v] \/ job'[v] = None
      BY <3>1 DEF IInv, TypeOK
    <3>3. \A v \in Worker, k \in Link :
              Follows(v, k)' => Follows(v, k) /\ job'[v].user = job[v].user
      BY <3>2 DEF Follows
    <3>4. \A k \in Link : resetLink[k] # None => resetLink'[k] = resetLink[k]
      BY <2>3 DEF SaveFailure, SaveLogin, SaveManagerLogin, SaveWhole, SaveVerified,
         Break, CreateLink, rows, IInv, TypeOK
    <3>5. QED
      BY <3>1, <3>3, <3>4, NoFollowerStep
  <2>4. QED
    BY <1>3, <2>1, <2>2, <2>3 DEF Finish
<1>4. CASE Wait \/ UNCHANGED vars
  BY <1>4, NoFollowerStep DEF Wait, vars, rows, history, Follows
<1>5. QED
  BY <1>1, <1>2, <1>3, <1>4 DEF Next

LEMMA LinkInvariant == Spec => []LinkInv
<1>1. Init => LinkInv
  BY DEF Init, LinkInv, Follows
<1>2. QED
  BY <1>1, LinksNext, Invariant, PTL DEF Spec

(* views.py:265: however many requests are in progress, a link that a      *)
(* reset has closed sets fewer passwords than there are requests at a      *)
(* time; none if they come one at a time.                                  *)
THEOREM ClosedLinksBounded == Spec => []ClosedLinksSetNoPassword
<1>1. IInv /\ LinkInv => ClosedLinksSetNoPassword
  <2> SUFFICES ASSUME IInv, LinkInv, NEW k \in Link
               PROVE  late[k] < Cardinality(Worker)
    BY DEF ClosedLinksSetNoPassword
  <2>1. late[k] \in Nat
    BY DEF IInv, TypeOK
  <2>2. QED
    BY <2>1, FollowersFinite DEF LinkInv
<1>2. QED
  BY <1>1, LinkInvariant, Invariant, PTL

----------------------------------------------------------------------------
(* The failed attempts of two racing requests.  With the counter at n and  *)
(* no request that holds an older value, the most attempts that may still  *)
(* fail are Left(n)/2: one request keeps n while the other runs up to the  *)
(* lock, the first one then saves n + 1, and so on.  A request that holds  *)
(* n while the counter has moved on to c has used up c - n of them, and    *)
(* nobody can use them again.                                              *)
Left(n) == (LoginLimit - n) * (LoginLimit - n + 3)

(* The request of w may still count a failed attempt to log in as u.       *)
Counts(w, u) ==
    /\ job[w] # None /\ job[w].user = u
    /\ job[w].op \in {"login", "manager"} /\ job[w].at # "granted"

Spent(w, u) == 2 * tries[u] + Left(job[w].failed) + 2 * job[w].failed

Budget(u) ==
    /\ 2 * tries[u] + Left(users[u].failed) <= Left(0)
    /\ \A w \in Worker : Counts(w, u) => Spent(w, u) <= Left(0) + 2 * users[u].failed
    /\ \A w, v \in Worker : w # v /\ Counts(w, u) /\ Counts(v, u) =>
           Spent(w, u) <= Left(0) + 2 * job[v].failed

TriesInv == \A u \in User : IF Exists(u) THEN Budget(u) ELSE tries[u] = 0

LEMMA LeftNat ==
    ASSUME NEW n \in Nat, n <= LoginLimit
    PROVE  Left(n) \in Nat
<1>1. PICK a \in Nat : a = LoginLimit - n
  BY Limits
<1>2. a * (a + 3) \in Nat
  OBVIOUS
<1>3. QED
  BY <1>1, <1>2 DEF Left

LEMMA LeftStep ==
    ASSUME NEW n \in Nat, n < LoginLimit
    PROVE  Left(n) = Left(n + 1) + 2 * (LoginLimit - n) + 2
<1>1. PICK a \in Nat : a = LoginLimit - n - 1
  BY Limits
<1>2. LoginLimit - n = a + 1 /\ LoginLimit - (n + 1) = a
  BY <1>1, Limits
<1>3. (a + 1) * (a + 1 + 3) = a * (a + 3) + 2 * (a + 1) + 2
  OBVIOUS
<1>4. QED
  BY <1>2, <1>3 DEF Left

LEMMA LeftFalls ==
    ASSUME NEW m \in Nat, NEW n \in Nat, m <= n, n <= LoginLimit
    PROVE  Left(m) >= Left(n) + 4 * (n - m)
<1>1. PICK d \in Nat : d = n - m
  OBVIOUS
<1>2. PICK b \in Nat : b = LoginLimit - n
  BY Limits
<1>3. Left(n) = b * (b + 3) /\ Left(m) = (b + d) * (b + d + 3)
  BY <1>1, <1>2, Limits DEF Left
<1>4. (b + d) * (b + d + 3) = b * (b + 3) + d * (2 * b + 3) + d * d
  OBVIOUS
<1>5. d * (2 * b + 3) = 2 * (d * b) + 3 * d /\ d * b \in Nat
  OBVIOUS
<1>6. d * d >= d
  OBVIOUS
<1>7. QED
  BY <1>1, <1>3, <1>4, <1>5, <1>6

(* What a request that counts holds.                                       *)
LEMMA CountsTypes ==
    ASSUME IInv, NEW w \in Worker, NEW u \in User, Counts(w, u)
    PROVE  /\ job[w].failed \in Nat /\ job[w].failed < LoginLimit
           /\ job[w].failed <= LoginLimit
           /\ Left(job[w].failed) \in Nat /\ Exists(u)
           /\ tries[u] \in Nat /\ Spent(w, u) \in Nat
<1>1. /\ job[w].failed \in Nat /\ job[w].failed < LoginLimit /\ Exists(u)
      /\ tries[u] \in Nat
  BY JobTypes DEF Counts, IInv, Held, TypeOK
<1>2. job[w].failed <= LoginLimit
  BY <1>1, Limits
<1>3. Left(job[w].failed) \in Nat
  BY <1>1, <1>2, LeftNat
<1>4. QED
  BY <1>1, <1>2, <1>3 DEF Spent

LEMMA CounterTypes ==
    ASSUME IInv, NEW u \in User, Exists(u)
    PROVE  /\ users[u].failed \in Nat /\ users[u].failed <= LoginLimit
           /\ Left(users[u].failed) \in Nat /\ tries[u] \in Nat
<1>1. users[u].failed \in Nat /\ users[u].failed <= LoginLimit
  BY AccountTypes DEF IInv, CounterAtMostLimit
<1>2. QED
  BY <1>1, LeftNat DEF IInv, TypeOK

(* Of two requests one is the other or the first.                          *)
LEMMA TwoWorkers ==
    ASSUME Cardinality(Worker) = 2, NEW a \in Worker, NEW b \in Worker, NEW c \in Worker
    PROVE  a = b \/ b = c \/ a = c
<1> SUFFICES ASSUME a # b, b # c, a # c PROVE FALSE
  OBVIOUS
<1> DEFINE S == ({a} \cup {b}) \cup {c}
<1>1. IsFiniteSet({a} \cup {b}) /\ Cardinality({a} \cup {b}) = 2
  <2>1. IsFiniteSet({a}) /\ Cardinality({a}) = 1 /\ b \notin {a}
    BY FS_Singleton
  <2>2. QED
    BY <2>1, FS_AddElement
<1>2. Cardinality(S) = 3
  BY <1>1, FS_AddElement
<1>3. S \in SUBSET Worker
  OBVIOUS
<1>4. Cardinality(S) <= Cardinality(Worker)
  BY <1>3, FS_Subset, WorkerAssumption
<1>5. QED
  BY <1>2, <1>4

(* No counter changes, and no request counts that did not.                 *)
LEMMA QuietTries ==
    ASSUME IInv, TriesInv, tries' = tries,
           \A u \in User : Exists(u)' = Exists(u) /\ users'[u].failed = users[u].failed,
           \A w \in Worker, u \in User :
               Counts(w, u)' => Counts(w, u) /\ job'[w].failed = job[w].failed
    PROVE  TriesInv'
<1> SUFFICES ASSUME NEW u \in User PROVE (IF Exists(u) THEN Budget(u) ELSE tries[u] = 0)'
  BY DEF TriesInv
<1>1. CASE Exists(u)
  <2>1. Budget(u)
    BY <1>1 DEF TriesInv
  <2>2. \A w \in Worker : Counts(w, u)' => Counts(w, u) /\ Spent(w, u)' = Spent(w, u)
    BY DEF Spent
  <2>3. Budget(u)'
    BY <2>1, <2>2 DEF Budget
  <2>4. QED
    BY <2>3, <1>1
<1>2. CASE ~Exists(u)
  BY <1>2 DEF TriesInv
<1>3. QED
  BY <1>1, <1>2

LEMMA RegisterTries ==
    ASSUME IInv, TriesInv, NEW x \in User, NEW p \in Password, Register(x, p)
    PROVE  TriesInv'
<1>1. /\ ~Exists(x) /\ UNCHANGED <<job, tries>>
      /\ \A u \in User : u # x => users'[u] = users[u]
      /\ users'[x].failed = 0
  BY DEF Register, history, IInv, TypeOK
<1>2. ASSUME NEW u \in User PROVE (IF Exists(u) THEN Budget(u) ELSE tries[u] = 0)'
  <2>1. CASE u = x
    <3>1. tries'[u] = 0 /\ users'[u].failed = 0 /\ \A w \in Worker : ~Counts(w, u)
      BY <2>1, <1>1, CountsTypes DEF TriesInv
    <3>2. \A w \in Worker : ~Counts(w, u)'
      BY <3>1, <1>1 DEF Counts
    <3>3. Left(0) \in Nat
      BY LeftNat, Limits
    <3>4. Budget(u)'
      BY <3>1, <3>2, <3>3 DEF Budget
    <3>5. QED
      BY <3>1, <3>4
  <2>2. CASE u # x
    BY <2>2, <1>1 DEF TriesInv, Budget, Counts, Spent, Exists
  <2>3. QED
    BY <2>1, <2>2
<1>3. QED
  BY <1>2 DEF TriesInv

(* A login loads the counter as it is.                                     *)
LEMMA LoadTries ==
    ASSUME IInv, TriesInv, NEW w \in Worker, Load(w)
    PROVE  TriesInv'
<1>1. PICK j : /\ job[w] = None /\ job' = [job EXCEPT ![w] = j] /\ Loaded(j)
               /\ UNCHANGED <<rows, now, tries>>
  BY BegunJob
<1>2. job'[w] = j /\ \A v \in Worker : v # w => job'[v] = job[v]
  BY <1>1 DEF IInv, TypeOK
<1>3. ASSUME NEW u \in User, Exists(u)
      PROVE  Budget(u)'
  <2> DEFINE c == users[u].failed
  <2>1. /\ Budget(u) /\ UNCHANGED <<users, tries>> /\ c \in Nat /\ c <= LoginLimit
        /\ Left(c) \in Nat /\ tries[u] \in Nat
    BY <1>1, <1>3, CounterTypes DEF TriesInv, rows
  <2>2. \A v \in Worker : v # w => /\ Counts(v, u)' = Counts(v, u)
                                   /\ Spent(v, u)' = Spent(v, u)
                                   /\ job'[v].failed = job[v].failed
    BY <1>2, <2>1 DEF Counts, Spent
  <2>3. Counts(w, u)' => job'[w].failed = c
    BY <1>1, <1>2 DEF Counts, Loaded
  <2>4. Left(0) \in Nat
    BY LeftNat, Limits
  <2>5. Counts(w, u)' => Spent(w, u)' <= Left(0) + 2 * c
    BY <2>1, <2>3, <2>4 DEF Spent, Budget
  <2>6. ASSUME NEW v \in Worker, v # w, Counts(w, u)', Counts(v, u)
        PROVE  /\ Spent(v, u) <= Left(0) + 2 * c
               /\ Spent(w, u)' <= Left(0) + 2 * job[v].failed
    <3> DEFINE g == job[v].failed
    <3>1. g \in Nat /\ g <= LoginLimit /\ Left(g) \in Nat
      BY <2>6, CountsTypes
    <3>2. Spent(v, u) <= Left(0) + 2 * c
      BY <2>1, <2>6 DEF Budget
    <3>3. Spent(w, u)' = 2 * tries[u] + Left(c) + 2 * c
      BY <2>1, <2>3, <2>6 DEF Spent
    <3>4. Spent(v, u) = 2 * tries[u] + Left(g) + 2 * g
      BY DEF Spent
    <3>5. 2 * tries[u] + Left(c) <= Left(0)
      BY <2>1 DEF Budget
    <3>6. g <= c => Left(g) >= Left(c) + 4 * (c - g)
      BY <3>1, <2>1, LeftFalls
    <3> HIDE DEF g, c
    <3>7. Spent(w, u)' <= Left(0) + 2 * g
      <4>1. CASE g <= c
        BY <4>1, <2>1, <2>4, <3>1, <3>2, <3>3, <3>4, <3>6
      <4>2. CASE ~(g <= c)
        BY <4>2, <2>1, <2>4, <3>1, <3>3, <3>5
      <4>3. QED
        BY <4>1, <4>2
    <3>8. QED
      BY <3>2, <3>7 DEF g
  <2>7. QED
    BY <2>1, <2>2, <2>3, <2>5, <2>6 DEF Budget
<1>4. QED
  BY <1>1, <1>3 DEF TriesInv, rows, Exists

(* A failure is counted.                                                   *)
LEMMA FailureTries ==
    ASSUME IInv, TriesInv, Cardinality(Worker) = 2, NEW w \in Worker, SaveFailure(w)
    PROVE  TriesInv'
<1>1. PICK u \in User : job[w].user = u
  BY JobTypes DEF SaveFailure, At, IInv
<1> DEFINE h == job[w].failed
<1>2. /\ users' = [users EXCEPT ![u].failed = h + 1] /\ tries' = [tries EXCEPT ![u] = @ + 1]
      /\ job' = [job EXCEPT ![w] = None] /\ Counts(w, u)
  BY <1>1 DEF SaveFailure, At, End, Counts
<1>3. /\ h \in Nat /\ h < LoginLimit /\ h <= LoginLimit /\ Left(h) \in Nat
      /\ Exists(u) /\ tries[u] \in Nat
  BY <1>2, CountsTypes
<1>4. /\ users[u] \in Account /\ users[u].failed \in Nat
      /\ users[u].failed <= LoginLimit
  BY <1>3, AccountTypes, CounterTypes DEF IInv
<1>5. /\ users'[u] \in Account /\ users'[u].failed = h + 1 /\ users'[u] # None
      /\ tries'[u] = tries[u] + 1
      /\ \A x \in User : x # u => users'[x] = users[x] /\ tries'[x] = tries[x]
  <2>1. users'[u] = [users[u] EXCEPT !.failed = h + 1]
    BY <1>2 DEF IInv, TypeOK
  <2>2. users'[u] \in Account /\ users'[u].failed = h + 1
    BY <2>1, <1>3, <1>4 DEF Account
  <2>3. QED
    BY <2>2, <1>2, Limits DEF IInv, TypeOK
<1>6. job'[w] = None /\ \A v \in Worker : v # w => job'[v] = job[v]
  BY <1>2 DEF IInv, TypeOK
<1>7. \A v \in Worker, x \in User : Counts(v, x)' => v # w /\ Counts(v, x)
  BY <1>6 DEF Counts
<1>8. Budget(u)'
  <2>1. Budget(u)
    BY <1>3 DEF TriesInv
  <2>2. Left(0) \in Nat /\ LoginLimit \in Nat
    BY LeftNat, Limits
  <2>3. Left(h) = Left(h + 1) + 2 * (LoginLimit - h) + 2 /\ Left(h + 1) \in Nat
    <3>1. h + 1 \in Nat /\ h + 1 <= LoginLimit
      BY <1>3, <2>2
    <3>2. QED
      BY <3>1, <1>3, LeftStep, LeftNat
  <2>4. 2 * tries[u] + Left(h) + 2 * h <= Left(0) + 2 * users[u].failed
    BY <2>1, <1>2 DEF Budget, Spent
  <2>5. 2 * (tries[u] + 1) + Left(h + 1) <= Left(0)
    BY <2>2, <2>3, <2>4, <1>3, <1>4
  <2>6. ASSUME NEW v \in Worker, Counts(v, u)'
        PROVE  Spent(v, u)' <= Left(0) + 2 * (h + 1)
    <3>1. v # w /\ Counts(v, u) /\ job'[v] = job[v]
      BY <2>6, <1>6, <1>7
    <3>2. Spent(v, u) <= Left(0) + 2 * h /\ Spent(v, u) \in Nat
      BY <3>1, <2>1, <1>2, CountsTypes DEF Budget
    <3>3. /\ job[v].failed \in Nat /\ Left(job[v].failed) \in Nat
      BY <3>1, CountsTypes
    <3>4. Spent(v, u)' = Spent(v, u) + 2
      BY <3>1, <3>3, <1>3, <1>5 DEF Spent
    <3>5. QED
      BY <3>2, <3>4, <2>2, <1>3
  <2>7. ~\E x, v \in Worker : x # v /\ Counts(x, u)' /\ Counts(v, u)'
    BY <1>7, TwoWorkers
  <2>8. QED
    BY <2>5, <2>6, <2>7, <1>5 DEF Budget
<1>9. ASSUME NEW x \in User, x # u
      PROVE  (IF Exists(x) THEN Budget(x) ELSE tries[x] = 0)'
  <2>1. \A v \in Worker : Counts(v, x)' => Counts(v, x) /\ job'[v] = job[v]
    BY <1>6, <1>7
  <2>2. QED
    BY <1>5, <1>9, <2>1 DEF TriesInv, Budget, Spent, Exists
<1>10. QED
  BY <1>5, <1>8, <1>9 DEF TriesInv, Exists

(* The row is set by anything but a failure: the count starts again.       *)
LEMMA SetUserTries ==
    ASSUME IInv, TriesInv, Cardinality(Worker) = 2, NEW w \in Worker, job[w] # None,
           NEW row \in Account, SetUser(w, row), row.failed <= LoginLimit
    PROVE  TriesInv'
<1>1. PICK u \in User : job[w].user = u
  BY JobTypes DEF IInv
<1>2. /\ users' = [users EXCEPT ![u] = row] /\ tries' = [tries EXCEPT ![u] = 0]
      /\ job' = [job EXCEPT ![w] = None]
  BY <1>1 DEF SetUser, End
<1>3. /\ users'[u] = row /\ row # None /\ tries'[u] = 0
      /\ \A x \in User : x # u => users'[x] = users[x] /\ tries'[x] = tries[x]
      /\ job'[w] = None /\ \A v \in Worker : v # w => job'[v] = job[v]
  BY <1>2, Limits DEF IInv, TypeOK
<1>4. \A v \in Worker, x \in User :
          Counts(v, x)' => v # w /\ Counts(v, x) /\ job'[v] = job[v]
  BY <1>3 DEF Counts
<1>5. Budget(u)'
  <2>1. row.failed \in Nat /\ row.failed <= LoginLimit /\ 0 \in Nat /\ LoginLimit \in Nat
    BY Limits DEF Account
  <2>2. /\ Left(0) \in Nat /\ Left(row.failed) \in Nat
        /\ Left(0) >= Left(row.failed) + 4 * (row.failed - 0)
    BY <2>1, LeftNat, LeftFalls
  <2>3. 2 * 0 + Left(row.failed) <= Left(0)
    BY <2>1, <2>2
  <2>4. ASSUME NEW v \in Worker, Counts(v, u)'
        PROVE  Spent(v, u)' <= Left(0) + 2 * row.failed
    <3> DEFINE g == job[v].failed
    <3>1. /\ Counts(v, u) /\ job'[v] = job[v]
      BY <2>4, <1>4
    <3>2. g \in Nat /\ g <= LoginLimit /\ Left(g) \in Nat
      BY <3>1, CountsTypes
    <3>3. Left(0) >= Left(g) + 4 * (g - 0)
      BY <3>2, <2>1, LeftFalls
    <3>4. Spent(v, u)' = 2 * 0 + Left(g) + 2 * g
      BY <3>1, <1>3 DEF Spent
    <3> HIDE DEF g
    <3>5. QED
      BY <3>2, <3>3, <3>4, <2>1, <2>2
  <2>5. ~\E x, v \in Worker : x # v /\ Counts(x, u)' /\ Counts(v, u)'
    BY <1>4, TwoWorkers
  <2>6. QED
    BY <2>3, <2>4, <2>5, <1>3 DEF Budget
<1>6. ASSUME NEW x \in User, x # u
      PROVE  (IF Exists(x) THEN Budget(x) ELSE tries[x] = 0)'
  BY <1>3, <1>4, <1>6 DEF TriesInv, Budget, Spent, Exists
<1>7. QED
  BY <1>3, <1>5, <1>6 DEF TriesInv, Exists

LEMMA TriesNext ==
    ASSUME IInv, TriesInv, Cardinality(Worker) = 2, [Next]_vars
    PROVE  TriesInv'
<1>1. ASSUME NEW w \in Worker, Finish(w) PROVE TriesInv'
  <2>1. CASE SaveFailure(w)
    BY <2>1, FailureTries
  <2>2. CASE SaveLogin(w) \/ SaveManagerLogin(w)
    <3> DEFINE row == [users[job[w].user] EXCEPT !.failed = 0]
    <3>1. job[w] # None /\ SetUser(w, row)
      BY <2>2 DEF SaveLogin, SaveManagerLogin, At
    <3>2. users[job[w].user] \in Account
      BY <3>1, JobTypes, AccountTypes DEF IInv, Held
    <3>3. row \in Account /\ row.failed <= LoginLimit
      BY <3>2, Limits DEF Account
    <3> HIDE DEF row
    <3>4. QED
      BY <3>1, <3>3, SetUserTries
  <2>3. CASE SaveWhole(w) \/ SaveVerified(w)
    <3>1. job[w] # None /\ job[w].op \in {"save", "verify"} /\ SetUser(w, job[w].copy)
      BY <2>3 DEF SaveWhole, SaveVerified, At
    <3>2. job[w].copy \in Account /\ job[w].copy.failed <= LoginLimit
      BY <3>1, CopyTypes DEF IInv, Held
    <3>3. PICK row \in Account : row = job[w].copy
      BY <3>2
    <3>4. QED
      BY <3>1, <3>2, <3>3, SetUserTries
  <2>4. ASSUME NEW p \in Password, ConfirmReset(w, p) PROVE TriesInv'
    <3> DEFINE half == [users[job[w].user] EXCEPT !.password = p]
               row == [half EXCEPT !.failed = 0]
    <3>1. job[w] # None /\ SetUser(w, row)
      BY <2>4 DEF ConfirmReset, At
    <3>2. users[job[w].user] \in Account
      BY <3>1, JobTypes, AccountTypes DEF IInv, Held
    <3>3. half \in Account
      BY <3>2 DEF Account
    <3> HIDE DEF half
    <3>4. row \in Account /\ row.failed <= LoginLimit
      BY <3>3, Limits DEF Account
    <3> HIDE DEF row
    <3>5. QED
      BY <3>1, <3>4, SetUserTries
  <2>5. ASSUME NEW p \in Password, Authenticate(w, p) PROVE TriesInv'
    <3>1. /\ job[w] \in Job /\ UNCHANGED <<rows, now, history>>
          /\ job' = [job EXCEPT ![w] =
                 IF users[job[w].user].password = p
                 THEN [@ EXCEPT !.at = "granted", !.copy = users[job[w].user], !.failed = 0]
                 ELSE [@ EXCEPT !.at = "denied"]]
      BY <2>5, JobTypes DEF Authenticate, At, IInv
    <3>2. \A v \in Worker : v # w => job'[v] = job[v]
      BY <3>1 DEF IInv, TypeOK
    <3>3. \/ job'[w] = [job[w] EXCEPT !.at = "denied"]
          \/ job'[w] = [job[w] EXCEPT !.at = "granted", !.copy = users[job[w].user],
                                      !.failed = 0]
      BY <3>1 DEF IInv, TypeOK
    <3>4. \/ job'[w].at = "granted"
          \/ /\ job'[w].op = job[w].op /\ job'[w].user = job[w].user
             /\ job'[w].failed = job[w].failed
      <4>1. CASE job'[w] = [job[w] EXCEPT !.at = "denied"]
        BY <4>1, <3>1 DEF Job
      <4>2. CASE job'[w] = [job[w] EXCEPT !.at = "granted", !.copy = users[job[w].user],
                                          !.failed = 0]
        <5>1. job'[w].at = "granted"
          BY <4>2, <3>1 DEF Job
        <5>2. QED
          BY <5>1
      <4>3. QED
        BY <3>3, <4>1, <4>2
    <3>5. job[w] # None /\ job[w].op \in {"login", "manager"} /\ job[w].at = "loaded"
      BY <2>5 DEF Authenticate, At
    <3>6. \A v \in Worker, u \in User :
              Counts(v, u)' => Counts(v, u) /\ job'[v].failed = job[v].failed
      BY <3>2, <3>4, <3>5 DEF Counts
    <3>7. QED
      BY <3>1, <3>6, QuietTries DEF rows, history, Exists
  <2>6. CASE Break(w) \/ \E k \in Link : CreateLink(w, k)
    <3>1. job' = [job EXCEPT ![w] = None] /\ UNCHANGED <<users, tries>>
      BY <2>6 DEF Break, CreateLink, End, rows, history
    <3>2. \A v \in Worker : job'[v] = job[v] \/ job'[v] = None
      BY <3>1 DEF IInv, TypeOK
    <3>3. \A v \in Worker, u \in User :
              Counts(v, u)' => Counts(v, u) /\ job'[v].failed = job[v].failed
      BY <3>2 DEF Counts
    <3>4. QED
      BY <3>1, <3>3, QuietTries DEF Exists
  <2>7. QED
    BY <1>1, <2>1, <2>2, <2>3, <2>4, <2>5, <2>6 DEF Finish
<1>2. CASE Wait \/ UNCHANGED vars
  BY <1>2, QuietTries DEF Wait, vars, rows, history, Exists, Counts
<1>3. QED
  BY <1>1, <1>2, RegisterTries, LoadTries DEF Next

(* The bound of TriesBounded, from the invariant.                          *)
LEMMA BudgetBound ==
    ASSUME IInv, TriesInv, NEW u \in User
    PROVE  tries[u] <= (LoginLimit * (LoginLimit + 3)) \div 2
<1>1. tries[u] \in Nat /\ Left(0) \in Nat
  BY LeftNat, Limits DEF IInv, TypeOK
<1>2. 2 * tries[u] <= Left(0)
  <2>1. CASE Exists(u)
    BY <2>1, <1>1, CounterTypes DEF TriesInv, Budget
  <2>2. CASE ~Exists(u)
    BY <2>2, <1>1 DEF TriesInv
  <2>3. QED
    BY <2>1, <2>2
<1>3. PICK q \in Nat : q = Left(0)
  BY <1>1
<1>4. tries[u] <= q \div 2
  BY <1>1, <1>2, <1>3
<1>5. Left(0) = LoginLimit * (LoginLimit + 3)
  BY Limits DEF Left
<1>6. QED
  BY <1>3, <1>4, <1>5

(* serializers.py:92 and views_cbv.py:97: whatever two requests at a time  *)
(* do, and for any limit L, at most L(L+3)/2 attempts fail before the      *)
(* counter is set by something else than a failure.                        *)
THEOREM FailedAttemptsBounded == Spec => []TriesBounded
<1>1. CASE Cardinality(Worker) = 2
  <2>1. Init => TriesInv
    BY DEF Init, TriesInv, Exists
  <2>2. IInv /\ TriesInv /\ [Next]_vars => TriesInv'
    BY <1>1, TriesNext
  <2>3. IInv /\ TriesInv => TriesBounded
    BY BudgetBound DEF IInv, TriesBounded
  <2>4. QED
    BY <2>1, <2>2, <2>3, Invariant, PTL DEF Spec
<1>2. CASE Cardinality(Worker) # 2
  <2>1. IInv => TriesBounded
    BY <1>2 DEF IInv, TriesBounded
  <2>2. QED
    BY <2>1, Invariant, PTL
<1>3. QED
  BY <1>1, <1>2
=============================================================================
