------------------------------ MODULE Identity ------------------------------
(***************************************************************************)
(* store.py: accounts, sessions and the limits on password attempts of one *)
(* tenant, under requests of the server and commands of the host.          *)
(*                                                                         *)
(* Store.lock is transaction.lock: a section under it excludes every other *)
(* section of every process, so it is one step here, unless it commits     *)
(* twice (change_password), when the model holds the lock in between.  A   *)
(* request or command that leaves the lock and comes back is two steps.    *)
(* A transaction of a ledger ends as in AtomicLedger: published, or with   *)
(* the ledger out of service; what the caller is told is not modelled.     *)
(***************************************************************************)
EXTENDS Naturals, FiniteSets

CONSTANTS
  User, Peer, Password, Proc, None,
  Token,        \* session tokens, and the authentication events they stand for
  Limit,        \* failed attempts in fifteen minutes per bucket: five in the code
  MaxRevision   \* bound of the model: identity events per account

ASSUME LimitAssumption == Limit \in Nat \ {0}
ASSUME RevisionAssumption == MaxRevision \in Nat
ASSUME NoneNotProc == None \notin Proc
ASSUME NoneNotPassword == None \notin Password

VARIABLES
  account,      \* users; revision counts the identity events, 0: no account
  rows,         \* tokens in the sessions table
  issued,       \* authentication.succeeded: user and revision of each session
  loggedOut,    \* authentication.logged_out
  expired,      \* tokens older than thirty minutes
  adminTrusted, \* does the ledger of the accounts match its checkpoint?
  authTrusted,  \* and the "authentication" ledger of denials?
  attempts,     \* login_attempts within the window, by bucket
  lock,         \* holder of transaction.lock between two commits
  task,         \* what each thread or command is in the middle of
  proved,       \* ghost: the password each session was opened with
  guesses       \* ghost: wrong passwords answered within the window

accounts == <<account, adminTrusted>>
tokens == <<rows, issued, loggedOut, expired, proved>>
limits == <<attempts, guesses, authTrusted>>
control == <<lock, task>>
vars == <<accounts, tokens, limits, control>>

\* login counts by peer and name, reauthentication by name.
Bucket == (Peer \X User) \cup User

Account == [revision : Nat, password : Password \cup {None}, active : BOOLEAN]
NoAccount == [revision |-> 0, password |-> None, active |-> FALSE]
Session == [user : User, revision : Nat]
ASSUME NoneNotSession == None \notin Session

\* What change_user is asked for; None and "keep" leave a column as it is.
Change == [password : Password \cup {None}, active : {"keep", "on", "off"}]
NoChange == [password |-> None, active |-> "keep"]

\* "verified": between the two sections of login; "admitted": session() has
\* accepted the request's token; "changing": change_password has checked the
\* current password; "editing": change_user has looked the account up.
Task == [at : {"idle", "verified", "admitted", "changing", "editing"},
         user : User \cup {None},
         seen : Account,
         token : Token \cup {None},
         change : Change]
Idle == [at |-> "idle", user |-> None, seen |-> NoAccount, token |-> None, change |-> NoChange]

TypeOK ==
  /\ account \in [User -> Account]
  /\ rows \in SUBSET Token
  /\ issued \in [Token -> Session \cup {None}]
  /\ loggedOut \in SUBSET Token
  /\ expired \in SUBSET Token
  /\ adminTrusted \in BOOLEAN
  /\ authTrusted \in BOOLEAN
  /\ attempts \in [Bucket -> 0..Limit]
  /\ lock \in Proc \cup {None}
  /\ task \in [Proc -> Task]
  /\ proved \in [Token -> Password \cup {None}]
  /\ guesses \in [Bucket -> Nat]

Init ==
  /\ account = [u \in User |-> NoAccount]
  /\ rows = {}
  /\ issued = [t \in Token |-> None]
  /\ loggedOut = {}
  /\ expired = {}
  /\ adminTrusted = TRUE
  /\ authTrusted = TRUE
  /\ attempts = [b \in Bucket |-> 0]
  /\ lock = None
  /\ task = [p \in Proc |-> Idle]
  /\ proved = [t \in Token |-> None]
  /\ guesses = [b \in Bucket |-> 0]

-----------------------------------------------------------------------------
Exists(u) == account[u].revision > 0

\* user(): an account whose row, attestation and ledger agree.
Known(u) == adminTrusted /\ Exists(u)

\* A transaction that commits may leave its ledger out of service.
MayLose(trusted, trustedNext) == trustedNext \in {trusted, FALSE}

\* Mutant: a session is accepted without a look at the logout events.
AcceptsAfterLogout(t) ==
  /\ t \in rows \ expired
  /\ issued[t] # None
  /\ Known(issued[t].user)
  /\ account[issued[t].user].active
  /\ issued[t].revision = account[issued[t].user].revision

\* session(): the row is there and the ledger still vouches for it.
Accepts(t) ==
  /\ t \in rows \ expired
  /\ issued[t] # None
  /\ Known(issued[t].user)
  /\ account[issued[t].user].active
  /\ issued[t].revision = account[issued[t].user].revision
  /\ t \notin loggedOut

\* add_user: init and user-add.
AddUser(u, password) ==
  /\ lock = None
  /\ adminTrusted
  /\ ~Exists(u)
  /\ MayLose(adminTrusted, adminTrusted')
  /\ account' = [account EXCEPT
       ![u] = [revision |-> 1, password |-> password, active |-> TRUE]]
  /\ UNCHANGED <<tokens, limits, control>>

-----------------------------------------------------------------------------
\* A wrong password is counted in a commit of its own, if the limit lets it through.
FailedAttempt(b) ==
  /\ attempts[b] < Limit
  /\ attempts' = [attempts EXCEPT ![b] = @ + 1]
  /\ guesses' = [guesses EXCEPT ![b] = @ + 1]

\* Mutant: the attempt is written in the transaction that audits the denial.
RefuseLoginInAudit(peer, u, password) ==
  /\ lock = None
  /\ Exists(u) => password # account[u].password
  /\ attempts[<<peer, u>>] < Limit
  /\ guesses' = [guesses EXCEPT ![<<peer, u>>] = @ + 1]
  /\ attempts' = IF authTrusted THEN [attempts EXCEPT ![<<peer, u>>] = @ + 1] ELSE attempts
  /\ MayLose(authTrusted, authTrusted')
  /\ UNCHANGED <<accounts, tokens, control>>

\* login with a wrong password or an unknown name, whether or not the denial
\* can be audited.
RefuseLogin(peer, u, password) ==
  /\ lock = None
  /\ Exists(u) => password # account[u].password
  /\ FailedAttempt(<<peer, u>>)
  /\ MayLose(authTrusted, authTrusted')
  /\ UNCHANGED <<accounts, tokens, control>>

\* login, first section: the password matches an active account.
VerifyLogin(p, peer, u, password) ==
  /\ task[p].at = "idle"
  /\ lock = None
  /\ attempts[<<peer, u>>] < Limit
  /\ Known(u)
  /\ password = account[u].password
  /\ account[u].active
  /\ task' = [task EXCEPT ![p] = [Idle EXCEPT
       !.at = "verified", !.user = u, !.seen = account[u]]]
  /\ UNCHANGED <<accounts, tokens, limits, lock>>

\* Mutant: the identity is not compared with the one the password was checked for.
OpenSessionUnchecked(p, t) ==
  /\ task[p].at = "verified"
  /\ lock = None
  /\ Known(task[p].user)
  /\ account[task[p].user].active
  /\ issued[t] = None
  /\ MayLose(adminTrusted, adminTrusted')
  /\ rows' = rows \cup {t}
  /\ issued' = [issued EXCEPT
       ![t] = [user |-> task[p].user, revision |-> account[task[p].user].revision]]
  /\ proved' = [proved EXCEPT ![t] = task[p].seen.password]
  /\ task' = [task EXCEPT ![p] = Idle]
  /\ UNCHANGED <<account, loggedOut, expired, limits, lock>>

\* login, second section: a session for the identity that was checked.
OpenSession(p, t) ==
  /\ task[p].at = "verified"
  /\ lock = None
  /\ Known(task[p].user)
  /\ account[task[p].user].active
  /\ account[task[p].user].revision = task[p].seen.revision
  /\ issued[t] = None
  /\ MayLose(adminTrusted, adminTrusted')
  /\ rows' = rows \cup {t}
  /\ issued' = [issued EXCEPT
       ![t] = [user |-> task[p].user, revision |-> account[task[p].user].revision]]
  /\ proved' = [proved EXCEPT ![t] = task[p].seen.password]
  /\ task' = [task EXCEPT ![p] = Idle]
  /\ UNCHANGED <<account, loggedOut, expired, limits, lock>>

-----------------------------------------------------------------------------
\* A request arrives with a token that session() accepts.
Admit(p, t) ==
  /\ task[p].at = "idle"
  /\ lock = None
  /\ Accepts(t)
  /\ task' = [task EXCEPT ![p] = [Idle EXCEPT
       !.at = "admitted", !.user = issued[t].user, !.token = t]]
  /\ UNCHANGED <<accounts, tokens, limits, lock>>

\* logout: the row goes and the event says so; the token is not looked at again.
Logout(p) ==
  /\ task[p].at = "admitted"
  /\ lock = None
  /\ adminTrusted
  /\ MayLose(adminTrusted, adminTrusted')
  /\ rows' = rows \ {task[p].token}
  /\ loggedOut' = loggedOut \cup {task[p].token}
  /\ task' = [task EXCEPT ![p] = Idle]
  /\ UNCHANGED <<account, issued, expired, proved, limits, lock>>

\* reauthenticate: the account as it is now, within the limit.
MayReauthenticate(p) ==
  /\ task[p].at = "admitted"
  /\ lock = None
  /\ Known(task[p].user)
  /\ account[task[p].user].active
  /\ attempts[task[p].user] < Limit

\* Its password does not match, for a review or a change of password.
RefuseReauthentication(p, password) ==
  /\ MayReauthenticate(p)
  /\ password # account[task[p].user].password
  /\ FailedAttempt(task[p].user)
  /\ task' = [task EXCEPT ![p] = Idle]
  /\ UNCHANGED <<accounts, tokens, authTrusted, lock>>

\* It matches, and the bucket is cleared.
ClearAttempts(u) ==
  /\ attempts' = [attempts EXCEPT ![u] = 0]
  /\ guesses' = [guesses EXCEPT ![u] = 0]
  /\ UNCHANGED authTrusted

\* For a review, which Gateway takes from here.
Reauthenticate(p) ==
  /\ MayReauthenticate(p)
  /\ ClearAttempts(task[p].user)
  /\ task' = [task EXCEPT ![p] = Idle]
  /\ UNCHANGED <<accounts, tokens, lock>>

\* Mutant: the lock is not held on to.
BeginPasswordChangeUnlocked(p, new) ==
  /\ MayReauthenticate(p)
  /\ ClearAttempts(task[p].user)
  /\ task' = [task EXCEPT ![p] = [@ EXCEPT
       !.at = "changing", !.seen = account[task[p].user],
       !.change = [password |-> new, active |-> "keep"]]]
  /\ UNCHANGED <<accounts, tokens, lock>>

\* change_password: the current password is checked, and the lock is kept.
BeginPasswordChange(p, new) ==
  /\ MayReauthenticate(p)
  /\ ClearAttempts(task[p].user)
  /\ lock' = p
  /\ task' = [task EXCEPT ![p] = [@ EXCEPT
       !.at = "changing", !.seen = account[task[p].user],
       !.change = [password |-> new, active |-> "keep"]]]
  /\ UNCHANGED <<accounts, tokens>>

\* user-update, password-reset and restore: the account is looked up first.
BeginChange(p, u, change) ==
  /\ task[p].at = "idle"
  /\ lock = None
  /\ Known(u)
  /\ change.password = None \/ change.active = "keep"
  /\ task' = [task EXCEPT ![p] = [Idle EXCEPT
       !.at = "editing", !.user = u, !.seen = account[u], !.change = change]]
  /\ UNCHANGED <<accounts, tokens, limits, lock>>

Applied(acc, change) ==
  [revision |-> acc.revision + 1,
   password |-> IF change.password = None THEN acc.password ELSE change.password,
   active |-> IF change.active = "keep" THEN acc.active ELSE change.active = "on"]

\* Mutant: the change is applied to the account that was looked up first.
CommitChangeToStale(p) ==
  LET u == task[p].user IN
  /\ task[p].at \in {"changing", "editing"}
  /\ lock \in {None, p}
  /\ Known(u)
  /\ account[u].revision < MaxRevision
  /\ MayLose(adminTrusted, adminTrusted')
  /\ account' = [account EXCEPT
       ![u] = [Applied(task[p].seen, task[p].change) EXCEPT !.revision = account[u].revision + 1]]
  /\ rows' = {t \in rows : issued[t].user # u}
  /\ task' = [task EXCEPT ![p] = Idle]
  /\ lock' = None
  /\ UNCHANGED <<issued, loggedOut, expired, proved, limits>>

\* change_user's transaction: the account as it is now, changed; its sessions end.
CommitChange(p) ==
  LET u == task[p].user IN
  /\ task[p].at \in {"changing", "editing"}
  /\ lock \in {None, p}
  /\ Known(u)
  /\ account[u].revision < MaxRevision
  /\ MayLose(adminTrusted, adminTrusted')
  /\ account' = [account EXCEPT ![u] = Applied(account[u], task[p].change)]
  /\ rows' = {t \in rows : issued[t].user # u}
  /\ task' = [task EXCEPT ![p] = Idle]
  /\ lock' = None
  /\ UNCHANGED <<issued, loggedOut, expired, proved, limits>>

\* The request or command is refused, fails, times out, is over, or dies.
Leave(p) ==
  /\ task[p].at # "idle"
  /\ task' = [task EXCEPT ![p] = Idle]
  /\ lock' = IF lock = p THEN None ELSE lock
  /\ UNCHANGED <<accounts, tokens, limits>>

-----------------------------------------------------------------------------
\* Thirty minutes after a session was opened.
Expire(t) ==
  /\ issued[t] # None
  /\ t \notin expired
  /\ expired' = expired \cup {t}
  /\ UNCHANGED <<accounts, rows, issued, loggedOut, proved, limits, control>>

\* Fifteen minutes after the oldest attempt of a bucket.
Age(b) ==
  /\ attempts[b] + guesses[b] > 0
  /\ attempts' = [attempts EXCEPT ![b] = IF @ > 0 THEN @ - 1 ELSE 0]
  /\ guesses' = [guesses EXCEPT ![b] = IF @ > 0 THEN @ - 1 ELSE 0]
  /\ UNCHANGED <<accounts, tokens, authTrusted, control>>

\* The host puts the row of an old session back.
PutBack(t) ==
  /\ issued[t] # None
  /\ rows' = rows \cup {t}
  /\ UNCHANGED <<accounts, issued, loggedOut, expired, proved, limits, control>>

\* Any other transaction of the tenant's ledger loses its checkpoint.
LoseCheckpoint ==
  /\ lock = None
  /\ adminTrusted
  /\ adminTrusted' = FALSE
  /\ UNCHANGED <<account, tokens, limits, control>>

Next ==
  \/ \E u \in User, password \in Password : AddUser(u, password)
  \/ \E peer \in Peer, u \in User, password \in Password :
       \/ RefuseLogin(peer, u, password)
       \/ \E p \in Proc : VerifyLogin(p, peer, u, password)
  \/ \E p \in Proc, t \in Token : OpenSession(p, t) \/ Admit(p, t)
  \/ \E p \in Proc, password \in Password :
       RefuseReauthentication(p, password) \/ BeginPasswordChange(p, password)
  \/ \E p \in Proc, u \in User, change \in Change : BeginChange(p, u, change)
  \/ \E p \in Proc : Logout(p) \/ Reauthenticate(p) \/ CommitChange(p) \/ Leave(p)
  \/ \E t \in Token : Expire(t) \/ PutBack(t)
  \/ \E b \in Bucket : Age(b)
  \/ LoseCheckpoint

Spec == Init /\ [][Next]_vars

-----------------------------------------------------------------------------
\* A session that is accepted was opened with the password in force now, though
\* login checks it in one section and opens the session in another ("An account
\* change between password verification and session creation must win").
OpenedWithPasswordInForce ==
  \A t \in Token : Accepts(t) => proved[t] = account[issued[t].user].password

\* The password that a person replaces is the one that was checked: no command
\* of the host changes the account in between ("Keep reauthentication and
\* credential replacement in one serialized boundary").
SelfServiceIsSerialized ==
  \A p \in Proc : task[p].at = "changing" => account[task[p].user] = task[p].seen

\* What ends a session for good.
Ended(t) ==
  /\ issued[t] # None
  /\ \/ t \in loggedOut
     \/ t \in expired
     \/ issued[t].revision < account[issued[t].user].revision

\* Once a session has ended by logout, by age or by a change of its account, it
\* is never accepted again, not even when its row is put back.
SessionEndsForGood ==
  [][\A t \in Token : Ended(t) => ~Accepts(t) /\ ~Accepts(t)']_vars

\* Within fifteen minutes, and since the last success of a review, no bucket is
\* told more than Limit times that a password was wrong, also when the denials
\* cannot be audited.
GuessesAreBounded == \A b \in Bucket : guesses[b] <= Limit

\* Changes of one account compose: a new password never enables a disabled
\* account, whatever was read before the account was disabled (UPGRADING.md:
\* "password-reset does not enable a disabled account").
ResetDoesNotEnable ==
  [][\A u \in User :
       /\ account[u].revision > 0
       /\ account'[u].password # account[u].password
       => account'[u].active = account[u].active]_vars

=============================================================================
