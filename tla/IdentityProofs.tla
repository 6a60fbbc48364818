---------------------------- MODULE IdentityProofs ----------------------------
(***************************************************************************)
(* Proofs about Identity, for every set of accounts, passwords, processes, *)
(* tokens and peers, every limit and every bound.                          *)
(***************************************************************************)
EXTENDS Identity, TLAPS

\* An account as it was seen some time ago: it has lost no identity event since,
\* and if it has gained none it has not changed.
SeenBefore(acc, u) ==
  /\ acc.revision <= account[u].revision
  /\ acc.revision = account[u].revision => acc = account[u]

\* What a thread knows about the account it works on.
TaskOK(p) ==
  /\ task[p].at # "idle" => task[p].user \in User
  /\ task[p].at = "admitted" => task[p].token \in Token
  /\ task[p].at = "verified" => SeenBefore(task[p].seen, task[p].user)
  /\ task[p].at = "changing" => lock = p /\ task[p].seen = account[task[p].user]
  /\ task[p].change.password = None \/ task[p].change.active = "keep"

\* What is known about a session: which password opened it, unless the account
\* has changed since.
SessionOK(t) ==
  issued[t] # None =>
    /\ issued[t].revision <= account[issued[t].user].revision
    /\ issued[t].revision = account[issued[t].user].revision =>
         proved[t] = account[issued[t].user].password

IInv ==
  /\ TypeOK
  /\ \A p \in Proc : TaskOK(p)
  /\ \A t \in Token : SessionOK(t)
  /\ attempts = guesses

-----------------------------------------------------------------------------
LEMMA IdleTyped == Idle \in Task /\ Idle.at = "idle" /\ Idle.change = NoChange
  BY DEF Idle, Task, NoChange, Change, NoAccount, Account

LEMMA AppliedTyped ==
  ASSUME NEW acc \in Account, NEW change \in Change
  PROVE  /\ Applied(acc, change) \in Account
         /\ Applied(acc, change).revision = acc.revision + 1
         /\ change.active = "keep" => Applied(acc, change).active = acc.active
         /\ change.password = None => Applied(acc, change).password = acc.password
<1> DEFINE pw == IF change.password = None THEN acc.password ELSE change.password
           act == IF change.active = "keep" THEN acc.active ELSE change.active = "on"
<1>1. /\ acc.revision + 1 \in Nat
      /\ acc.password \in Password \cup {None}
      /\ acc.active \in BOOLEAN
      /\ change.password \in Password \cup {None}
  BY DEF Account, Change
<1>2. pw \in Password \cup {None} /\ (change.password = None => pw = acc.password)
  BY <1>1
<1>3. act \in BOOLEAN /\ (change.active = "keep" => act = acc.active)
  BY <1>1, Zenon
<1>4. Applied(acc, change) = [revision |-> acc.revision + 1, password |-> pw, active |-> act]
  BY DEF Applied
<1> HIDE DEF pw, act
<1>5. Applied(acc, change) \in Account
  BY <1>1, <1>2, <1>3, <1>4 DEF Account
<1>6. /\ Applied(acc, change).revision = acc.revision + 1
      /\ Applied(acc, change).password = pw
      /\ Applied(acc, change).active = act
  BY <1>4
<1> QED BY <1>2, <1>3, <1>5, <1>6

LEMMA IdleTaskOK ==
  ASSUME NEW p \in Proc, task'[p] = Idle
  PROVE  TaskOK(p)'
  BY IdleTyped DEF TaskOK, NoChange

\* A step of one process that leaves the accounts alone concerns its own task only.
LEMMA OtherTasksOK ==
  ASSUME IInv, NEW p \in Proc, UNCHANGED account, TaskOK(p)',
         \A q \in Proc \ {p} : task'[q] = task[q] /\ (lock = q => lock' = q)
  PROVE  \A q \in Proc : TaskOK(q)'
<1> SUFFICES ASSUME NEW q \in Proc \ {p} PROVE TaskOK(q)'
  OBVIOUS
<1>1. TaskOK(q)
  BY DEF IInv
<1> QED BY <1>1 DEF TaskOK, SeenBefore

LEMMA NoTaskChanges ==
  ASSUME IInv, UNCHANGED <<account, task, lock>>
  PROVE  \A q \in Proc : TaskOK(q)'
  BY DEF IInv, TaskOK, SeenBefore

LEMMA NoSessionChanges ==
  ASSUME IInv, UNCHANGED <<account, issued, proved>>
  PROVE  \A t \in Token : SessionOK(t)'
  BY DEF IInv, SessionOK

LEMMA SetTask ==
  ASSUME TypeOK, NEW p \in Proc, NEW new \in Task, task' = [task EXCEPT ![p] = new]
  PROVE  /\ task' \in [Proc -> Task]
         /\ task'[p] = new
         /\ \A q \in Proc \ {p} : task'[q] = task[q]
  BY DEF TypeOK

LEMMA BucketsTyped ==
  /\ \A peer \in Peer, u \in User : <<peer, u>> \in Bucket
  /\ \A u \in User : u \in Bucket
  BY DEF Bucket

LEMMA FailedAttemptTyped ==
  ASSUME IInv, NEW b \in Bucket, FailedAttempt(b)
  PROVE  /\ attempts' \in [Bucket -> 0..Limit]
         /\ guesses' \in [Bucket -> Nat]
         /\ attempts' = guesses'
  BY LimitAssumption DEF IInv, TypeOK, FailedAttempt

LEMMA ClearAttemptsTyped ==
  ASSUME IInv, NEW u \in User, ClearAttempts(u)
  PROVE  /\ attempts' \in [Bucket -> 0..Limit]
         /\ guesses' \in [Bucket -> Nat]
         /\ attempts' = guesses'
<1>1. /\ attempts' = [attempts EXCEPT ![u] = 0]
      /\ guesses' = [guesses EXCEPT ![u] = 0]
      /\ u \in Bucket
      /\ 0 \in 0..Limit /\ 0 \in Nat
  BY LimitAssumption, BucketsTyped DEF ClearAttempts
<1>2. /\ attempts \in [Bucket -> 0..Limit]
      /\ guesses \in [Bucket -> Nat]
      /\ attempts = guesses
  BY DEF IInv, TypeOK
<1> QED BY <1>1, <1>2

-----------------------------------------------------------------------------
LEMMA InitIInv == Init => IInv
<1> SUFFICES ASSUME Init PROVE IInv
  OBVIOUS
<1>1. TypeOK
  BY IdleTyped, LimitAssumption DEF Init, TypeOK, NoAccount, Account
<1>2. \A p \in Proc : TaskOK(p)
  BY IdleTyped DEF Init, TaskOK, NoChange
<1>3. \A t \in Token : SessionOK(t)
  BY DEF Init, SessionOK
<1> QED BY <1>1, <1>2, <1>3 DEF IInv, Init

LEMMA AddUserIInv ==
  ASSUME IInv, NEW u \in User, NEW password \in Password, AddUser(u, password)
  PROVE  IInv'
<1> DEFINE new == [revision |-> 1, password |-> password, active |-> TRUE]
<1>1. new \in Account /\ new.revision = 1
  BY DEF Account
<1>2. account' = [account EXCEPT ![u] = new]
  BY DEF AddUser
<1>3. UNCHANGED <<rows, issued, loggedOut, expired, proved, attempts, guesses, authTrusted,
                  lock, task>> /\ adminTrusted' \in BOOLEAN
  BY DEF AddUser, tokens, limits, control, MayLose, IInv, TypeOK
<1> HIDE DEF new
<1>4. TypeOK'
  BY <1>1, <1>2, <1>3 DEF IInv, TypeOK
<1>5. account[u].revision = 0 /\ account'[u].revision = 1
  BY <1>1, <1>2 DEF AddUser, Exists, IInv, TypeOK, Account
<1>6. \A v \in User \ {u} : account'[v] = account[v]
  BY <1>2 DEF IInv, TypeOK
<1>7. ASSUME NEW p \in Proc PROVE TaskOK(p)'
  <2>1. TaskOK(p) /\ lock = lock' /\ task' = task /\ task[p] \in Task
    BY <1>3 DEF IInv, TypeOK
  <2>2. task[p].at = "changing" => task[p].user # u
    <3> SUFFICES ASSUME task[p].at = "changing", task[p].user = u PROVE FALSE
      OBVIOUS
    <3>1. lock = p
      BY <2>1 DEF TaskOK
    <3> QED BY <3>1, NoneNotProc DEF AddUser
  <2>3. task[p].at = "verified" => SeenBefore(task[p].seen, task[p].user)'
    <3> SUFFICES ASSUME task[p].at = "verified" PROVE SeenBefore(task[p].seen, task[p].user)'
      OBVIOUS
    <3>1. SeenBefore(task[p].seen, task[p].user) /\ task[p].user \in User
      BY <2>1 DEF TaskOK
    <3>2. task[p].seen.revision \in Nat
      BY <2>1 DEF Task, Account
    <3>3. CASE task[p].user = u
      BY <3>1, <3>2, <3>3, <1>5, <2>1 DEF SeenBefore
    <3>4. CASE task[p].user # u
      BY <3>1, <3>4, <1>6, <2>1 DEF SeenBefore
    <3> QED BY <3>3, <3>4
  <2> QED BY <2>1, <2>2, <2>3, <1>6 DEF TaskOK
<1>8. ASSUME NEW t \in Token PROVE SessionOK(t)'
  <2>1. SessionOK(t) /\ issued'[t] = issued[t] /\ proved'[t] = proved[t]
        /\ issued[t] \in Session \cup {None}
    BY <1>3 DEF IInv, TypeOK
  <2> QED BY <2>1, <1>5, <1>6 DEF SessionOK, Session
<1> QED BY <1>3, <1>4, <1>7, <1>8 DEF IInv

LEMMA RefuseLoginIInv ==
  ASSUME IInv, NEW peer \in Peer, NEW u \in User, NEW password \in Password,
         RefuseLogin(peer, u, password)
  PROVE  IInv'
<1>1. FailedAttempt(<<peer, u>>) /\ <<peer, u>> \in Bucket
  BY BucketsTyped DEF RefuseLogin
<1>2. UNCHANGED <<account, adminTrusted, rows, issued, loggedOut, expired, proved, lock, task>>
      /\ authTrusted' \in BOOLEAN
  BY DEF RefuseLogin, accounts, tokens, control, MayLose, IInv, TypeOK
<1>3. /\ attempts' \in [Bucket -> 0..Limit]
      /\ guesses' \in [Bucket -> Nat]
      /\ attempts' = guesses'
  BY <1>1, FailedAttemptTyped
<1>4. TypeOK'
  BY <1>2, <1>3 DEF IInv, TypeOK
<1> QED BY <1>2, <1>3, <1>4, NoTaskChanges, NoSessionChanges DEF IInv

LEMMA VerifyLoginIInv ==
  ASSUME IInv, NEW p \in Proc, NEW peer \in Peer, NEW u \in User, NEW password \in Password,
         VerifyLogin(p, peer, u, password)
  PROVE  IInv'
<1> DEFINE new == [Idle EXCEPT !.at = "verified", !.user = u, !.seen = account[u]]
<1>1. account[u] \in Account /\ account[u].revision \in Nat
  BY DEF IInv, TypeOK, Account
<1>2. /\ new \in Task
      /\ new.at = "verified" /\ new.user = u /\ new.seen = account[u]
      /\ new.change = NoChange
  BY <1>1, IdleTyped DEF Idle, Task
<1>3. /\ task' = [task EXCEPT ![p] = new]
      /\ UNCHANGED <<account, adminTrusted, rows, issued, loggedOut, expired, proved, attempts,
                     guesses, authTrusted, lock>>
  BY DEF VerifyLogin, accounts, tokens, limits
<1> HIDE DEF new
<1>4. /\ task' \in [Proc -> Task]
      /\ task'[p] = new
      /\ \A q \in Proc \ {p} : task'[q] = task[q]
  BY <1>2, <1>3, SetTask DEF IInv
<1>5. TypeOK'
  BY <1>3, <1>4 DEF IInv, TypeOK
<1>6. TaskOK(p)'
  BY <1>1, <1>2, <1>3, <1>4 DEF TaskOK, SeenBefore, NoChange
<1>7. \A q \in Proc : TaskOK(q)'
  BY <1>3, <1>4, <1>6, OtherTasksOK
<1> QED BY <1>3, <1>5, <1>7, NoSessionChanges DEF IInv

LEMMA OpenSessionIInv ==
  ASSUME IInv, NEW p \in Proc, NEW t \in Token, OpenSession(p, t)
  PROVE  IInv'
<1> DEFINE u == task[p].user
           new == [user |-> u, revision |-> account[u].revision]
<1>1. u \in User /\ SeenBefore(task[p].seen, u) /\ task[p].seen.revision = account[u].revision
  BY DEF OpenSession, IInv, TaskOK
<1>2. task[p].seen = account[u]
  BY <1>1 DEF SeenBefore
<1>3. /\ account[u].revision \in Nat
      /\ account[u].password \in Password \cup {None}
  BY <1>1 DEF IInv, TypeOK, Account
<1>4. new \in Session
  BY <1>1, <1>3 DEF Session
<1>5. /\ issued' = [issued EXCEPT ![t] = new]
      /\ proved' = [proved EXCEPT ![t] = account[u].password]
      /\ rows' = rows \cup {t}
      /\ task' = [task EXCEPT ![p] = Idle]
  BY <1>2 DEF OpenSession
<1>6. UNCHANGED <<account, loggedOut, expired, attempts, guesses, authTrusted, lock>>
      /\ adminTrusted' \in BOOLEAN
  BY DEF OpenSession, limits, MayLose, IInv, TypeOK
<1>7. new.user = u /\ new.revision = account[u].revision /\ new # None
  BY <1>4, NoneNotSession
<1> HIDE DEF new, u
<1>8. /\ task' \in [Proc -> Task]
      /\ task'[p] = Idle
      /\ \A q \in Proc \ {p} : task'[q] = task[q]
  BY <1>5, IdleTyped, SetTask DEF IInv
<1>9. TypeOK'
  BY <1>3, <1>4, <1>5, <1>6, <1>8 DEF IInv, TypeOK
<1>10. \A q \in Proc : TaskOK(q)'
  BY <1>6, <1>8, IdleTaskOK, OtherTasksOK
<1>11. ASSUME NEW s \in Token PROVE SessionOK(s)'
  <2>1. CASE s = t
    <3>1. issued'[s] = new /\ proved'[s] = account[u].password
      BY <2>1, <1>5 DEF IInv, TypeOK
    <3> QED BY <3>1, <1>3, <1>6, <1>7 DEF SessionOK
  <2>2. CASE s # t
    <3>1. issued'[s] = issued[s] /\ proved'[s] = proved[s]
      BY <2>2, <1>5 DEF IInv, TypeOK
    <3> QED BY <3>1, <1>6 DEF IInv, SessionOK
  <2> QED BY <2>1, <2>2
<1> QED BY <1>6, <1>9, <1>10, <1>11 DEF IInv

LEMMA AdmitIInv ==
  ASSUME IInv, NEW p \in Proc, NEW t \in Token, Admit(p, t)
  PROVE  IInv'
<1> DEFINE new == [Idle EXCEPT !.at = "admitted", !.user = issued[t].user, !.token = t]
<1>1. issued[t].user \in User
  BY DEF Admit, Accepts, IInv, TypeOK, Session
<1>2. /\ new \in Task
      /\ new.at = "admitted" /\ new.user = issued[t].user /\ new.token = t
      /\ new.change = NoChange
  BY <1>1, IdleTyped DEF Idle, Task
<1>3. /\ task' = [task EXCEPT ![p] = new]
      /\ UNCHANGED <<account, adminTrusted, rows, issued, loggedOut, expired, proved, attempts,
                     guesses, authTrusted, lock>>
  BY DEF Admit, accounts, tokens, limits
<1> HIDE DEF new
<1>4. /\ task' \in [Proc -> Task]
      /\ task'[p] = new
      /\ \A q \in Proc \ {p} : task'[q] = task[q]
  BY <1>2, <1>3, SetTask DEF IInv
<1>5. TypeOK'
  BY <1>3, <1>4 DEF IInv, TypeOK
<1>6. TaskOK(p)'
  BY <1>1, <1>2, <1>4 DEF TaskOK, NoChange
<1>7. \A q \in Proc : TaskOK(q)'
  BY <1>3, <1>4, <1>6, OtherTasksOK
<1> QED BY <1>3, <1>5, <1>7, NoSessionChanges DEF IInv

\* Every step that only ends the task of a process and perhaps forgets some rows.
LEMMA EndTaskIInv ==
  ASSUME IInv, NEW p \in Proc, task' = [task EXCEPT ![p] = Idle],
         UNCHANGED <<account, issued, expired, proved>>,
         rows' \in SUBSET Token, loggedOut' \in SUBSET Token,
         adminTrusted' \in BOOLEAN, authTrusted' \in BOOLEAN,
         attempts' \in [Bucket -> 0..Limit], guesses' \in [Bucket -> Nat], attempts' = guesses',
         lock' = lock \/ (lock = p /\ lock' = None)
  PROVE  IInv'
<1>1. /\ task' \in [Proc -> Task]
      /\ task'[p] = Idle
      /\ \A q \in Proc \ {p} : task'[q] = task[q]
  BY IdleTyped, SetTask DEF IInv
<1>2. TypeOK'
  BY <1>1 DEF IInv, TypeOK
<1>3. \A q \in Proc : TaskOK(q)'
  BY <1>1, IdleTaskOK, OtherTasksOK
<1> QED BY <1>2, <1>3, NoSessionChanges DEF IInv

LEMMA EndingSteps ==
  ASSUME IInv, NEW p \in Proc,
         \/ Logout(p) \/ Reauthenticate(p) \/ Leave(p)
         \/ \E password \in Password : RefuseReauthentication(p, password)
  PROVE  IInv'
<1>1. /\ rows \in SUBSET Token /\ loggedOut \in SUBSET Token
      /\ adminTrusted \in BOOLEAN /\ authTrusted \in BOOLEAN
      /\ attempts \in [Bucket -> 0..Limit] /\ guesses \in [Bucket -> Nat]
      /\ attempts = guesses
  BY DEF IInv, TypeOK
<1>2. task[p].at = "admitted" => task[p].user \in User /\ task[p].token \in Token
  BY DEF IInv, TaskOK
<1>3. CASE Logout(p)
  <2>1. /\ task' = [task EXCEPT ![p] = Idle]
        /\ UNCHANGED <<account, issued, expired, proved, attempts, guesses, authTrusted, lock>>
        /\ rows' \in SUBSET Token
        /\ loggedOut' \in SUBSET Token
        /\ adminTrusted' \in BOOLEAN
    BY <1>1, <1>2, <1>3 DEF Logout, limits, MayLose
  <2> QED BY <1>1, <2>1, EndTaskIInv
<1>4. CASE Reauthenticate(p)
  <2>1. /\ task' = [task EXCEPT ![p] = Idle]
        /\ UNCHANGED <<account, adminTrusted, rows, issued, loggedOut, expired, proved, lock>>
        /\ ClearAttempts(task[p].user) /\ authTrusted' = authTrusted
        /\ task[p].user \in User
    BY <1>2, <1>4 DEF Reauthenticate, MayReauthenticate, accounts, tokens, ClearAttempts
  <2>2. /\ attempts' \in [Bucket -> 0..Limit]
        /\ guesses' \in [Bucket -> Nat]
        /\ attempts' = guesses'
    BY <2>1, ClearAttemptsTyped
  <2> QED BY <1>1, <2>1, <2>2, EndTaskIInv
<1>5. CASE Leave(p)
  <2>1. /\ task' = [task EXCEPT ![p] = Idle]
        /\ UNCHANGED <<account, adminTrusted, rows, issued, loggedOut, expired, proved, attempts,
                       guesses, authTrusted>>
        /\ lock' = lock \/ (lock = p /\ lock' = None)
    BY <1>5 DEF Leave, accounts, tokens, limits
  <2> QED BY <1>1, <2>1, EndTaskIInv
<1>6. ASSUME NEW password \in Password, RefuseReauthentication(p, password) PROVE IInv'
  <2>1. /\ task' = [task EXCEPT ![p] = Idle]
        /\ UNCHANGED <<account, adminTrusted, rows, issued, loggedOut, expired, proved, lock,
                       authTrusted>>
        /\ FailedAttempt(task[p].user)
        /\ task[p].user \in Bucket
    BY <1>2, <1>6, BucketsTyped DEF RefuseReauthentication, MayReauthenticate, accounts, tokens
  <2>2. /\ attempts' \in [Bucket -> 0..Limit]
        /\ guesses' \in [Bucket -> Nat]
        /\ attempts' = guesses'
    BY <2>1, FailedAttemptTyped
  <2> QED BY <1>1, <2>1, <2>2, EndTaskIInv
<1> QED BY <1>3, <1>4, <1>5, <1>6

LEMMA BeginPasswordChangeIInv ==
  ASSUME IInv, NEW p \in Proc, NEW password \in Password, BeginPasswordChange(p, password)
  PROVE  IInv'
<1> DEFINE old == task[p]
           change == [password |-> password, active |-> "keep"]
           new == [old EXCEPT !.at = "changing", !.seen = account[old.user], !.change = change]
<1>1. old \in Task /\ old.user \in User /\ lock = None
  BY DEF BeginPasswordChange, MayReauthenticate, IInv, TypeOK, TaskOK
<1>2. account[old.user] \in Account /\ change \in Change
  BY <1>1 DEF IInv, TypeOK, Change
<1>3. /\ new \in Task
      /\ new.at = "changing" /\ new.user = old.user /\ new.seen = account[old.user]
      /\ new.change = change
  BY <1>1, <1>2 DEF Task
<1>4. change.active = "keep"
  OBVIOUS
<1>5. /\ task' = [task EXCEPT ![p] = new]
      /\ lock' = p
      /\ ClearAttempts(old.user) /\ authTrusted' = authTrusted
      /\ UNCHANGED <<account, adminTrusted, rows, issued, loggedOut, expired, proved>>
  BY DEF BeginPasswordChange, accounts, tokens, ClearAttempts
<1>6. /\ attempts' \in [Bucket -> 0..Limit]
      /\ guesses' \in [Bucket -> Nat]
      /\ attempts' = guesses'
  BY <1>1, <1>5, ClearAttemptsTyped
<1> HIDE DEF new, change, old
<1>7. /\ task' \in [Proc -> Task]
      /\ task'[p] = new
      /\ \A q \in Proc \ {p} : task'[q] = task[q]
  BY <1>3, <1>5, SetTask DEF IInv
<1>8. TypeOK'
  BY <1>5, <1>6, <1>7 DEF IInv, TypeOK
<1>9. TaskOK(p)'
  BY <1>1, <1>3, <1>4, <1>5, <1>7 DEF TaskOK
<1>10. \A q \in Proc : TaskOK(q)'
  BY <1>1, <1>5, <1>7, <1>9, NoneNotProc, OtherTasksOK
<1> QED BY <1>5, <1>6, <1>8, <1>10, NoSessionChanges DEF IInv

LEMMA BeginChangeIInv ==
  ASSUME IInv, NEW p \in Proc, NEW u \in User, NEW change \in Change, BeginChange(p, u, change)
  PROVE  IInv'
<1> DEFINE new == [Idle EXCEPT !.at = "editing", !.user = u, !.seen = account[u],
                               !.change = change]
<1>1. account[u] \in Account
  BY DEF IInv, TypeOK
<1>2. /\ new \in Task
      /\ new.at = "editing" /\ new.user = u /\ new.change = change
  BY <1>1, IdleTyped DEF Idle, Task
<1>3. /\ task' = [task EXCEPT ![p] = new]
      /\ UNCHANGED <<account, adminTrusted, rows, issued, loggedOut, expired, proved, attempts,
                     guesses, authTrusted, lock>>
  BY DEF BeginChange, accounts, tokens, limits
<1> HIDE DEF new
<1>4. /\ task' \in [Proc -> Task]
      /\ task'[p] = new
      /\ \A q \in Proc \ {p} : task'[q] = task[q]
  BY <1>2, <1>3, SetTask DEF IInv
<1>5. TypeOK'
  BY <1>3, <1>4 DEF IInv, TypeOK
<1>6. TaskOK(p)'
  BY <1>2, <1>4 DEF TaskOK, BeginChange
<1>7. \A q \in Proc : TaskOK(q)'
  BY <1>3, <1>4, <1>6, OtherTasksOK
<1> QED BY <1>3, <1>5, <1>7, NoSessionChanges DEF IInv

\* A committed change touches one account, which gains an identity event.
LEMMA ChangeCommitted ==
  ASSUME IInv, NEW p \in Proc, CommitChange(p)
  PROVE  LET u == task[p].user IN
         /\ u \in User /\ task[p].change \in Change
         /\ account' \in [User -> Account]
         /\ account'[u] = Applied(account[u], task[p].change)
         /\ account'[u].revision = account[u].revision + 1
         /\ account[u].revision \in Nat
         /\ \A v \in User \ {u} : account'[v] = account[v]
<1> DEFINE u == task[p].user
<1>1. u \in User /\ task[p].change \in Change
  BY DEF CommitChange, IInv, TypeOK, TaskOK, Task
<1>2. account[u] \in Account /\ account[u].revision \in Nat
  BY <1>1 DEF IInv, TypeOK, Account
<1>3. /\ Applied(account[u], task[p].change) \in Account
      /\ Applied(account[u], task[p].change).revision = account[u].revision + 1
  BY <1>1, <1>2, AppliedTyped
<1>4. account' = [account EXCEPT ![u] = Applied(account[u], task[p].change)]
  BY DEF CommitChange
<1> HIDE DEF u
<1>5. /\ account' \in [User -> Account]
      /\ account'[u] = Applied(account[u], task[p].change)
      /\ \A v \in User \ {u} : account'[v] = account[v]
  BY <1>1, <1>3, <1>4 DEF IInv, TypeOK
<1> QED BY <1>1, <1>2, <1>3, <1>5 DEF u

LEMMA CommitChangeIInv ==
  ASSUME IInv, NEW p \in Proc, CommitChange(p)
  PROVE  IInv'
<1> DEFINE u == task[p].user
<1>1. /\ u \in User
      /\ account' \in [User -> Account]
      /\ account'[u].revision = account[u].revision + 1
      /\ account[u].revision \in Nat
      /\ \A v \in User \ {u} : account'[v] = account[v]
  BY ChangeCommitted
<1>2. /\ task' = [task EXCEPT ![p] = Idle]
      /\ lock \in {None, p} /\ lock' = None
      /\ UNCHANGED <<issued, loggedOut, expired, proved, attempts, guesses, authTrusted>>
      /\ rows' \in SUBSET Token
      /\ adminTrusted' \in BOOLEAN
  BY DEF CommitChange, limits, MayLose, IInv, TypeOK
<1> HIDE DEF u
<1>3. /\ task' \in [Proc -> Task]
      /\ task'[p] = Idle
      /\ \A q \in Proc \ {p} : task'[q] = task[q]
  BY <1>2, IdleTyped, SetTask DEF IInv
<1>4. TypeOK'
  BY <1>1, <1>2, <1>3 DEF IInv, TypeOK
<1>5. ASSUME NEW q \in Proc \ {p} PROVE TaskOK(q)'
  <2>1. TaskOK(q) /\ task'[q] = task[q] /\ task[q].seen.revision \in Nat
    BY <1>3 DEF IInv, TypeOK, Task, Account
  <2>2. task[q].at # "changing"
    BY <2>1, <1>2, NoneNotProc DEF TaskOK
  <2>3. ASSUME task[q].at = "verified" PROVE SeenBefore(task[q].seen, task[q].user)'
    <3>1. SeenBefore(task[q].seen, task[q].user) /\ task[q].user \in User
      BY <2>1, <2>3 DEF TaskOK
    <3>2. CASE task[q].user = u
      BY <1>1, <2>1, <3>1, <3>2 DEF SeenBefore
    <3>3. CASE task[q].user # u
      BY <1>1, <2>1, <3>1, <3>3 DEF SeenBefore
    <3> QED BY <3>2, <3>3
  <2> QED BY <2>1, <2>2, <2>3 DEF TaskOK
<1>6. \A q \in Proc : TaskOK(q)'
  BY <1>3, <1>5, IdleTaskOK
<1>7. ASSUME NEW t \in Token PROVE SessionOK(t)'
  <2>1. SessionOK(t) /\ issued'[t] = issued[t] /\ proved'[t] = proved[t]
        /\ issued[t] \in Session \cup {None}
    BY <1>2 DEF IInv, TypeOK
  <2> QED BY <1>1, <2>1 DEF SessionOK, Session
<1> QED BY <1>2, <1>4, <1>6, <1>7 DEF IInv

LEMMA EnvironmentIInv ==
  ASSUME IInv,
         \/ \E t \in Token : Expire(t) \/ PutBack(t)
         \/ \E b \in Bucket : Age(b)
         \/ LoseCheckpoint
         \/ UNCHANGED vars
  PROVE  IInv'
<1>1. /\ UNCHANGED <<account, issued, loggedOut, proved, authTrusted, lock, task>>
      /\ rows' \in SUBSET Token /\ expired' \in SUBSET Token
      /\ adminTrusted' \in BOOLEAN
  BY DEF IInv, TypeOK, Expire, PutBack, Age, LoseCheckpoint, vars, accounts, tokens, limits,
         control
<1>2. /\ attempts' \in [Bucket -> 0..Limit]
      /\ guesses' \in [Bucket -> Nat]
      /\ attempts' = guesses'
  <2>1. /\ attempts \in [Bucket -> 0..Limit]
        /\ guesses \in [Bucket -> Nat]
        /\ attempts = guesses
    BY DEF IInv, TypeOK
  <2>2. ASSUME NEW b \in Bucket, Age(b)
        PROVE  /\ attempts' \in [Bucket -> 0..Limit]
               /\ guesses' \in [Bucket -> Nat]
               /\ attempts' = guesses'
    BY <2>1, <2>2, LimitAssumption DEF Age
  <2>3. (\E b \in Bucket : Age(b)) \/ UNCHANGED <<attempts, guesses>>
    BY DEF Expire, PutBack, LoseCheckpoint, vars, limits
  <2> QED BY <2>1, <2>2, <2>3
<1>3. TypeOK'
  BY <1>1, <1>2 DEF IInv, TypeOK
<1> QED BY <1>1, <1>2, <1>3, NoTaskChanges, NoSessionChanges DEF IInv

LEMMA NextIInv == IInv /\ [Next]_vars => IInv'
  BY AddUserIInv, RefuseLoginIInv, VerifyLoginIInv, OpenSessionIInv, AdmitIInv, EndingSteps,
     BeginPasswordChangeIInv, BeginChangeIInv, CommitChangeIInv, EnvironmentIInv
  DEF Next

\* The inductive invariant behind every theorem below.
THEOREM IdentityInvariant == Spec => []IInv
  BY InitIInv, NextIInv, PTL DEF Spec

\* Every reachable state is well typed; in particular no bucket is ever over its limit.
THEOREM TypeCorrect == Spec => []TypeOK
<1>1. IInv => TypeOK
  BY DEF IInv
<1> QED BY <1>1, IdentityInvariant, PTL

\* Whoever a session is accepted for knew the password in force now (login, session).
THEOREM PasswordInForce == Spec => []OpenedWithPasswordInForce
<1>1. IInv => OpenedWithPasswordInForce
  BY DEF IInv, SessionOK, Accepts, OpenedWithPasswordInForce
<1> QED BY <1>1, IdentityInvariant, PTL

\* change_password replaces the very password that it has checked.
THEOREM SerializedSelfService == Spec => []SelfServiceIsSerialized
<1>1. IInv => SelfServiceIsSerialized
  BY DEF IInv, TaskOK, SelfServiceIsSerialized
<1> QED BY <1>1, IdentityInvariant, PTL

\* No bucket is told more than Limit times within its window that a password is wrong.
THEOREM BoundedGuesses == Spec => []GuessesAreBounded
<1>1. IInv => GuessesAreBounded
  BY LimitAssumption DEF IInv, TypeOK, GuessesAreBounded
<1> QED BY <1>1, IdentityInvariant, PTL

-----------------------------------------------------------------------------
\* What only ever grows: the history of an account, of a session, and time.
Onward ==
  /\ \A u \in User : account[u].revision <= account'[u].revision
  /\ loggedOut \subseteq loggedOut'
  /\ expired \subseteq expired'
  /\ \A t \in Token : issued[t] # None => issued'[t] = issued[t]

\* The changes of accounts: a new one, a committed change, or none.
LEMMA AccountSteps ==
  ASSUME [Next]_vars
  PROVE  \/ \E u \in User, password \in Password : AddUser(u, password)
         \/ \E p \in Proc : CommitChange(p)
         \/ UNCHANGED account
  BY DEF Next, vars, accounts, RefuseLogin, VerifyLogin, OpenSession, Admit,
         RefuseReauthentication, BeginPasswordChange, BeginChange, Logout, Reauthenticate, Leave,
         Expire, PutBack, Age, LoseCheckpoint

LEMMA NextOnward ==
  ASSUME IInv, [Next]_vars
  PROVE  Onward
<1>1. \A u \in User : account[u] \in Account /\ account[u].revision \in Nat
  BY DEF IInv, TypeOK, Account
<1>2. \A u \in User : account[u].revision <= account'[u].revision
  <2>1. ASSUME NEW u \in User, NEW password \in Password, AddUser(u, password)
        PROVE  \A v \in User : account[v].revision <= account'[v].revision
    <3>1. account[u].revision = 0
      BY <1>1, <2>1 DEF AddUser, Exists
    <3>2. /\ account'[u].revision = 1
          /\ \A v \in User \ {u} : account'[v] = account[v]
      BY <2>1 DEF AddUser, IInv, TypeOK
    <3> QED BY <1>1, <3>1, <3>2
  <2>2. ASSUME NEW p \in Proc, CommitChange(p)
        PROVE  \A v \in User : account[v].revision <= account'[v].revision
    BY <1>1, <2>2, ChangeCommitted
  <2>3. CASE UNCHANGED account
    BY <1>1, <2>3
  <2> QED BY <2>1, <2>2, <2>3, AccountSteps
<1>3. /\ loggedOut \subseteq loggedOut'
      /\ expired \subseteq expired'
      /\ \A t \in Token : issued[t] # None => issued'[t] = issued[t]
  <2>1. ASSUME NEW p \in Proc, NEW t \in Token, OpenSession(p, t)
        PROVE  /\ UNCHANGED <<loggedOut, expired>>
               /\ \A s \in Token : issued[s] # None => issued'[s] = issued[s]
    BY <2>1 DEF OpenSession, IInv, TypeOK
  <2>2. \/ \E p \in Proc, t \in Token : OpenSession(p, t)
        \/ loggedOut \subseteq loggedOut' /\ expired \subseteq expired' /\ UNCHANGED issued
    BY DEF Next, vars, tokens, AddUser, CommitChange, RefuseLogin, VerifyLogin, Admit,
           RefuseReauthentication, BeginPasswordChange, BeginChange, Logout, Reauthenticate,
           Leave, Expire, PutBack, Age, LoseCheckpoint
  <2> QED BY <2>1, <2>2
<1> QED BY <1>2, <1>3 DEF Onward

\* A session that has ended is never accepted again, whatever rows are put back.
THEOREM EndedSessionsStayEnded == Spec => SessionEndsForGood
<1>1. ASSUME IInv, IInv', [Next]_vars, NEW t \in Token, Ended(t)
      PROVE  ~Accepts(t) /\ ~Accepts(t)'
  <2>1. Onward /\ issued'[t] = issued[t] /\ issued[t] # None
    BY <1>1, NextOnward DEF Onward, Ended
  <2>2. /\ issued[t].user \in User /\ issued[t].revision \in Nat
        /\ account[issued[t].user].revision \in Nat
        /\ account'[issued[t].user].revision \in Nat
    BY <1>1, <2>1 DEF IInv, TypeOK, Session, Account
  <2>3. Ended(t)'
    BY <1>1, <2>1, <2>2 DEF Ended, Onward
  <2> QED BY <1>1, <2>1, <2>2, <2>3 DEF Ended, Accepts
<1>2. IInv /\ IInv' /\ [Next]_vars =>
        [\A t \in Token : Ended(t) => ~Accepts(t) /\ ~Accepts(t)']_vars
  BY <1>1
<1> QED BY <1>2, IdentityInvariant, PTL DEF Spec, SessionEndsForGood

\* A new password leaves the account as enabled or disabled as it is by then.
THEOREM ResetLeavesActivation == Spec => ResetDoesNotEnable
<1>1. ASSUME IInv, [Next]_vars, NEW u \in User,
             account[u].revision > 0, account'[u].password # account[u].password
      PROVE  account'[u].active = account[u].active
  <2>1. ASSUME NEW v \in User, NEW password \in Password, AddUser(v, password)
        PROVE  account'[u] = account[u]
    BY <1>1, <2>1 DEF AddUser, Exists, IInv, TypeOK, Account
  <2>2. ASSUME NEW p \in Proc, CommitChange(p)
        PROVE  account'[u].active = account[u].active
    <3> DEFINE w == task[p].user
    <3>1. /\ w \in User /\ task[p].change \in Change
          /\ account'[w] = Applied(account[w], task[p].change)
          /\ \A v \in User \ {w} : account'[v] = account[v]
      BY <1>1, <2>2, ChangeCommitted
    <3>2. u = w
      BY <1>1, <3>1
    <3>3. account[w] \in Account
      BY <1>1, <3>1 DEF IInv, TypeOK
    <3>4. task[p].change.password = None \/ task[p].change.active = "keep"
      BY <1>1 DEF IInv, TaskOK
    <3> HIDE DEF w
    <3> QED BY <1>1, <3>1, <3>2, <3>3, <3>4, AppliedTyped
  <2> QED BY <1>1, <2>1, <2>2, AccountSteps
<1>2. IInv /\ [Next]_vars =>
        [\A u \in User :
           /\ account[u].revision > 0
           /\ account'[u].password # account[u].password
           => account'[u].active = account[u].active]_vars
  BY <1>1
<1> QED BY <1>2, IdentityInvariant, PTL DEF Spec, ResetDoesNotEnable
=============================================================================
