-------------------------- MODULE InstallationProofs --------------------------
(***************************************************************************)
(* Proofs about Installation, for every set of humans and decisions and    *)
(* any number of account changes and lost checkpoints.                     *)
(***************************************************************************)
EXTENDS Installation, TLAPS

\* What the database of a site says of sessions and reviews.
Holds(data, x) == x \in data.sessions \/ \E d \in Decision : x \in data.reviews[d]

\* No session or review is newer than the account of its human...
Past(data) ==
  \A x \in Session : Holds(data, x) => x.revision <= data.revision[x.human]

\* ... those of some humans are older, ...
Stale(data, humans) ==
  \A x \in Session : Holds(data, x) /\ x.human \in humans => x.revision < data.revision[x.human]

\* ... and so are those that come from elsewhere.
Native(data, s) ==
  \A x \in Session : Holds(data, x) /\ x.at # s => x.revision < data.revision[x.human]

\* dispatch.lock: who executes has a RUNNING row, and nobody recovers meanwhile.
Work ==
  \A s \in Site :
    /\ executing[s] # None =>
         Online(s) /\ listed[s] = None /\ db[s].execution[executing[s]] = "RUNNING"
    /\ listed[s] # None => Online(s)

\* A backup holds both locks at a site whose ledgers match their checkpoints.
BackupUnderWay ==
  /\ Online("live")
  /\ backup.moved = {}
  /\ backup.place # "idle" =>
       executing["live"] = None /\ listed["live"] = None /\ db["live"].broken = {}
  /\ backup.place \in {"copied", "written"} => backup.data = db["live"]

\* What the archive shows RUNNING is not executed at the live site any more.
Abandoned ==
  archive # None =>
    \A d \in Decision : archive.execution[d] = "RUNNING" => executing["live"] # d

Dates ==
  /\ \A s \in Site : Online(s) => Past(db[s]) /\ Native(db[s], s)
  /\ archive # None => Past(archive)
  /\ restore # None => Past(restore.data) /\ Stale(restore.data, restore.reset)

IInv ==
  /\ TypeOK
  /\ Work
  /\ BackupUnderWay
  /\ Abandoned
  /\ BackupIsConsistent
  /\ Dates
  /\ NothingIsRevived
  /\ RecoveryMissesNothing

-----------------------------------------------------------------------------
LEMMA AfterIs ==
  ASSUME NEW l \in Ledger, NEW data \in Database, NEW after \in After(l, data)
  PROVE  /\ after \in Database
         /\ after.revision = data.revision
         /\ after.sessions = data.sessions
         /\ after.reviews = data.reviews
         /\ after.execution = data.execution
<1>1. after = data \/ after = [data EXCEPT !.broken = @ \cup {l}]
  BY DEF After
<1> QED BY <1>1 DEF Database

\* A transaction changes the data of its own site only, and no backup.
LEMMA CommitIs ==
  ASSUME TypeOK, NEW s \in Site, NEW l \in Ledger, NEW data \in Database, Commit(s, l, data)
  PROVE  /\ Unlocked(s)
         /\ backup' = backup
         /\ db' \in [Site -> Database \cup {None}]
         /\ \A t \in Site : t # s => db'[t] = db[t]
         /\ db'[s] \in Database
         /\ db'[s] # None
         /\ db'[s].revision = data.revision
         /\ db'[s].sessions = data.sessions
         /\ db'[s].reviews = data.reviews
         /\ db'[s].execution = data.execution
<1>1. PICK after \in After(l, data) : db' = [db EXCEPT ![s] = after]
  BY DEF Commit
<1>2. db'[s] = after
  BY <1>1 DEF TypeOK
<1>3. after \in Database /\ after # None
  BY AfterIs, NoneAssumption
<1>4. Unlocked(s) /\ backup' = backup
  BY DEF Commit, Unlocked
<1> QED BY <1>1, <1>2, <1>3, <1>4, AfterIs DEF TypeOK

\* Sessions, reviews and accounts decide the dates.
LEMMA SameDates ==
  ASSUME NEW old, NEW new, NEW s, NEW humans,
         new.revision = old.revision, new.sessions = old.sessions, new.reviews = old.reviews
  PROVE  /\ Past(old) => Past(new)
         /\ Stale(old, humans) => Stale(new, humans)
         /\ Native(old, s) => Native(new, s)
  BY DEF Past, Stale, Native, Holds

\* Under the identity events of now, nothing is from elsewhere.
LEMMA NativeIs ==
  ASSUME NEW data \in Database, NEW s, Native(data, s), NEW x \in Session,
         Holds(data, x), x.revision = data.revision[x.human]
  PROVE  x.at = s
<1>1. x.revision \in Nat
  BY MaxRevisionAssumption DEF Session
<1> QED BY <1>1 DEF Native

LEMMA NativeSessions ==
  ASSUME NEW data \in Database, NEW s, Native(data, s)
  PROVE  \A x \in data.sessions : x.revision = data.revision[x.human] => x.at = s
<1>1. \A x \in data.sessions : x \in Session /\ Holds(data, x)
  BY DEF Database, Holds
<1> QED BY <1>1, NativeIs

LEMMA LoginDates ==
  ASSUME NEW old \in Database, NEW new, NEW s \in Site, NEW h \in Human, Past(old), Native(old, s),
         new = [old EXCEPT !.sessions =
                  @ \cup {[human |-> h, revision |-> old.revision[h], at |-> s]}]
  PROVE  new \in Database /\ Past(new) /\ Native(new, s)
<1> DEFINE r == [human |-> h, revision |-> old.revision[h], at |-> s]
<1>1. r \in Session /\ r.human = h /\ r.revision = old.revision[h] /\ r.at = s
  BY DEF Session, Database
<1>2. /\ new \in Database
      /\ new.revision = old.revision
      /\ new.sessions = old.sessions \cup {r}
      /\ new.reviews = old.reviews
  BY <1>1 DEF Database
<1>3. \A x \in Session : Holds(new, x) => Holds(old, x) \/ x = r
  BY <1>2 DEF Holds
<1>4. old.revision[h] <= old.revision[h]
  BY MaxRevisionAssumption DEF Database
<1> QED BY <1>1, <1>2, <1>3, <1>4 DEF Past, Native

LEMMA ReviewDates ==
  ASSUME NEW old \in Database, NEW new, NEW s \in Site, NEW h \in Human, NEW d \in Decision,
         Past(old), Native(old, s),
         new = [old EXCEPT !.reviews[d] =
                  @ \cup {[human |-> h, revision |-> old.revision[h], at |-> s]}]
  PROVE  new \in Database /\ Past(new) /\ Native(new, s)
<1> DEFINE r == [human |-> h, revision |-> old.revision[h], at |-> s]
<1>1. r \in Session /\ r.human = h /\ r.revision = old.revision[h] /\ r.at = s
  BY DEF Session, Database
<1>2. /\ new \in Database
      /\ new.revision = old.revision
      /\ new.sessions = old.sessions
      /\ new.reviews = [old.reviews EXCEPT ![d] = @ \cup {r}]
  BY <1>1 DEF Database
<1>3. \A e \in Decision : new.reviews[e] = IF e = d THEN old.reviews[d] \cup {r} ELSE old.reviews[e]
  BY <1>2 DEF Database
<1>4. \A x \in Session : Holds(new, x) => Holds(old, x) \/ x = r
  BY <1>2, <1>3 DEF Holds
<1>5. old.revision[h] <= old.revision[h]
  BY MaxRevisionAssumption DEF Database
<1> QED BY <1>1, <1>2, <1>4, <1>5 DEF Past, Native

\* A changed account leaves all reviews of its human behind, and has no sessions.
LEMMA ChangedDates ==
  ASSUME NEW old \in Database, NEW h \in Human, old.revision[h] < MaxRevision, Past(old)
  PROVE  /\ Changed(old, h) \in Database
         /\ Changed(old, h).execution = old.execution
         /\ Past(Changed(old, h))
         /\ \A humans : Stale(old, humans) => Stale(Changed(old, h), humans \cup {h})
         /\ \A s : Native(old, s) => Native(Changed(old, h), s)
<1> DEFINE new == Changed(old, h)
<1>1. /\ new \in Database
      /\ new.revision = [old.revision EXCEPT ![h] = @ + 1]
      /\ new.sessions = {x \in old.sessions : x.human # h}
      /\ new.reviews = old.reviews
      /\ new.execution = old.execution
  <2> DEFINE revision == [old.revision EXCEPT ![h] = @ + 1]
             mid == [old EXCEPT !.revision = revision]
             sessions == {x \in old.sessions : x.human # h}
  <2>1. revision \in [Human -> 0..MaxRevision]
    BY MaxRevisionAssumption DEF Database
  <2>2. sessions \in SUBSET Session
    BY DEF Database
  <2>3. new = [mid EXCEPT !.sessions = sessions]
    BY DEF Changed
  <2> HIDE DEF revision, sessions, new
  <2>4. /\ mid \in Database
        /\ mid.revision = revision
        /\ mid.reviews = old.reviews
        /\ mid.execution = old.execution
    BY <2>1 DEF Database
  <2> HIDE DEF mid
  <2>5. /\ new \in Database
        /\ new.revision = mid.revision
        /\ new.sessions = sessions
        /\ new.reviews = mid.reviews
        /\ new.execution = mid.execution
    BY <2>2, <2>3, <2>4 DEF Database
  <2> QED BY <2>4, <2>5 DEF revision, sessions
<1>2. \A x \in Session : Holds(new, x) => Holds(old, x)
  BY <1>1 DEF Holds
<1>3. \A g \in Human : /\ old.revision[g] \in Nat
                       /\ new.revision[g] = IF g = h THEN old.revision[h] + 1 ELSE old.revision[g]
  BY <1>1, MaxRevisionAssumption DEF Database
<1>4. \A x \in Session : x.human \in Human /\ x.revision \in Nat
  BY MaxRevisionAssumption DEF Session
<1> HIDE DEF new
<1>5. Past(new)
  BY <1>2, <1>3, <1>4 DEF Past
<1>6. ASSUME NEW humans, Stale(old, humans) PROVE Stale(new, humans \cup {h})
  BY <1>2, <1>3, <1>4, <1>6 DEF Stale, Past
<1>7. ASSUME NEW s, Native(old, s) PROVE Native(new, s)
  BY <1>2, <1>3, <1>4, <1>7 DEF Native
<1> QED BY <1>1, <1>5, <1>6, <1>7 DEF new

-----------------------------------------------------------------------------
\* What the transactions of a site have in common.
SiteStep(s) ==
  /\ Online(s)
  /\ Unlocked(s)
  /\ db' \in [Site -> Database \cup {None}]
  /\ db'[s] \in Database
  /\ db'[s] # None
  /\ \A t \in Site : t # s => db'[t] = db[t]
  /\ Past(db'[s])
  /\ Native(db'[s], s)
  /\ UNCHANGED <<backup, archive, restore>>

LEMMA OnlineData ==
  ASSUME TypeOK, Dates, NEW s \in Site, Online(s)
  PROVE  db[s] \in Database /\ Past(db[s]) /\ Native(db[s], s)
  BY DEF TypeOK, Dates, Online

LEMMA LoginStep ==
  ASSUME TypeOK, Dates, NEW s \in Site, NEW h \in Human, Login(s, h)
  PROVE  SiteStep(s) /\ db'[s].execution = db[s].execution
<1> DEFINE new == [db[s] EXCEPT !.sessions =
                     @ \cup {[human |-> h, revision |-> db[s].revision[h], at |-> s]}]
<1>1. Online(s) /\ Commit(s, "admin", new) /\ UNCHANGED <<archive, restore>>
  BY DEF Login
<1>2. db[s] \in Database /\ Past(db[s]) /\ Native(db[s], s)
  BY <1>1, OnlineData
<1>3. new \in Database /\ Past(new) /\ Native(new, s)
  BY <1>2, LoginDates
<1>4. new.execution = db[s].execution
  BY <1>2 DEF Database
<1> HIDE DEF new
<1>5. "admin" \in Ledger
  BY DEF Ledger
<1> QED BY <1>1, <1>3, <1>4, <1>5, CommitIs, SameDates DEF SiteStep

LEMMA ChangeUserStep ==
  ASSUME TypeOK, Dates, NEW s \in Site, NEW h \in Human, ChangeUser(s, h)
  PROVE  SiteStep(s) /\ db'[s].execution = db[s].execution
<1> DEFINE new == Changed(db[s], h)
<1>1. /\ Online(s)
      /\ db[s].revision[h] < MaxRevision
      /\ Commit(s, "admin", new)
      /\ UNCHANGED <<archive, restore>>
  BY DEF ChangeUser
<1>2. db[s] \in Database /\ Past(db[s]) /\ Native(db[s], s)
  BY <1>1, OnlineData
<1>3. /\ new \in Database
      /\ new.execution = db[s].execution
      /\ Past(new)
      /\ Native(new, s)
  BY <1>1, <1>2, ChangedDates
<1> HIDE DEF new
<1>4. "admin" \in Ledger
  BY DEF Ledger
<1> QED BY <1>1, <1>3, <1>4, CommitIs, SameDates DEF SiteStep

LEMMA ReviewStep ==
  ASSUME TypeOK, Dates, NEW s \in Site, NEW d \in Decision, NEW h \in Human, Review(s, d, h)
  PROVE  SiteStep(s) /\ db'[s].execution = db[s].execution
<1> DEFINE new == [db[s] EXCEPT !.reviews[d] =
                     @ \cup {[human |-> h, revision |-> db[s].revision[h], at |-> s]}]
<1>1. Online(s) /\ Commit(s, d, new) /\ UNCHANGED <<archive, restore>>
  BY DEF Review
<1>2. db[s] \in Database /\ Past(db[s]) /\ Native(db[s], s)
  BY <1>1, OnlineData
<1>3. new \in Database /\ Past(new) /\ Native(new, s)
  BY <1>2, ReviewDates
<1>4. new.execution = db[s].execution
  BY <1>2 DEF Database
<1> HIDE DEF new
<1>5. d \in Ledger
  BY DEF Ledger
<1> QED BY <1>1, <1>3, <1>4, <1>5, CommitIs, SameDates DEF SiteStep

\* An execution begins, ends or is marked: only its state changes.
Recorded(data, d, state) == [data EXCEPT !.execution[d] = state]

LEMMA ExecutionStep ==
  ASSUME TypeOK, Dates, NEW s \in Site, NEW d \in Decision,
         NEW state \in {"NONE", "RUNNING"} \cup Ended,
         Online(s),
         Commit(s, d, Recorded(db[s], d, state)),
         archive' = archive, restore' = restore
  PROVE  SiteStep(s) /\ db'[s].execution = [db[s].execution EXCEPT ![d] = state]
<1> DEFINE execution == [db[s].execution EXCEPT ![d] = state]
           new == [db[s] EXCEPT !.execution = execution]
<1>1. Commit(s, d, new)
  BY DEF Recorded
<1>2. db[s] \in Database /\ Past(db[s]) /\ Native(db[s], s)
  BY OnlineData
<1>3. execution \in [Decision -> {"NONE", "RUNNING"} \cup Ended]
  BY <1>2 DEF Database
<1> HIDE DEF execution
<1>4. /\ new \in Database
      /\ new.revision = db[s].revision
      /\ new.sessions = db[s].sessions
      /\ new.reviews = db[s].reviews
      /\ new.execution = execution
  BY <1>2, <1>3 DEF Database
<1> HIDE DEF new
<1>5. Past(new) /\ Native(new, s)
  BY <1>2, <1>4, SameDates
<1>6. d \in Ledger
  BY DEF Ledger
<1>7. SiteStep(s) /\ db'[s].execution = execution
  BY <1>1, <1>4, <1>5, <1>6, CommitIs, SameDates DEF SiteStep
<1> QED BY <1>7 DEF execution

-----------------------------------------------------------------------------
LEMMA InitInv == Init => IInv
<1> SUFFICES ASSUME Init PROVE IInv
  OBVIOUS
<1> DEFINE data == [revision |-> [h \in Human |-> 0], sessions |-> {},
                    reviews |-> [d \in Decision |-> {}],
                    execution |-> [d \in Decision |-> "NONE"], broken |-> {}]
<1>1. data \in Database /\ data # None /\ Past(data) /\ Native(data, "live")
  BY NoneAssumption, MaxRevisionAssumption DEF Database, Past, Native, Holds
<1>2. db["live"] = data /\ db["copy"] = None
  BY DEF Init, Site
<1> HIDE DEF data
<1>3. TypeOK
  BY <1>1, <1>2 DEF Init, TypeOK, NoBackup, Site
<1>4. Work /\ Abandoned /\ BackupIsConsistent /\ NothingIsRevived /\ RecoveryMissesNothing
  BY <1>2 DEF Init, Work, Abandoned, BackupIsConsistent, NothingIsRevived,
              RecoveryMissesNothing, Online
<1>5. BackupUnderWay
  BY <1>1, <1>2 DEF Init, BackupUnderWay, NoBackup, Online
<1>6. Dates
  BY <1>1, <1>2 DEF Init, Dates, Online, Site
<1> QED BY <1>3, <1>4, <1>5, <1>6 DEF IInv

\* A login, a changed account, a review: no execution is touched.
LEMMA QuietStep ==
  ASSUME IInv, NEW s \in Site, SiteStep(s), db'[s].execution = db[s].execution,
         UNCHANGED <<executing, listed, spent>>
  PROVE  IInv'
<1> USE DEF IInv, SiteStep
<1>1. TypeOK'
  BY DEF TypeOK
<1>2. \A t \in Site : Online(t)' <=> Online(t)
  BY DEF Online
<1>3. Work'
  BY <1>2 DEF Work
<1>4. BackupUnderWay'
  BY <1>2 DEF BackupUnderWay, Unlocked, Site
<1>5. Abandoned'
  BY DEF Abandoned
<1>6. BackupIsConsistent'
  BY DEF BackupIsConsistent, Inspected, Site
<1>7. Dates'
  BY <1>2 DEF Dates
<1>8. NothingIsRevived'
  <2>1. CASE s = "copy"
    BY <2>1, NativeSessions DEF NothingIsRevived
  <2>2. CASE s # "copy"
    BY <2>2, <1>2 DEF NothingIsRevived, Site
  <2> QED BY <2>1, <2>2
<1>9. RecoveryMissesNothing'
  BY DEF RecoveryMissesNothing, Running
<1> QED BY <1>1, <1>3, <1>4, <1>5, <1>6, <1>7, <1>8, <1>9

\* Who may begin, and on which reviews.
LEMMA BeginStep ==
  ASSUME IInv, NEW s \in Site, NEW d \in Decision, Begin(s, d)
  PROVE  IInv'
<1>1. /\ Online(s)
      /\ executing[s] = None
      /\ listed[s] = None
      /\ db[s].execution[d] = "NONE"
      /\ \A x \in db[s].reviews[d] : x.revision = db[s].revision[x.human]
      /\ Commit(s, d, Recorded(db[s], d, "RUNNING"))
      /\ executing' = executing \/ executing' = [executing EXCEPT ![s] = d]
      /\ spent' = spent \cup {[at |-> s, decision |-> d, reviews |-> db[s].reviews[d]]}
      /\ UNCHANGED <<listed, archive, restore>>
  BY DEF Begin, DispatchFree, Approved, Recorded, IInv, TypeOK
<1>2. SiteStep(s) /\ db'[s].execution = [db[s].execution EXCEPT ![d] = "RUNNING"]
  <2>1. "RUNNING" \in {"NONE", "RUNNING"} \cup Ended /\ TypeOK /\ Dates
    BY DEF IInv
  <2> QED BY <1>1, <2>1, ExecutionStep
<1>3. db[s] \in Database /\ Native(db[s], s)
  BY <1>1, OnlineData DEF IInv
<1>4. \A e \in Decision : db'[s].execution[e] = IF e = d THEN "RUNNING" ELSE db[s].execution[e]
  BY <1>2, <1>3 DEF Database
<1>5. \A t \in Site : Online(t)' <=> Online(t)
  BY <1>1, <1>2 DEF Online, SiteStep
<1>6. \A t \in Site : executing'[t] = executing[t] \/ (t = s /\ executing'[t] = d)
  BY <1>1 DEF IInv, TypeOK
<1> USE DEF IInv, SiteStep
<1>7. TypeOK'
  <2>1. db[s].reviews[d] \subseteq Session
    BY <1>3 DEF Database
  <2> QED BY <1>1, <1>2, <2>1 DEF TypeOK
<1>8. Work'
  <2> SUFFICES ASSUME NEW t \in Site
               PROVE  /\ executing'[t] # None =>
                           /\ Online(t)'
                           /\ listed'[t] = None
                           /\ db'[t].execution[executing'[t]] = "RUNNING"
                      /\ listed'[t] # None => Online(t)'
    BY DEF Work
  <2>1. CASE t = s
    BY <2>1, <1>1, <1>4, <1>5, <1>6 DEF Work
  <2>2. CASE t # s
    BY <2>2, <1>1, <1>2, <1>5, <1>6 DEF Work
  <2> QED BY <2>1, <2>2
<1>9. BackupUnderWay'
  BY <1>1, <1>2, <1>5, <1>6 DEF BackupUnderWay, Unlocked, Site
<1>10. archive # None /\ s = "live" =>
         \A e \in Decision : archive.execution[e] = "RUNNING" => e # d
  BY <1>1 DEF BackupIsConsistent
<1>11. Abandoned'
  BY <1>1, <1>6, <1>10 DEF Abandoned, Site
<1>12. BackupIsConsistent'
  <2>1. CASE s = "live"
    BY <2>1, <1>1, <1>4 DEF BackupIsConsistent, Inspected, Ended
  <2>2. CASE s # "live"
    BY <2>2, <1>1, <1>2 DEF BackupIsConsistent, Inspected, Site
  <2> QED BY <2>1, <2>2
<1>13. Dates'
  BY <1>1, <1>2, <1>5 DEF Dates
<1>14. NothingIsRevived'
  <2>1. \A x \in db[s].reviews[d] : x.at = s
    <3>1. \A x \in db[s].reviews[d] : x \in Session /\ Holds(db[s], x)
      BY <1>3 DEF Database, Holds
    <3> QED BY <3>1, <1>1, <1>3, NativeIs
  <2>2. \A x \in spent' : \A r \in x.reviews : r.at = x.at
    BY <1>1, <2>1 DEF NothingIsRevived
  <2>3. CASE s = "copy"
    BY <2>2, <2>3, <1>2, NativeSessions DEF NothingIsRevived
  <2>4. CASE s # "copy"
    BY <2>2, <2>4, <1>2, <1>5 DEF NothingIsRevived, Site
  <2> QED BY <2>3, <2>4
<1>15. RecoveryMissesNothing'
  BY <1>1, <1>2 DEF RecoveryMissesNothing, Running
<1> QED BY <1>7, <1>8, <1>9, <1>11, <1>12, <1>13, <1>14, <1>15

\* An execution ends, or a recovery has looked at it.
LEMMA EndStep ==
  ASSUME IInv, NEW s \in Site, NEW d \in Decision, NEW state \in {"NONE", "RUNNING"} \cup Ended,
         Online(s),
         Commit(s, d, Recorded(db[s], d, state)),
         state # "RUNNING",
         db[s].execution[d] \in {"RUNNING", state},
         s = "live" /\ archive # None /\ archive.execution[d] = "RUNNING"
           /\ db[s].execution[d] = "RUNNING" => state = "OUTCOME_UNKNOWN",
         executing' = [executing EXCEPT ![s] = None],
         listed' \in [Site -> (SUBSET Decision) \cup {None}],
         \A t \in Site : t # s => listed'[t] = listed[t],
         listed'[s] # None => listed[s] # None /\ listed[s] \ {d} \subseteq listed'[s],
         archive' = archive, restore' = restore, spent' = spent
  PROVE  IInv'
<1>1. SiteStep(s) /\ db'[s].execution = [db[s].execution EXCEPT ![d] = state]
  <2>1. TypeOK /\ Dates
    BY DEF IInv
  <2> QED BY <2>1, ExecutionStep
<1>2. db[s] \in Database
  BY OnlineData DEF IInv
<1>3. \A e \in Decision : db'[s].execution[e] = IF e = d THEN state ELSE db[s].execution[e]
  BY <1>1, <1>2 DEF Database
<1>4. \A t \in Site : Online(t)' <=> Online(t)
  BY <1>1 DEF Online, SiteStep
<1>5. \A t \in Site : executing'[t] = IF t = s THEN None ELSE executing[t]
  BY DEF IInv, TypeOK
<1> USE DEF IInv, SiteStep
<1>6. TypeOK'
  BY <1>1 DEF TypeOK
<1>7. Work'
  <2> SUFFICES ASSUME NEW t \in Site
               PROVE  /\ executing'[t] # None =>
                           /\ Online(t)'
                           /\ listed'[t] = None
                           /\ db'[t].execution[executing'[t]] = "RUNNING"
                      /\ listed'[t] # None => Online(t)'
    BY DEF Work
  <2>1. CASE t = s
    BY <2>1, <1>4, <1>5 DEF Work
  <2>2. CASE t # s
    BY <2>2, <1>1, <1>4, <1>5 DEF Work
  <2> QED BY <2>1, <2>2
<1>8. BackupUnderWay'
  BY <1>1, <1>4, <1>5 DEF BackupUnderWay, Unlocked, Site
<1>9. Abandoned'
  BY <1>5, NoneAssumption DEF Abandoned, Site
<1>10. BackupIsConsistent'
  <2>1. CASE s = "live"
    BY <2>1, <1>3 DEF BackupIsConsistent, Inspected, Ended
  <2>2. CASE s # "live"
    BY <2>2, <1>1 DEF BackupIsConsistent, Inspected, Site
  <2> QED BY <2>1, <2>2
<1>11. Dates'
  BY <1>1, <1>4 DEF Dates
<1>12. NothingIsRevived'
  <2>1. CASE s = "copy"
    BY <2>1, <1>1, NativeSessions DEF NothingIsRevived
  <2>2. CASE s # "copy"
    BY <2>2, <1>1, <1>4 DEF NothingIsRevived, Site
  <2> QED BY <2>1, <2>2
<1>13. RecoveryMissesNothing'
  <2> SUFFICES ASSUME NEW t \in Site, listed'[t] # None, NEW e \in Decision,
                      db'[t].execution[e] = "RUNNING"
               PROVE  e \in listed'[t]
    BY DEF RecoveryMissesNothing, Running
  <2>1. CASE t = s
    BY <2>1, <1>3 DEF RecoveryMissesNothing, Running
  <2>2. CASE t # s
    BY <2>2, <1>1 DEF RecoveryMissesNothing, Running
  <2> QED BY <2>1, <2>2
<1> QED BY <1>6, <1>7, <1>8, <1>9, <1>10, <1>11, <1>12, <1>13

LEMMA FinishStep ==
  ASSUME IInv, NEW s \in Site, NEW d \in Decision, NEW outcome \in Ended, Finish(s, d, outcome)
  PROVE  IInv'
<1>1. /\ executing[s] = d
      /\ Commit(s, d, Recorded(db[s], d, outcome))
      /\ executing' = [executing EXCEPT ![s] = None]
      /\ listed' = listed /\ archive' = archive /\ restore' = restore /\ spent' = spent
  BY DEF Finish, Recorded
<1>2. Online(s) /\ listed[s] = None /\ db[s].execution[d] = "RUNNING"
  BY <1>1, NoneAssumption DEF IInv, Work
<1>3. ~(s = "live" /\ archive # None /\ archive.execution[d] = "RUNNING")
  BY <1>1 DEF IInv, Abandoned
<1>4. outcome \in {"NONE", "RUNNING"} \cup Ended /\ outcome # "RUNNING"
  BY DEF Ended
<1>5. listed' \in [Site -> (SUBSET Decision) \cup {None}]
  BY <1>1 DEF IInv, TypeOK
<1> QED BY <1>1, <1>2, <1>3, <1>4, <1>5, EndStep

LEMMA MarkStep ==
  ASSUME IInv, NEW s \in Site, NEW d \in Decision, MarkUnknown(s, d)
  PROVE  IInv'
<1> DEFINE state == IF db[s].execution[d] = "RUNNING" THEN "OUTCOME_UNKNOWN"
                    ELSE db[s].execution[d]
<1>1. /\ listed[s] # None
      /\ Commit(s, d, Recorded(db[s], d, state))
      /\ listed' = [listed EXCEPT ![s] = None] \/ listed' = [listed EXCEPT ![s] = @ \ {d}]
      /\ executing' = executing /\ archive' = archive /\ restore' = restore /\ spent' = spent
  BY DEF MarkUnknown, Recorded, IInv, TypeOK
<1>2. Online(s) /\ executing[s] = None
  BY <1>1 DEF IInv, Work
<1>3. executing' = [executing EXCEPT ![s] = None]
  BY <1>1, <1>2 DEF IInv, TypeOK
<1>4. db[s] \in Database
  BY <1>2, OnlineData DEF IInv
<1>5. /\ state \in {"NONE", "RUNNING"} \cup Ended
      /\ state # "RUNNING"
      /\ db[s].execution[d] \in {"RUNNING", state}
      /\ db[s].execution[d] = "RUNNING" => state = "OUTCOME_UNKNOWN"
  BY <1>4 DEF Database, Ended
<1>6. listed[s] \in SUBSET Decision
  BY <1>1 DEF IInv, TypeOK
<1>7. /\ listed' \in [Site -> (SUBSET Decision) \cup {None}]
      /\ \A t \in Site : t # s => listed'[t] = listed[t]
      /\ listed'[s] # None => listed[s] # None /\ listed[s] \ {d} \subseteq listed'[s]
  BY <1>1, <1>6 DEF IInv, TypeOK
<1> HIDE DEF state
<1> QED BY <1>1, <1>2, <1>3, <1>5, <1>7, EndStep

-----------------------------------------------------------------------------
\* A process dies or takes a lock; no data is touched.
LEMMA LockStep ==
  ASSUME IInv, NEW s \in Site, Die(s) \/ ListRunning(s) \/ RecoveryReturns(s) \/ RecoveryStops(s)
  PROVE  IInv'
<1>1. /\ db' = db /\ backup' = backup /\ archive' = archive /\ restore' = restore
      /\ spent' = spent
  BY DEF Die, ListRunning, RecoveryReturns, RecoveryStops
<1>2. ListRunning(s) => Online(s) /\ executing[s] = None /\ Unlocked(s)
  BY DEF ListRunning, DispatchFree
<1>3. /\ executing' = executing \/ executing' = [executing EXCEPT ![s] = None]
      /\ \/ listed' = listed \/ listed' = [listed EXCEPT ![s] = None]
         \/ ListRunning(s) /\ listed' = [listed EXCEPT ![s] = Running(s)]
  BY DEF Die, ListRunning, RecoveryReturns, RecoveryStops
<1>4. \A t \in Site : executing'[t] \in {executing[t], None}
  BY <1>3 DEF IInv, TypeOK
<1>5. \A t \in Site :
        \/ listed'[t] \in {listed[t], None}
        \/ ListRunning(s) /\ t = s /\ listed'[t] = Running(s)
  BY <1>3 DEF IInv, TypeOK
<1>6. ListRunning(s) => executing' = executing
  BY DEF ListRunning
<1> USE DEF IInv
<1>7. TypeOK'
  BY <1>1, <1>3 DEF TypeOK, Running
<1>8. Work'
  BY <1>1, <1>2, <1>4, <1>5, <1>6 DEF Work, Online
<1>9. BackupUnderWay'
  BY <1>1, <1>2, <1>4, <1>5 DEF BackupUnderWay, Unlocked, Online, Site
<1>10. Abandoned'
  BY <1>1, <1>4, NoneAssumption DEF Abandoned, Site
<1>11. BackupIsConsistent' /\ Dates' /\ NothingIsRevived'
  BY <1>1 DEF BackupIsConsistent, Dates, NothingIsRevived, Inspected, Online
<1>12. RecoveryMissesNothing'
  BY <1>1, <1>5 DEF RecoveryMissesNothing, Running
<1> QED BY <1>7, <1>8, <1>9, <1>10, <1>11, <1>12

\* The transactions of a backup change no record of a case or an account.
LEMMA MaintenanceData ==
  ASSUME IInv, NEW after \in After("maintenance", db["live"]),
         db' = [db EXCEPT !["live"] = after]
  PROVE  /\ db' \in [Site -> Database \cup {None}]
         /\ db'["live"] = after /\ db'["live"] # None
         /\ db'["copy"] = db["copy"]
         /\ \A s \in Site :
              /\ Online(s)' <=> Online(s)
              /\ Online(s) => db'[s].execution = db[s].execution
              /\ Online(s) => Past(db'[s]) /\ Native(db'[s], s)
<1>1. Online("live") /\ "live" \in Site /\ "maintenance" \in Ledger
  BY DEF IInv, BackupUnderWay, Site, Ledger
<1>2. db["live"] \in Database
  BY <1>1, OnlineData DEF IInv
<1>3. db'["live"] = after /\ db'["copy"] = db["copy"]
  BY <1>1 DEF IInv, TypeOK, Site
<1>4. after \in Database /\ after # None
  BY <1>1, <1>2, AfterIs, NoneAssumption
<1>5. db' \in [Site -> Database \cup {None}]
  BY <1>4 DEF IInv, TypeOK
<1>6. after.execution = db["live"].execution /\ Past(after) /\ Native(after, "live")
  BY <1>1, <1>2, AfterIs, SameDates, OnlineData DEF IInv
<1>7. \A s \in Site : Online(s)' <=> Online(s)
  BY <1>1, <1>3, <1>4 DEF Online, Site
<1>8. Online("copy") => Past(db["copy"]) /\ Native(db["copy"], "copy")
  BY DEF IInv, Dates, Site
<1> QED BY <1>3, <1>4, <1>5, <1>6, <1>7, <1>8 DEF Site

\* What holds whatever a backup writes of itself.
LEMMA MaintenanceStep ==
  ASSUME IInv, NEW after \in After("maintenance", db["live"]),
         db' = [db EXCEPT !["live"] = after],
         executing' = executing, listed' = listed, restore' = restore, spent' = spent
  PROVE  /\ Work'
         /\ \A s \in Site : Online(s)' => Past(db'[s]) /\ Native(db'[s], s)
         /\ NothingIsRevived'
         /\ RecoveryMissesNothing'
<1> USE DEF IInv
<1>1. Work'
  BY MaintenanceData DEF Work
<1>2. \A s \in Site : Online(s)' => Past(db'[s]) /\ Native(db'[s], s)
  BY MaintenanceData
<1>3. NothingIsRevived'
  BY MaintenanceData DEF NothingIsRevived, Site
<1>4. RecoveryMissesNothing'
  BY MaintenanceData DEF RecoveryMissesNothing, Running, Work
<1> QED BY <1>1, <1>2, <1>3, <1>4

LEMMA StartBackupStep == ASSUME IInv, StartBackup PROVE IInv'
<1>1. PICK after \in After("maintenance", db["live"]) :
        /\ db' = [db EXCEPT !["live"] = after]
        /\ backup' = IF Inspected(after) THEN [backup EXCEPT !.place = "started"] ELSE backup
  BY DEF StartBackup
<1>2. /\ executing' = executing /\ listed' = listed /\ archive' = archive
      /\ restore' = restore /\ spent' = spent
      /\ archive = None
      /\ executing["live"] = None /\ listed["live"] = None /\ backup.place = "idle"
  BY DEF StartBackup, DispatchFree, Unlocked
<1>3. /\ db' \in [Site -> Database \cup {None}]
      /\ db'["live"] = after
      /\ Online("live")'
  BY <1>1, MaintenanceData DEF Online
<1>4. Work' /\ NothingIsRevived' /\ RecoveryMissesNothing'
  BY <1>1, <1>2, MaintenanceStep
<1> USE DEF IInv
<1>5. TypeOK'
  BY <1>1, <1>2, <1>3 DEF TypeOK
<1>6. BackupUnderWay'
  BY <1>1, <1>2, <1>3 DEF BackupUnderWay, TypeOK, Inspected
<1>7. Abandoned' /\ BackupIsConsistent'
  BY <1>2 DEF Abandoned, BackupIsConsistent
<1>8. Dates'
  BY <1>1, <1>2, MaintenanceStep DEF Dates
<1> QED BY <1>4, <1>5, <1>6, <1>7, <1>8

LEMMA CopyStep == ASSUME IInv, CopyDatabase \/ CopyCheckpoints \/ AbandonBackup PROVE IInv'
<1>1. /\ db' = db /\ executing' = executing /\ listed' = listed /\ archive' = archive
      /\ restore' = restore /\ spent' = spent
  BY DEF CopyDatabase, CopyCheckpoints, AbandonBackup
<1> USE DEF IInv
<1>2. "live" \in Site /\ db["live"] \in Database /\ db["live"] # None
  BY OnlineData DEF BackupUnderWay, Online, Site
<1>3. /\ Work' /\ Abandoned' /\ BackupIsConsistent' /\ Dates' /\ NothingIsRevived'
      /\ RecoveryMissesNothing'
  BY <1>1 DEF Online, Work, Abandoned, BackupIsConsistent, Dates, NothingIsRevived,
     RecoveryMissesNothing, Inspected, Running
<1>4. /\ backup'.place \in {"idle", "copied", "written"}
      /\ backup'.moved = {}
      /\ backup' \in [place : {"idle", "started", "copied", "written"},
                      data : Database \cup {None}, moved : SUBSET Ledger]
      /\ backup'.place = "idle" => backup'.data = None
      /\ backup'.place # "idle" => backup.place # "idle" /\ backup'.data = db["live"]
  <2>1. CASE CopyDatabase
    BY <2>1, <1>2 DEF CopyDatabase, TypeOK, BackupUnderWay
  <2>2. CASE CopyCheckpoints
    <3> DEFINE data == [backup.data EXCEPT !.broken = @ \cup backup.moved]
    <3>1. backup.data = db["live"] /\ backup.moved = {} /\ backup.place = "copied"
      BY <2>2 DEF CopyCheckpoints, BackupUnderWay
    <3>2. data = db["live"]
      BY <3>1, <1>2 DEF Database
    <3>3. backup' = [place |-> "written", moved |-> {}, data |-> db["live"]]
      BY <2>2, <3>2 DEF CopyCheckpoints
    <3> QED BY <1>2, <3>1, <3>3
  <2>3. CASE AbandonBackup
    BY <2>3 DEF AbandonBackup, NoBackup
  <2> QED BY <2>1, <2>2, <2>3
<1>5. TypeOK'
  BY <1>1, <1>2, <1>4 DEF TypeOK
<1>6. BackupUnderWay'
  BY <1>1, <1>2, <1>4 DEF BackupUnderWay, Online
<1> QED BY <1>3, <1>5, <1>6

LEMMA CompleteBackupStep == ASSUME IInv, CompleteBackup PROVE IInv'
<1>1. PICK after \in After("maintenance", db["live"]) :
        /\ db' = [db EXCEPT !["live"] = after]
        /\ archive' = IF "maintenance" \in after.broken THEN None ELSE backup.data
  BY DEF CompleteBackup
<1>2. /\ executing' = executing /\ listed' = listed
      /\ restore' = restore /\ spent' = spent
      /\ backup' = NoBackup
      /\ backup.place = "written"
  BY DEF CompleteBackup
<1>3. /\ db' \in [Site -> Database \cup {None}]
      /\ Online("live")'
      /\ db'["live"].execution = db["live"].execution
  BY <1>1, MaintenanceData DEF Online, IInv, BackupUnderWay, Site
<1>4. Work' /\ NothingIsRevived' /\ RecoveryMissesNothing'
  BY <1>1, <1>2, MaintenanceStep
<1> USE DEF IInv
<1>5. /\ "live" \in Site /\ db["live"] \in Database /\ Past(db["live"])
      /\ db["live"].broken = {} /\ backup.data = db["live"] /\ executing["live"] = None
  BY <1>2, OnlineData DEF BackupUnderWay, Site
<1>6. archive' = None \/ archive' = db["live"]
  BY <1>1, <1>5
<1>7. TypeOK'
  BY <1>2, <1>3, <1>5, <1>6 DEF TypeOK, NoBackup
<1>8. BackupUnderWay'
  BY <1>2, <1>3 DEF BackupUnderWay, NoBackup
<1>9. Abandoned'
  BY <1>2, <1>5, NoneAssumption DEF Abandoned
<1>10. BackupIsConsistent'
  BY <1>3, <1>5, <1>6 DEF BackupIsConsistent, Inspected
<1>11. Dates'
  BY <1>1, <1>2, <1>5, <1>6, MaintenanceStep DEF Dates
<1> QED BY <1>4, <1>7, <1>8, <1>9, <1>10, <1>11

-----------------------------------------------------------------------------
\* A restoration works on a directory of its own until it is put in place.
LEMMA UnpackStep ==
  ASSUME IInv, Unpack \/ AbandonRestore \/ \E h \in Human : ResetUser(h)
  PROVE  IInv'
<1>1. /\ db' = db /\ executing' = executing /\ listed' = listed /\ archive' = archive
      /\ backup' = backup /\ spent' = spent
  BY DEF Unpack, AbandonRestore, ResetUser
<1> USE DEF IInv
<1>2. \/ restore' = None
      \/ /\ restore' \in [data : Database, reset : SUBSET Human]
         /\ Past(restore'.data)
         /\ Stale(restore'.data, restore'.reset)
  <2>1. CASE Unpack
    <3>1. restore' = [data |-> archive, reset |-> {}] /\ archive \in Database /\ Past(archive)
      BY <2>1 DEF Unpack, TypeOK, Dates
    <3> QED BY <3>1 DEF Stale
  <2>2. CASE AbandonRestore
    BY <2>2 DEF AbandonRestore
  <2>3. ASSUME NEW h \in Human, ResetUser(h)
        PROVE  \/ restore' = None
               \/ /\ restore' \in [data : Database, reset : SUBSET Human]
                  /\ Past(restore'.data)
                  /\ Stale(restore'.data, restore'.reset)
    <3>1. PICK after \in After("admin", Changed(restore.data, h)) :
            restore' = IF Inspected(after)
                       THEN [data |-> after, reset |-> restore.reset \cup {h}] ELSE None
      BY <2>3 DEF ResetUser
    <3>2. /\ restore \in [data : Database, reset : SUBSET Human]
          /\ restore.data.revision[h] < MaxRevision
          /\ Past(restore.data) /\ Stale(restore.data, restore.reset)
      BY <2>3 DEF ResetUser, TypeOK, Dates
    <3> DEFINE new == Changed(restore.data, h)
    <3>3. /\ new \in Database
          /\ Past(new)
          /\ Stale(new, restore.reset \cup {h})
      BY <3>2, ChangedDates
    <3> HIDE DEF new
    <3>4. "admin" \in Ledger /\ after \in After("admin", new)
      BY <3>1 DEF Ledger, new
    <3>5. after \in Database /\ Past(after) /\ Stale(after, restore.reset \cup {h})
      BY <3>3, <3>4, AfterIs, SameDates
    <3>6. restore.reset \cup {h} \in SUBSET Human
      BY <3>2
    <3> QED BY <3>1, <3>5, <3>6
  <2> QED BY <2>1, <2>2, <2>3
<1>3. TypeOK'
  BY <1>1, <1>2 DEF TypeOK
<1>4. Dates'
  BY <1>1, <1>2 DEF Dates, Online
<1>5. /\ Work' /\ BackupUnderWay' /\ Abandoned' /\ BackupIsConsistent' /\ NothingIsRevived'
      /\ RecoveryMissesNothing'
  BY <1>1 DEF Online, Work, BackupUnderWay, Abandoned, BackupIsConsistent, NothingIsRevived,
     RecoveryMissesNothing, Inspected, Running
<1> QED BY <1>3, <1>4, <1>5

LEMMA ActivateStep == ASSUME IInv, Activate PROVE IInv'
<1>1. /\ restore # None /\ restore.reset = Human
      /\ ~Online("copy")
      /\ db' = [db EXCEPT !["copy"] = restore.data]
      /\ restore' = None
      /\ executing' = executing /\ listed' = listed /\ archive' = archive
      /\ backup' = backup /\ spent' = spent
  BY DEF Activate, ResetAll
<1> USE DEF IInv
<1>2. restore.data \in Database /\ Past(restore.data) /\ Stale(restore.data, Human)
  BY <1>1 DEF TypeOK, Dates
<1>3. Native(restore.data, "copy")
  BY <1>2 DEF Stale, Native, Session
<1>4. /\ db' \in [Site -> Database \cup {None}]
      /\ db'["copy"] = restore.data /\ db'["copy"] # None
      /\ db'["live"] = db["live"]
  BY <1>1, <1>2, NoneAssumption DEF TypeOK, Site
<1>5. executing["copy"] = None /\ listed["copy"] = None
  BY <1>1 DEF Work, Site
<1>6. TypeOK'
  BY <1>1, <1>4 DEF TypeOK
<1>7. Work'
  BY <1>1, <1>4, <1>5 DEF Work, Online, Site
<1>8. BackupUnderWay' /\ Abandoned' /\ BackupIsConsistent'
  BY <1>1, <1>4 DEF BackupUnderWay, Abandoned, BackupIsConsistent, Online, Inspected
<1>9. Dates'
  BY <1>1, <1>2, <1>3, <1>4 DEF Dates, Online, Site
<1>10. NothingIsRevived'
  BY <1>1, <1>2, <1>3, <1>4, NativeSessions DEF NothingIsRevived
<1>11. RecoveryMissesNothing'
  BY <1>1, <1>4, <1>5 DEF RecoveryMissesNothing, Running, Site
<1> QED BY <1>6, <1>7, <1>8, <1>9, <1>10, <1>11

-----------------------------------------------------------------------------
LEMMA InvStep == IInv /\ [Next]_vars => IInv'
<1> SUFFICES ASSUME IInv, [Next]_vars PROVE IInv'
  OBVIOUS
<1>1. TypeOK /\ Dates
  BY DEF IInv
<1>2. ASSUME NEW s \in Site, NEW h \in Human, Login(s, h) PROVE IInv'
  BY <1>1, <1>2, LoginStep, QuietStep DEF Login
<1>3. ASSUME NEW s \in Site, NEW h \in Human, ChangeUser(s, h) PROVE IInv'
  BY <1>1, <1>3, ChangeUserStep, QuietStep DEF ChangeUser
<1>4. ASSUME NEW s \in Site, NEW d \in Decision, NEW h \in Human, Review(s, d, h) PROVE IInv'
  BY <1>1, <1>4, ReviewStep, QuietStep DEF Review
<1>5. ASSUME NEW s \in Site, NEW d \in Decision, Begin(s, d) PROVE IInv'
  BY <1>5, BeginStep
<1>6. ASSUME NEW s \in Site, NEW d \in Decision, NEW outcome \in Ended, Finish(s, d, outcome)
      PROVE  IInv'
  BY <1>6, FinishStep
<1>7. ASSUME NEW s \in Site, NEW d \in Decision, MarkUnknown(s, d) PROVE IInv'
  BY <1>7, MarkStep
<1>8. ASSUME NEW s \in Site, Die(s) \/ ListRunning(s) \/ RecoveryReturns(s) \/ RecoveryStops(s)
      PROVE  IInv'
  BY <1>8, LockStep
<1>9. CASE StartBackup
  BY <1>9, StartBackupStep
<1>10. CASE CopyDatabase \/ CopyCheckpoints \/ AbandonBackup
  BY <1>10, CopyStep
<1>11. CASE CompleteBackup
  BY <1>11, CompleteBackupStep
<1>12. CASE Unpack \/ AbandonRestore \/ \E h \in Human : ResetUser(h)
  BY <1>12, UnpackStep
<1>13. CASE Activate
  BY <1>13, ActivateStep
<1>14. CASE UNCHANGED vars
  BY <1>14 DEF vars, IInv, TypeOK, Work, BackupUnderWay, Abandoned, BackupIsConsistent, Dates,
     NothingIsRevived, RecoveryMissesNothing, Online, Inspected, Running
<1> QED BY <1>2, <1>3, <1>4, <1>5, <1>6, <1>7, <1>8, <1>9, <1>10, <1>11, <1>12, <1>13, <1>14
        DEF Next

(* The invariant is inductive, so it holds in every reachable state.       *)
THEOREM Inductive == Spec => []IInv
  BY InitInv, InvStep, PTL DEF Spec

(* Every state of an installation, its backup and its copy is well typed.  *)
THEOREM TypeCorrect == Spec => []TypeOK
<1>1. IInv => TypeOK
  BY DEF IInv
<1> QED BY <1>1, Inductive, PTL

(* An emitted backup is whole and agrees with what the live site says of   *)
(* every execution from then on.                                           *)
THEOREM ConsistentBackup == Spec => []BackupIsConsistent
<1>1. IInv => BackupIsConsistent
  BY DEF IInv
<1> QED BY <1>1, Inductive, PTL

(* However the sites go on, a restored copy begins nothing on a review and *)
(* accepts no session from before its restoration.                         *)
THEOREM NoRevival == Spec => []NothingIsRevived
<1>1. IInv => NothingIsRevived
  BY DEF IInv
<1> QED BY <1>1, Inductive, PTL

(* A recovery that returns has marked every abandoned execution.           *)
THEOREM CompleteRecovery == Spec => []RecoveryMissesNothing
<1>1. IInv => RecoveryMissesNothing
  BY DEF IInv
<1> QED BY <1>1, Inductive, PTL
===============================================================================
