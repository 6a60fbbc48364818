----------------------------- MODULE Installation -----------------------------
(***************************************************************************)
(* maintenance.py, with recover of service.py and change_user of store.py: *)
(* an installation, the backup of it, the copy that a restoration makes of *)
(* it and what both sites do afterwards.                                   *)
(*                                                                         *)
(* A site is a database and its checkpoint files.  A transaction commits   *)
(* the database and then publishes the checkpoint of one ledger; when that *)
(* is lost, the ledger is broken and refuses everything.  The ledgers are  *)
(* those of the cases, of the accounts ("admin") and "maintenance".  Every *)
(* case has one decision, which stands for it.                             *)
(*                                                                         *)
(* The humans are eligible members of all cases.  Reviews and executions   *)
(* are Gateway's subject, in more detail; here they are what a backup may  *)
(* catch half-way and a restoration might revive.                          *)
(***************************************************************************)
EXTENDS Naturals, FiniteSets

CONSTANTS
  Human,
  Decision,     \* one in each case
  MaxRevision,  \* bound of the model: changes of an account
  MaxBroken,    \* bound of the model: lost checkpoints
  None

ASSUME MaxRevisionAssumption == MaxRevision \in Nat

VARIABLES
  db,         \* the state directory of each site, or None
  executing,  \* the decision that a process of the site executes
  listed,     \* the rows that a recovery of the site has read and not marked
  backup,     \* the backup under way at the live site
  archive,    \* the backup whose SHA-256 has been emitted
  restore,    \* the restoration under way, in its temporary directory
  spent       \* history: the reviews that an execution began on, and where

vars == <<db, executing, listed, backup, archive, restore, spent>>

Site == {"live", "copy"}
Ledger == Decision \cup {"admin", "maintenance"}
Ended == {"COMPLETED", "FAILED", "OUTCOME_UNKNOWN"}

\* Where a session was opened or a review was given is history: no code reads it.
Session == [human : Human, revision : 0..MaxRevision, at : Site]
Database ==
  [revision : [Human -> 0..MaxRevision],   \* identity events of each account
   sessions : SUBSET Session,
   reviews : [Decision -> SUBSET Session], \* by whom, under which identity event
   execution : [Decision -> {"NONE", "RUNNING"} \cup Ended],
   broken : SUBSET Ledger]                 \* ledgers that do not match their checkpoint

ASSUME NoneAssumption == None \notin Human \cup Decision \cup Database

TypeOK ==
  /\ db \in [Site -> Database \cup {None}]
  /\ executing \in [Site -> Decision \cup {None}]
  /\ listed \in [Site -> (SUBSET Decision) \cup {None}]
  /\ backup \in [place : {"idle", "started", "copied", "written"},
                 data : Database \cup {None}, moved : SUBSET Ledger]
  /\ backup.data # None <=> backup.place \in {"copied", "written"}
  /\ archive \in Database \cup {None}
  /\ restore \in [data : Database, reset : SUBSET Human] \cup {None}
  /\ spent \subseteq [at : Site, decision : Decision, reviews : SUBSET Session]

NoBackup == [place |-> "idle", data |-> None, moved |-> {}]

Init ==
  /\ db = [s \in Site |->
       IF s = "copy" THEN None
       ELSE [revision |-> [h \in Human |-> 0], sessions |-> {},
             reviews |-> [d \in Decision |-> {}],
             execution |-> [d \in Decision |-> "NONE"], broken |-> {}]]
  /\ executing = [s \in Site |-> None]
  /\ listed = [s \in Site |-> None]
  /\ backup = NoBackup
  /\ archive = None
  /\ restore = None
  /\ spent = {}

-----------------------------------------------------------------------------
\* Mutant: the backup does not hold store.lock.
NeverLocked(s) == TRUE

\* A backup holds store.lock from the inspection to its last transaction.
Unlocked(s) == s = "live" => backup.place = "idle"

\* Mutant: an operation starts while a recovery is under way.
DispatchIgnoringRecovery(s) == executing[s] = None /\ Unlocked(s)

\* dispatch.lock is held by an execution, by a recovery and by a backup.
DispatchFree(s) == executing[s] = None /\ listed[s] = None /\ Unlocked(s)

\* The content of a state directory after a transaction on ledger l, whose checkpoint
\* may be lost.
After(l, data) ==
  {data} \cup {x \in {[data EXCEPT !.broken = @ \cup {l}]} : Cardinality(x.broken) <= MaxBroken}

\* A transaction at site s: the ledger is verified, data is what it writes.
Commit(s, l, data) ==
  /\ Unlocked(s)
  /\ l \notin db[s].broken
  /\ \E after \in After(l, data) : db' = [db EXCEPT ![s] = after]
  /\ backup' = IF s = "live" /\ backup.place = "copied"
               THEN [backup EXCEPT !.moved = @ \cup {l}] ELSE backup

Online(s) == db[s] # None

\* store.user verifies the ledger of the accounts.
AccountsReadable(s) == "admin" \notin db[s].broken

Login(s, h) ==
  /\ Online(s)
  /\ Commit(s, "admin", [db[s] EXCEPT !.sessions =
       @ \cup {[human |-> h, revision |-> db[s].revision[h], at |-> s]}])
  /\ UNCHANGED <<executing, listed, archive, restore, spent>>

\* change_user: a new identity event, and the sessions of the account are deleted.
Changed(data, h) ==
  [data EXCEPT !.revision[h] = @ + 1, !.sessions = {x \in @ : x.human # h}]

ChangeUser(s, h) ==
  /\ Online(s)
  /\ db[s].revision[h] < MaxRevision
  /\ Commit(s, "admin", Changed(db[s], h))
  /\ UNCHANGED <<executing, listed, archive, restore, spent>>

\* review, in a session under the current identity event: one review per human.
Review(s, d, h) ==
  /\ Online(s)
  /\ AccountsReadable(s)
  /\ \E x \in db[s].sessions : x.human = h /\ x.revision = db[s].revision[h]
  /\ db[s].execution[d] = "NONE"
  /\ \A x \in db[s].reviews[d] : x.human # h
  /\ Commit(s, d, [db[s] EXCEPT !.reviews[d] =
       @ \cup {[human |-> h, revision |-> db[s].revision[h], at |-> s]}])
  /\ UNCHANGED <<executing, listed, archive, restore, spent>>

\* _approved: there are reviews, and each of them is under its author's identity event.
Approved(s, d) ==
  /\ AccountsReadable(s)
  /\ db[s].reviews[d] # {}
  /\ \A x \in db[s].reviews[d] : x.revision = db[s].revision[x.human]

\* The intent: when its checkpoint is lost, nobody goes on to execute.
Begin(s, d) ==
  /\ Online(s)
  /\ DispatchFree(s)
  /\ db[s].execution[d] = "NONE"
  /\ Approved(s, d)
  /\ Commit(s, d, [db[s] EXCEPT !.execution[d] = "RUNNING"])
  /\ executing' = [executing EXCEPT ![s] = IF d \in db'[s].broken THEN None ELSE d]
  /\ spent' = spent \cup {[at |-> s, decision |-> d, reviews |-> db[s].reviews[d]]}
  /\ UNCHANGED <<listed, archive, restore>>

\* The execution ends and its outcome is recorded.
Finish(s, d, outcome) ==
  /\ executing[s] = d
  /\ Commit(s, d, [db[s] EXCEPT !.execution[d] = outcome])
  /\ executing' = [executing EXCEPT ![s] = None]
  /\ UNCHANGED <<listed, archive, restore, spent>>

\* The process dies, or its last transaction is refused: the row stays RUNNING.
Die(s) ==
  /\ executing[s] # None
  /\ executing' = [executing EXCEPT ![s] = None]
  /\ UNCHANGED <<db, listed, backup, archive, restore, spent>>

-----------------------------------------------------------------------------
Running(s) == {d \in Decision : db[s].execution[d] = "RUNNING"}

\* tracefoundry recover: the running rows of all cases are read once...
ListRunning(s) ==
  /\ Online(s)
  /\ DispatchFree(s)
  /\ listed' = [listed EXCEPT ![s] = Running(s)]
  /\ UNCHANGED <<db, executing, backup, archive, restore, spent>>

\* ... and marked one by one, each in a transaction of its own case.
MarkUnknown(s, d) ==
  /\ listed[s] # None
  /\ d \in listed[s]
  /\ Commit(s, d, [db[s] EXCEPT !.execution[d] =
       IF @ = "RUNNING" THEN "OUTCOME_UNKNOWN" ELSE @])
  /\ listed' = [listed EXCEPT ![s] = IF d \in db'[s].broken THEN None ELSE @ \ {d}]
  /\ UNCHANGED <<executing, archive, restore, spent>>

RecoveryReturns(s) ==
  /\ listed[s] = {}
  /\ listed' = [listed EXCEPT ![s] = None]
  /\ UNCHANGED <<db, executing, backup, archive, restore, spent>>

\* The first row whose case is out of service ends the recovery, as a crash does; the
\* rows after it stay RUNNING.
RecoveryStops(s) ==
  /\ listed[s] # None
  /\ listed[s] # {}
  /\ listed' = [listed EXCEPT ![s] = None]
  /\ UNCHANGED <<db, executing, backup, archive, restore, spent>>

-----------------------------------------------------------------------------
\* inspect_state raises when any ledger does not match its checkpoint.
Inspected(data) == data.broken = {}

\* create_backup, under dispatch.lock (without waiting) and store.lock: the site is
\* inspected and backup.started recorded.
StartBackup ==
  /\ archive = None
  /\ DispatchFree("live")
  /\ Inspected(db["live"])
  /\ \E after \in After("maintenance", db["live"]) :
       /\ db' = [db EXCEPT !["live"] = after]
       /\ backup' = IF Inspected(after) THEN [backup EXCEPT !.place = "started"] ELSE backup
  /\ UNCHANGED <<executing, listed, archive, restore, spent>>

\* The database is copied...
CopyDatabase ==
  /\ backup.place = "started"
  /\ backup' = [backup EXCEPT !.place = "copied", !.data = db["live"]]
  /\ UNCHANGED <<db, executing, listed, archive, restore, spent>>

\* ... then the checkpoint files, and the archive is written: a ledger that has moved
\* between the two does not match its checkpoint in the archive.
CopyCheckpoints ==
  /\ backup.place = "copied"
  /\ backup' = [place |-> "written", moved |-> {},
                data |-> [backup.data EXCEPT !.broken = @ \cup backup.moved]]
  /\ UNCHANGED <<db, executing, listed, archive, restore, spent>>

\* backup.completed is recorded, and the SHA-256 emitted if that succeeds.
CompleteBackup ==
  /\ backup.place = "written"
  /\ \E after \in After("maintenance", db["live"]) :
       /\ db' = [db EXCEPT !["live"] = after]
       /\ archive' = IF "maintenance" \in after.broken THEN None ELSE backup.data
  /\ backup' = NoBackup
  /\ UNCHANGED <<executing, listed, restore, spent>>

\* The backup fails or its process dies.
AbandonBackup ==
  /\ backup.place # "idle"
  /\ backup' = NoBackup
  /\ UNCHANGED <<db, executing, listed, archive, restore, spent>>

-----------------------------------------------------------------------------
\* restore_backup: the pinned archive is unpacked beside its destination and inspected.
Unpack ==
  /\ archive # None
  /\ ~Online("copy")
  /\ restore = None
  /\ Inspected(archive)
  /\ restore' = [data |-> archive, reset |-> {}]
  /\ UNCHANGED <<db, executing, listed, backup, archive, spent>>

\* change_user for one account after the other.
ResetUser(h) ==
  /\ restore # None
  /\ h \notin restore.reset
  /\ Inspected(restore.data)
  /\ restore.data.revision[h] < MaxRevision
  /\ \E after \in After("admin", Changed(restore.data, h)) :
       restore' = IF Inspected(after)
                  THEN [data |-> after, reset |-> restore.reset \cup {h}] ELSE None
  /\ UNCHANGED <<db, executing, listed, backup, archive, spent>>

\* Mutant: the directory is put in place before all accounts have been reset.
ResetSome == restore.reset # {}

ResetAll == restore.reset = Human

\* backup.restored is recorded, the result inspected and put in its place.
Activate ==
  /\ restore # None
  /\ ResetAll
  /\ Inspected(restore.data)
  /\ ~Online("copy")
  /\ db' = [db EXCEPT !["copy"] = restore.data]
  /\ restore' = None
  /\ UNCHANGED <<executing, listed, backup, archive, spent>>

\* The restoration fails or its process dies, and leaves no destination.
AbandonRestore ==
  /\ restore # None
  /\ restore' = None
  /\ UNCHANGED <<db, executing, listed, backup, archive, spent>>

Next ==
  \/ \E s \in Site :
       \/ \E h \in Human : Login(s, h) \/ ChangeUser(s, h)
       \/ \E d \in Decision :
            \/ \E h \in Human : Review(s, d, h)
            \/ Begin(s, d)
            \/ \E outcome \in Ended : Finish(s, d, outcome)
            \/ MarkUnknown(s, d)
       \/ Die(s)
       \/ ListRunning(s)
       \/ RecoveryReturns(s)
       \/ RecoveryStops(s)
  \/ StartBackup \/ CopyDatabase \/ CopyCheckpoints \/ CompleteBackup \/ AbandonBackup
  \/ Unpack \/ Activate \/ AbandonRestore
  \/ \E h \in Human : ResetUser(h)

Spec == Init /\ [][Next]_vars

-----------------------------------------------------------------------------
(* A backup whose SHA-256 has been emitted is whole: it passes the         *)
(* inspection that a restoration makes, though the database and the        *)
(* checkpoint files in it were copied one after the other.  And what it    *)
(* says of an execution stays true of the live site: what had ended has    *)
(* ended that way, and what it shows RUNNING was abandoned and never       *)
(* completes or fails afterwards, so that a copy that marks it unknown     *)
(* does not contradict the site it was taken from.                         *)
BackupIsConsistent ==
  archive # None =>
    /\ Inspected(archive)
    /\ \A d \in Decision :
         LET before == archive.execution[d]
             now == db["live"].execution[d]
         IN /\ before \in Ended => now = before
            /\ before = "RUNNING" => now \in {"RUNNING", "OUTCOME_UNKNOWN"}

(* "Restore invalidates all backed-up sessions and pending reviews"        *)
(* (ADMINISTRATION.md:70): nothing begins at the copy on a review that was *)
(* given elsewhere, and no session that the copy accepts was opened        *)
(* elsewhere.                                                              *)
NothingIsRevived ==
  /\ \A x \in spent : \A r \in x.reviews : r.at = x.at
  /\ Online("copy") =>
       \A x \in db["copy"].sessions :
         x.revision = db["copy"].revision[x.human] => x.at = "copy"

(* While a recovery is under way every execution of the site that is       *)
(* RUNNING is one it still has to mark: when it returns, nothing is.       *)
RecoveryMissesNothing ==
  \A s \in Site : listed[s] # None => Running(s) \subseteq listed[s]
===============================================================================
