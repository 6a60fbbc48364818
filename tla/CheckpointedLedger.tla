------------------------- MODULE CheckpointedLedger -------------------------
(***************************************************************************)
(* store.py: Store.transaction, audit, verify_ledger and checkpoint.       *)
(*                                                                         *)
(* Every change of state runs in a transaction of one ledger.  A process   *)
(* takes the cross-process transaction.lock, opens a SQLite transaction,   *)
(* verifies the ledger against its signed checkpoint file, appends audit   *)
(* rows, commits, writes the checkpoint of the new length as a history     *)
(* file (created exclusively), and replaces the current checkpoint file.   *)
(* The commit and the two files are three separate steps: a crash or an    *)
(* I/O error can fall between any two of them.                             *)
(*                                                                         *)
(* A checkpoint holds the length and the head hash of the ledger.  A hash  *)
(* covers the hash before it, so a checkpoint is modelled as the sequence  *)
(* of events it commits to; the empty sequence stands for "no file".       *)
(***************************************************************************)
EXTENDS SequencesExt

CONSTANTS
  Proc,        \* server threads and command-line processes
  LedgerId,    \* ledgers
  Event,       \* audit event bodies
  None,        \* nobody holds transaction.lock
  MaxLength,   \* bound of the model: the longest ledger
  LateFsyncError  \* can the directory fsync fail after the file is in place?

ASSUME NoneAssumption == None \notin Proc
ASSUME BoundAssumption == MaxLength \in Nat
ASSUME FsyncAssumption == LateFsyncError \in BOOLEAN

VARIABLES
  lock,        \* holder of transaction.lock
  phase,       \* how far each process is in Store.transaction
  target,      \* the ledger of each process's transaction
  batch,       \* audit rows inserted and not yet committed
  rows,        \* committed rows of the audit table
  current,     \* checkpoints/<ledger>.json
  history,     \* the intact checkpoints/<ledger>-<n>.json files
  torn,        \* the lengths n whose history file exists but is not readable
  acked,       \* ghost: the ledger when a transaction last returned normally
  failed       \* ghost: ledgers on which checkpoint() has raised

vars == <<lock, phase, target, batch, rows, current, history, torn, acked, failed>>
files == <<current, history, torn>>

Phase == {"idle", "open", "committed", "witnessed"}

TypeOK ==
  /\ lock \in Proc \cup {None}
  /\ phase \in [Proc -> Phase]
  /\ target \in [Proc -> LedgerId]
  /\ batch \in [Proc -> Seq(Event)]
  /\ rows \in [LedgerId -> Seq(Event)]
  /\ current \in [LedgerId -> Seq(Event)]
  /\ history \in [LedgerId -> SUBSET Seq(Event)]
  /\ torn \in [LedgerId -> SUBSET Nat]
  /\ acked \in [LedgerId -> Seq(Event)]
  /\ failed \in SUBSET LedgerId

Init ==
  /\ lock = None
  /\ phase = [p \in Proc |-> "idle"]
  /\ target \in [Proc -> LedgerId]
  /\ batch = [p \in Proc |-> <<>>]
  /\ rows = [l \in LedgerId |-> <<>>]
  /\ current = [l \in LedgerId |-> <<>>]
  /\ history = [l \in LedgerId |-> {}]
  /\ torn = [l \in LedgerId |-> {}]
  /\ acked = [l \in LedgerId |-> <<>>]
  /\ failed = {}

-----------------------------------------------------------------------------
\* verify_ledger: the committed rows are exactly what the checkpoint covers.
Verified(l) == current[l] = rows[l]

\* The process leaves Store.transaction: the SQLite connection is closed
\* (uncommitted rows vanish) and the file lock is released.
Leave(p) ==
  /\ lock' = None
  /\ phase' = [phase EXCEPT ![p] = "idle"]
  /\ batch' = [batch EXCEPT ![p] = <<>>]
  /\ UNCHANGED target

\* Mutant: transaction() forgets verify_ledger.
BeginUnverified(p, l) ==
  /\ lock = None
  /\ phase[p] = "idle"
  /\ lock' = p
  /\ phase' = [phase EXCEPT ![p] = "open"]
  /\ target' = [target EXCEPT ![p] = l]
  /\ UNCHANGED <<batch, rows, files, acked, failed>>

\* Take the lock, BEGIN IMMEDIATE, verify_ledger.  A ledger that does not
\* verify raises 503 and a lock timeout raises too: nothing changes then.
Begin(p, l) ==
  /\ lock = None
  /\ phase[p] = "idle"
  /\ Verified(l)
  /\ lock' = p
  /\ phase' = [phase EXCEPT ![p] = "open"]
  /\ target' = [target EXCEPT ![p] = l]
  /\ UNCHANGED <<batch, rows, files, acked, failed>>

\* Store.audit: one more row, chained to the last.
Audit(p, e) ==
  /\ phase[p] = "open"
  /\ Len(rows[target[p]]) + Len(batch[p]) < MaxLength
  /\ batch' = [batch EXCEPT ![p] = Append(@, e)]
  /\ UNCHANGED <<lock, phase, target, rows, files, acked, failed>>

\* Mutant: the lock is kept when the handler raises.
RollbackKeepsLock(p) ==
  /\ phase[p] = "open"
  /\ phase' = [phase EXCEPT ![p] = "idle"]
  /\ batch' = [batch EXCEPT ![p] = <<>>]
  /\ UNCHANGED <<lock, target, rows, files, acked, failed>>

\* The handler, or the commit itself, raises: everything is rolled back.
Rollback(p) ==
  /\ phase[p] = "open"
  /\ Leave(p)
  /\ UNCHANGED <<rows, files, acked, failed>>

\* Mutant: the lock covers the SQLite transaction only, not the checkpoint.
CommitUnlocks(p) ==
  /\ phase[p] = "open"
  /\ rows' = [rows EXCEPT ![target[p]] = @ \o batch[p]]
  /\ batch' = [batch EXCEPT ![p] = <<>>]
  /\ phase' = [phase EXCEPT ![p] = "committed"]
  /\ lock' = None
  /\ UNCHANGED <<target, files, acked, failed>>

\* The transaction becomes durable; its checkpoint is still to be written.
Commit(p) ==
  /\ phase[p] = "open"
  /\ rows' = [rows EXCEPT ![target[p]] = @ \o batch[p]]
  /\ batch' = [batch EXCEPT ![p] = <<>>]
  /\ phase' = [phase EXCEPT ![p] = "committed"]
  /\ UNCHANGED <<lock, target, files, acked, failed>>

-----------------------------------------------------------------------------
\* checkpoint() on an empty ledger returns at once.
NothingToWitness(p) ==
  /\ phase[p] = "committed"
  /\ rows[target[p]] = <<>>
  /\ Leave(p)
  /\ UNCHANGED <<rows, files, acked, failed>>

\* Is there already a history file for this length?
Archived(l) ==
  \/ Len(rows[l]) \in torn[l]
  \/ \E h \in history[l] : Len(h) = Len(rows[l])

\* Mutant: the checkpoint is written before the commit.
WriteHistoryEarly(p) ==
  LET l == target[p] IN
  /\ phase[p] = "open"
  /\ history' = [history EXCEPT ![l] = @ \cup {rows[l] \o batch[p]}]
  /\ UNCHANGED <<lock, phase, target, batch, rows, current, torn, acked, failed>>

\* Mutant: an existing history file is not compared with the head.
WriteHistoryUnchecked(p) ==
  LET l == target[p] IN
  /\ phase[p] = "committed"
  /\ rows[l] # <<>>
  /\ history' = [history EXCEPT ![l] = @ \cup {rows[l]}]
  /\ phase' = [phase EXCEPT ![p] = "witnessed"]
  /\ UNCHANGED <<lock, target, batch, rows, current, torn, acked, failed>>

\* The history file of this length is written, or an equal one is reused.
WriteHistory(p) ==
  LET l == target[p] IN
  /\ phase[p] = "committed"
  /\ rows[l] # <<>>
  /\ Archived(l) => rows[l] \in history[l]
  /\ history' = [history EXCEPT ![l] = @ \cup {rows[l]}]
  /\ phase' = [phase EXCEPT ![p] = "witnessed"]
  /\ UNCHANGED <<lock, target, batch, rows, current, torn, acked, failed>>

\* checkpoint_history_conflict, or a history file that cannot be parsed.
HistoryConflict(p) ==
  LET l == target[p] IN
  /\ phase[p] = "committed"
  /\ rows[l] # <<>>
  /\ Archived(l)
  /\ rows[l] \notin history[l]
  /\ failed' = failed \cup {l}
  /\ Leave(p)
  /\ UNCHANGED <<rows, files, acked>>

\* What an exclusive create that does not finish leaves behind: no file, a
\* part of it, or all of it (the error then comes from the directory fsync).
HistoryRemains(l) ==
  \/ UNCHANGED <<history, torn>>
  \/ /\ torn' = [torn EXCEPT ![l] = @ \cup {Len(rows[l])}]
     /\ UNCHANGED history
  \/ /\ history' = [history EXCEPT ![l] = @ \cup {rows[l]}]
     /\ UNCHANGED torn

\* Mutant: an error of the history file is swallowed.
SwallowHistory(p) ==
  LET l == target[p] IN
  /\ phase[p] = "committed"
  /\ rows[l] # <<>>
  /\ ~Archived(l)
  /\ HistoryRemains(l)
  /\ phase' = [phase EXCEPT ![p] = "witnessed"]
  /\ UNCHANGED <<lock, target, batch, rows, current, acked, failed>>

\* secret_write of the history file raises; the rows stay committed.
FailHistory(p) ==
  LET l == target[p] IN
  /\ phase[p] = "committed"
  /\ rows[l] # <<>>
  /\ ~Archived(l)
  /\ HistoryRemains(l)
  /\ failed' = failed \cup {l}
  /\ Leave(p)
  /\ UNCHANGED <<rows, current, acked>>

\* Mutant: the current checkpoint is replaced before the history is written.
ReplaceFirst(p) ==
  LET l == target[p] IN
  /\ phase[p] = "committed"
  /\ current' = [current EXCEPT ![l] = rows[l]]
  /\ acked' = [acked EXCEPT ![l] = rows[l]]
  /\ Leave(p)
  /\ UNCHANGED <<rows, history, torn, failed>>

\* os.replace installs the new current checkpoint and the caller is told so.
ReplaceCurrent(p) ==
  LET l == target[p] IN
  /\ phase[p] = "witnessed"
  /\ current' = [current EXCEPT ![l] = rows[l]]
  /\ acked' = [acked EXCEPT ![l] = rows[l]]
  /\ Leave(p)
  /\ UNCHANGED <<rows, history, torn, failed>>

\* Mutant: an error of the replacement is swallowed.
SwallowReplace(p) ==
  LET l == target[p] IN
  /\ phase[p] = "witnessed"
  /\ acked' = [acked EXCEPT ![l] = rows[l]]
  /\ Leave(p)
  /\ UNCHANGED <<rows, files, failed>>

\* The replacement raises: before os.replace, or, from the fsync of the
\* directory, after it.
FailReplace(p) ==
  LET l == target[p] IN
  /\ phase[p] = "witnessed"
  /\ \/ UNCHANGED current
     \/ LateFsyncError /\ current' = [current EXCEPT ![l] = rows[l]]
  /\ failed' = failed \cup {l}
  /\ Leave(p)
  /\ UNCHANGED <<rows, history, torn, acked>>

\* The process dies.  The operating system releases the lock; SQLite keeps
\* what was committed; a checkpoint file may have been written or replaced.
Crash(p) ==
  LET l == target[p] IN
  /\ phase[p] # "idle"
  /\ Leave(p)
  /\ \/ UNCHANGED files
     \/ /\ phase[p] = "committed"
        /\ rows[l] # <<>>
        /\ ~Archived(l)
        /\ HistoryRemains(l)
        /\ UNCHANGED current
     \/ /\ phase[p] = "witnessed"
        /\ current' = [current EXCEPT ![l] = rows[l]]
        /\ UNCHANGED <<history, torn>>
  /\ UNCHANGED <<rows, acked, failed>>

\* External: the host puts an older copy of the database and of the current
\* checkpoint back and keeps the checkpoint history.
Rewind(l) ==
  /\ lock = None
  /\ \E h \in history[l] :
       /\ IsStrictPrefix(h, rows[l])
       /\ rows' = [rows EXCEPT ![l] = h]
       /\ current' = [current EXCEPT ![l] = h]
  /\ UNCHANGED <<lock, phase, target, batch, history, torn, acked, failed>>

-----------------------------------------------------------------------------
\* What a process that is inside a transaction does next.
Step(p) ==
  \/ \E e \in Event : Audit(p, e)
  \/ Rollback(p)
  \/ Commit(p)
  \/ NothingToWitness(p)
  \/ WriteHistory(p)
  \/ HistoryConflict(p)
  \/ FailHistory(p)
  \/ ReplaceCurrent(p)
  \/ FailReplace(p)

Next ==
  \E p \in Proc :
    \/ \E l \in LedgerId : Begin(p, l)
    \/ Step(p)
    \/ Crash(p)

Spec == Init /\ [][Next]_vars

\* A process inside a transaction is scheduled: the code between the two ends
\* of the lock is straight-line and waits for nothing.
FairSpec == Spec /\ \A p \in Proc : WF_vars(Step(p))

\* The same program on a host where an older state may be put back.
RewindSpec == Init /\ [][Next \/ \E l \in LedgerId : Rewind(l)]_vars

-----------------------------------------------------------------------------
\* Somebody is between the commit and the end of checkpoint() on this ledger.
Checkpointing(l) ==
  \E p \in Proc : target[p] = l /\ phase[p] \in {"committed", "witnessed"}

\* The ledger is out of service: its rows and its checkpoint disagree and
\* nobody is about to repair that.
Blocked(l) == ~Verified(l) /\ ~Checkpointing(l)

\* No checkpoint file, current or archived, ever covers an event that is not
\* committed: whatever a crash leaves, the signed witness is never ahead of
\* the rows it witnesses.
WitnessNeverAhead ==
  \A l \in LedgerId :
    /\ IsPrefix(current[l], rows[l])
    /\ \A h \in history[l] : IsPrefix(h, rows[l])

\* An unreadable history file only exists for the last length of a ledger
\* that is out of service, so no later checkpoint() meets it: the conflict
\* branch of checkpoint() cannot be reached by crashes and I/O errors alone.
TornMeansBlocked ==
  \A l \in LedgerId : \A n \in torn[l] : Blocked(l) /\ n = Len(rows[l])

\* Whatever the current checkpoint says, the history file of that length says
\* too: the audit view pins a page to a length and reads its history file.
CurrentIsArchived ==
  \A l \in LedgerId : current[l] # <<>> => current[l] \in history[l]

\* What a transaction acknowledged stays covered by the current checkpoint,
\* after any later crash or failure.
AcknowledgedIsWitnessed ==
  \A l \in LedgerId : IsPrefix(acked[l], current[l])

\* A ledger whose commit lost its checkpoint fails closed for good: it does
\* not grow, its files do not change and it never verifies again.
BlockedIsFinal ==
  [][\A l \in LedgerId :
       Blocked(l) => /\ Blocked(l)'
                     /\ rows'[l] = rows[l]
                     /\ current'[l] = current[l]
                     /\ history'[l] = history[l]]_vars

\* Two different heads are never both signed and archived for one length of a
\* ledger, not even after an older state has been put back: the history
\* directory exposes the fork and checkpoint() refuses to sign it.
OneHeadPerLength ==
  \A l \in LedgerId : \A g, h \in history[l] : Len(g) = Len(h) => g = h

\* "A failed checkpoint blocks further operations" (store.py:1): once
\* checkpoint() has raised on a ledger, the ledger does not grow any more.
FailedCheckpointBlocks ==
  [][\A l \in failed : rows'[l] = rows[l]]_vars

\* Nobody keeps transaction.lock for ever, whatever fails inside.
LockIsReleased == \A p \in Proc : lock = p ~> lock # p

\* The three files, the lock and the crashes implement the atomic ledger.
Abs == INSTANCE AtomicLedger
         WITH Body <- Event, accepted <- current, blocked <- {l \in LedgerId : Blocked(l)}
ImplementsAtomicLedger == Abs!AbsSpec
=============================================================================
