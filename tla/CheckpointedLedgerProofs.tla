----------------------- MODULE CheckpointedLedgerProofs -----------------------
(***************************************************************************)
(* Theorems about the ledger for any number of processes, ledgers and      *)
(* events and for ledgers of any length.                                   *)
(***************************************************************************)
EXTENDS CheckpointedLedger, TLAPS

\* IsPrefix compares the common positions.
LEMMA PrefixByPosition ==
  ASSUME NEW S, NEW s \in Seq(S), NEW t \in Seq(S)
  PROVE  IsPrefix(s, t) <=> /\ Len(s) <= Len(t)
                            /\ \A i \in 1..Len(s) : s[i] = t[i]
<1>1. ASSUME Len(s) <= Len(t)
      PROVE  SubSeq(t, 1, Len(s)) = SubSeq(s, 1, Len(s)) <=> \A i \in 1..Len(s) : s[i] = t[i]
  BY <1>1
<1>. QED BY <1>1 DEF IsPrefix

LEMMA PrefixReflexive ==
  ASSUME NEW S, NEW s \in Seq(S)
  PROVE  IsPrefix(s, s)
BY PrefixByPosition

LEMMA PrefixTransitive ==
  ASSUME NEW S, NEW s \in Seq(S), NEW t \in Seq(S), NEW u \in Seq(S),
         IsPrefix(s, t), IsPrefix(t, u)
  PROVE  IsPrefix(s, u)
<1>1. Len(s) <= Len(t) /\ Len(t) <= Len(u)
  BY PrefixByPosition
<1>2. \A i \in 1..Len(s) : s[i] = t[i]
  BY PrefixByPosition
<1>3. \A i \in 1..Len(t) : t[i] = u[i]
  BY PrefixByPosition
<1>4. Len(s) \in Nat /\ Len(t) \in Nat /\ Len(u) \in Nat
  OBVIOUS
<1>5. \A i \in 1..Len(s) : s[i] = u[i]
  BY <1>1, <1>2, <1>3, <1>4
<1>. QED BY <1>1, <1>4, <1>5, PrefixByPosition

\* A ledger is a prefix of what it becomes when a batch is appended.
LEMMA PrefixOfConcat ==
  ASSUME NEW S, NEW s \in Seq(S), NEW t \in Seq(S)
  PROVE  /\ s \o t \in Seq(S)
         /\ IsPrefix(s, s \o t)
<1> DEFINE u == s \o t
<1>1. u \in Seq(S) /\ Len(u) = Len(s) + Len(t)
  OBVIOUS
<1>2. Len(s) \in Nat /\ Len(t) \in Nat
  OBVIOUS
<1>3. \A i \in 1..Len(s) : s[i] = u[i]
  OBVIOUS
<1>4. Len(s) <= Len(u)
  BY <1>1, <1>2
<1> HIDE DEF u
<1>5. IsPrefix(s, u)
  BY <1>1, <1>3, <1>4, PrefixByPosition
<1>. QED BY <1>1, <1>5 DEF u

-----------------------------------------------------------------------------
(***************************************************************************)
(* The inductive invariant.  The lock makes the holder the only process    *)
(* past "idle"; what the holder verified stays true until it commits; and  *)
(* the three files of a ledger are ordered by length.                      *)
(***************************************************************************)
LockInv == \A p \in Proc : phase[p] # "idle" => lock = p

OpenInv == \A p \in Proc : phase[p] = "open" => Verified(target[p])

WitnessedInv ==
  \A p \in Proc : phase[p] = "witnessed" => rows[target[p]] \in history[target[p]]

IInv ==
  /\ TypeOK
  /\ LockInv
  /\ OpenInv
  /\ WitnessedInv
  /\ WitnessNeverAhead
  /\ CurrentIsArchived
  /\ AcknowledgedIsWitnessed
  /\ TornMeansBlocked

\* An unfinished exclusive create touches one ledger: it adds at most the
\* length of that ledger to torn or its rows to history.
LEMMA RemainsEffect ==
  ASSUME TypeOK, NEW l \in LedgerId, HistoryRemains(l)
  PROVE  /\ history' \in [LedgerId -> SUBSET Seq(Event)]
         /\ torn' \in [LedgerId -> SUBSET Nat]
         /\ \A m \in LedgerId : history[m] \subseteq history'[m]
         /\ \A m \in LedgerId : m # l => history'[m] = history[m] /\ torn'[m] = torn[m]
         /\ \A h \in history'[l] : h \in history[l] \/ h = rows[l]
         /\ \A n \in torn'[l] : n \in torn[l] \/ n = Len(rows[l])
<1>1. CASE UNCHANGED <<history, torn>>
  BY <1>1 DEF TypeOK
<1>2. CASE /\ torn' = [torn EXCEPT ![l] = @ \cup {Len(rows[l])}]
           /\ UNCHANGED history
  <2>1. Len(rows[l]) \in Nat
    BY DEF TypeOK
  <2>2. torn[l] \cup {Len(rows[l])} \in SUBSET Nat
    BY <2>1 DEF TypeOK
  <2>. QED BY <1>2, <2>1, <2>2 DEF TypeOK
<1>3. CASE /\ history' = [history EXCEPT ![l] = @ \cup {rows[l]}]
           /\ UNCHANGED torn
  BY <1>3 DEF TypeOK
<1>. QED BY <1>1, <1>2, <1>3 DEF HistoryRemains

(***************************************************************************)
(* All seven ways out of a transaction have the same shape: the process    *)
(* leaves, rows stay as they are, and the files of its own ledger moved at *)
(* most one write forward.                                                 *)
(***************************************************************************)
FilesAdvance(p) ==
  LET l == target[p] IN
  \/ UNCHANGED files
  \/ /\ phase[p] = "committed"
     /\ rows[l] # <<>>
     /\ ~Archived(l)
     /\ HistoryRemains(l)
     /\ UNCHANGED current
  \/ /\ phase[p] = "witnessed"
     /\ current' = [current EXCEPT ![l] = rows[l]]
     /\ UNCHANGED <<history, torn>>

Exit(p) ==
  /\ phase[p] # "idle"
  /\ Leave(p)
  /\ UNCHANGED rows
  /\ FilesAdvance(p)
  /\ \/ UNCHANGED acked
     \/ /\ acked' = [acked EXCEPT ![target[p]] = rows[target[p]]]
        /\ current' = [current EXCEPT ![target[p]] = rows[target[p]]]
  /\ failed' \in {failed, failed \cup {target[p]}}

LEMMA ExitActions ==
  ASSUME NEW p \in Proc,
         \/ Rollback(p) \/ NothingToWitness(p) \/ HistoryConflict(p) \/ FailHistory(p)
         \/ ReplaceCurrent(p) \/ FailReplace(p) \/ Crash(p)
  PROVE  Exit(p)
<1>1. CASE Rollback(p)
  BY <1>1 DEF Rollback, Exit, FilesAdvance
<1>2. CASE NothingToWitness(p)
  BY <1>2 DEF NothingToWitness, Exit, FilesAdvance
<1>3. CASE HistoryConflict(p)
  BY <1>3 DEF HistoryConflict, Exit, FilesAdvance
<1>4. CASE FailHistory(p)
  BY <1>4 DEF FailHistory, Exit, FilesAdvance
<1>5. CASE ReplaceCurrent(p)
  BY <1>5 DEF ReplaceCurrent, Exit, FilesAdvance
<1>6. CASE FailReplace(p)
  BY <1>6 DEF FailReplace, Exit, FilesAdvance, files
<1>7. CASE Crash(p)
  BY <1>7 DEF Crash, Exit, FilesAdvance
<1>. QED BY <1>1, <1>2, <1>3, <1>4, <1>5, <1>6, <1>7

\* Every step of the system is one of these.
LEMMA StepShapes ==
  ASSUME [Next]_vars
  PROVE  \/ \E p \in Proc, l \in LedgerId : Begin(p, l)
         \/ \E p \in Proc, e \in Event : Audit(p, e)
         \/ \E p \in Proc : Commit(p)
         \/ \E p \in Proc : WriteHistory(p)
         \/ \E p \in Proc : Exit(p)
         \/ UNCHANGED vars
BY ExitActions DEF Next, Step

\* The files keep their types whichever write an exit got to.
LEMMA FilesAdvanceType ==
  ASSUME TypeOK, NEW p \in Proc, FilesAdvance(p)
  PROVE  /\ current' \in [LedgerId -> Seq(Event)]
         /\ history' \in [LedgerId -> SUBSET Seq(Event)]
         /\ torn' \in [LedgerId -> SUBSET Nat]
<1>1. target[p] \in LedgerId
  BY DEF TypeOK
<1>2. CASE UNCHANGED files
  BY <1>2 DEF files, TypeOK
<1>3. CASE HistoryRemains(target[p]) /\ UNCHANGED current
  BY <1>1, <1>3, RemainsEffect DEF TypeOK
<1>4. CASE /\ current' = [current EXCEPT ![target[p]] = rows[target[p]]]
           /\ UNCHANGED <<history, torn>>
  BY <1>1, <1>4 DEF TypeOK
<1>. QED BY <1>2, <1>3, <1>4 DEF FilesAdvance

LEMMA ExitType ==
  ASSUME TypeOK, NEW p \in Proc, Exit(p)
  PROVE  TypeOK'
<1>1. target[p] \in LedgerId
  BY DEF TypeOK
<1>2. lock' \in Proc \cup {None} /\ phase' \in [Proc -> Phase] /\ batch' \in [Proc -> Seq(Event)]
  BY DEF Exit, Leave, TypeOK, Phase
<1>3. UNCHANGED <<target, rows>>
  BY DEF Exit, Leave
<1>4. acked' \in [LedgerId -> Seq(Event)]
  BY <1>1 DEF Exit, TypeOK
<1>5. failed' \in SUBSET LedgerId
  BY <1>1 DEF Exit, TypeOK
<1>6. FilesAdvance(p)
  BY DEF Exit
<1>. QED BY <1>2, <1>3, <1>4, <1>5, <1>6, FilesAdvanceType DEF TypeOK

LEMMA TypeStep == TypeOK /\ [Next]_vars => TypeOK'
<1> SUFFICES ASSUME TypeOK, [Next]_vars PROVE TypeOK'
  OBVIOUS
<1>1. ASSUME NEW p \in Proc, NEW l \in LedgerId, Begin(p, l) PROVE TypeOK'
  BY <1>1 DEF Begin, files, TypeOK, Phase
<1>2. ASSUME NEW p \in Proc, NEW e \in Event, Audit(p, e) PROVE TypeOK'
  BY <1>2 DEF Audit, files, TypeOK
<1>3. ASSUME NEW p \in Proc, Commit(p) PROVE TypeOK'
  <2>1. rows' \in [LedgerId -> Seq(Event)]
    BY <1>3, PrefixOfConcat DEF Commit, TypeOK
  <2>. QED BY <1>3, <2>1 DEF Commit, files, TypeOK, Phase
<1>4. ASSUME NEW p \in Proc, WriteHistory(p) PROVE TypeOK'
  BY <1>4 DEF WriteHistory, TypeOK, Phase
<1>5. CASE UNCHANGED vars
  BY <1>5 DEF vars, TypeOK
<1>. QED BY <1>1, <1>2, <1>3, <1>4, <1>5, ExitType, StepShapes

\* Every variable keeps its type.
THEOREM TypeCorrect == Spec => []TypeOK
<1>1. Init => TypeOK
  BY DEF Init, TypeOK, Phase
<1>. QED BY <1>1, TypeStep, PTL DEF Spec

-----------------------------------------------------------------------------
\* Only the lock holder is past "idle".
LEMMA OthersIdle ==
  ASSUME LockInv, NEW p \in Proc, phase[p] # "idle", NEW q \in Proc, q # p
  PROVE  phase[q] = "idle"
BY DEF LockInv

\* Until it commits, the holder's ledger is one whose checkpoint is complete.
LEMMA BeginInvariant ==
  ASSUME IInv, TypeOK', NEW p \in Proc, NEW l \in LedgerId, Begin(p, l)
  PROVE  IInv'
<1> USE DEF IInv
<1>1. UNCHANGED <<rows, current, history, torn, acked>>
  BY DEF Begin, files
<1>2. /\ phase'[p] = "open" /\ target'[p] = l /\ lock' = p
      /\ \A q \in Proc : q # p => phase'[q] = "idle"
      /\ \A q \in Proc : phase[q] = "idle"
  BY NoneAssumption DEF Begin, TypeOK, LockInv
<1>3. \A m \in LedgerId : ~Checkpointing(m) /\ ~Checkpointing(m)'
  BY <1>2 DEF Checkpointing
<1>4. TornMeansBlocked'
  BY <1>1, <1>3 DEF TornMeansBlocked, Blocked, Verified
<1>5. OpenInv'
  BY <1>1, <1>2 DEF OpenInv, Verified, Begin
<1>6. WitnessNeverAhead' /\ CurrentIsArchived' /\ AcknowledgedIsWitnessed'
  BY <1>1 DEF WitnessNeverAhead, CurrentIsArchived, AcknowledgedIsWitnessed
<1>. QED BY <1>2, <1>4, <1>5, <1>6 DEF LockInv, WitnessedInv

LEMMA AuditInvariant ==
  ASSUME IInv, TypeOK', NEW p \in Proc, NEW e \in Event, Audit(p, e)
  PROVE  IInv'
<1> USE DEF IInv
<1>1. UNCHANGED <<lock, phase, target, rows, current, history, torn, acked>>
  BY DEF Audit, files
<1>. QED BY <1>1 DEF LockInv, OpenInv, WitnessedInv, Verified, WitnessNeverAhead,
                     CurrentIsArchived, AcknowledgedIsWitnessed, TornMeansBlocked,
                     Blocked, Checkpointing

\* What a commit does to the ledgers: one grows, and that one had no torn file.
LEMMA CommitEffect ==
  ASSUME IInv, NEW p \in Proc, Commit(p)
  PROVE  /\ target[p] \in LedgerId
         /\ \A m \in LedgerId : IsPrefix(rows[m], rows'[m])
         /\ \A m \in LedgerId : m # target[p] => rows'[m] = rows[m]
         /\ torn[target[p]] = {}
<1>1. target[p] \in LedgerId /\ batch[p] \in Seq(Event)
  BY DEF IInv, TypeOK
<1>2. rows' = [rows EXCEPT ![target[p]] = @ \o batch[p]]
  BY DEF Commit
<1>3. \A m \in LedgerId : rows[m] \in Seq(Event)
  BY DEF IInv, TypeOK
<1>4. ASSUME NEW m \in LedgerId, m # target[p] PROVE rows'[m] = rows[m]
  BY <1>2, <1>4 DEF IInv, TypeOK
<1>5. rows'[target[p]] = rows[target[p]] \o batch[p]
  BY <1>1, <1>2 DEF IInv, TypeOK
<1>6. IsPrefix(rows[target[p]], rows'[target[p]])
  BY <1>1, <1>3, <1>5, PrefixOfConcat
<1>7. \A m \in LedgerId : IsPrefix(rows[m], rows'[m])
  BY <1>3, <1>4, <1>6, PrefixReflexive
<1>8. Verified(target[p])
  BY DEF Commit, IInv, OpenInv
<1>9. torn[target[p]] = {}
  BY <1>1, <1>8 DEF IInv, TornMeansBlocked, Blocked, TypeOK
<1>. QED BY <1>1, <1>4, <1>7, <1>9

LEMMA CommitInvariant ==
  ASSUME IInv, TypeOK', NEW p \in Proc, Commit(p)
  PROVE  IInv'
<1>1. UNCHANGED <<lock, target, current, history, torn, acked>>
  BY DEF Commit, files
<1>2. phase[p] = "open" /\ phase' = [phase EXCEPT ![p] = "committed"]
  BY DEF Commit
<1>3. /\ phase'[p] = "committed"
      /\ \A q \in Proc : q # p => phase'[q] = "idle"
  BY <1>2, OthersIdle DEF IInv, TypeOK
<1>4. LockInv' /\ OpenInv' /\ WitnessedInv'
  BY <1>1, <1>2, <1>3 DEF IInv, LockInv, OpenInv, WitnessedInv
<1>5. ASSUME NEW l \in LedgerId
      PROVE  /\ IsPrefix(current[l], rows'[l])
             /\ \A h \in history[l] : IsPrefix(h, rows'[l])
  <2>1. /\ current[l] \in Seq(Event) /\ rows[l] \in Seq(Event) /\ rows'[l] \in Seq(Event)
        /\ \A h \in history[l] : h \in Seq(Event)
    BY DEF IInv, TypeOK
  <2>2. IsPrefix(rows[l], rows'[l])
    BY CommitEffect
  <2>. QED BY <2>1, <2>2, PrefixTransitive DEF IInv, WitnessNeverAhead
<1>6. WitnessNeverAhead'
  BY <1>1, <1>5 DEF WitnessNeverAhead
<1>7. CurrentIsArchived' /\ AcknowledgedIsWitnessed'
  BY <1>1 DEF IInv, CurrentIsArchived, AcknowledgedIsWitnessed
<1>8. ASSUME NEW l \in LedgerId, NEW n \in torn[l]
      PROVE  Blocked(l)' /\ n = Len(rows'[l])
  <2>1. l # target[p]
    BY CommitEffect
  <2>2. rows'[l] = rows[l]
    BY <2>1, CommitEffect
  <2>3. ~Checkpointing(l)'
    BY <1>1, <1>3, <2>1 DEF Checkpointing
  <2>. QED BY <1>1, <2>2, <2>3 DEF IInv, TornMeansBlocked, Blocked, Verified
<1>9. TornMeansBlocked'
  BY <1>1, <1>8 DEF TornMeansBlocked
<1>. QED BY <1>4, <1>6, <1>7, <1>9 DEF IInv

LEMMA WriteHistoryInvariant ==
  ASSUME IInv, TypeOK', NEW p \in Proc, WriteHistory(p)
  PROVE  IInv'
<1> DEFINE l == target[p]
<1>1. UNCHANGED <<lock, target, rows, current, torn, acked>>
  BY DEF WriteHistory
<1>2. /\ phase[p] = "committed" /\ phase' = [phase EXCEPT ![p] = "witnessed"]
      /\ history' = [history EXCEPT ![l] = @ \cup {rows[l]}]
  BY DEF WriteHistory
<1>3. /\ phase'[p] = "witnessed"
      /\ \A q \in Proc : q # p => phase[q] = "idle" /\ phase'[q] = "idle"
  BY <1>2, OthersIdle DEF IInv, TypeOK
<1>4. /\ l \in LedgerId /\ rows[l] \in Seq(Event)
      /\ history'[l] = history[l] \cup {rows[l]}
      /\ \A m \in LedgerId : m # l => history'[m] = history[m]
  BY <1>2 DEF IInv, TypeOK
<1>5. LockInv' /\ OpenInv' /\ WitnessedInv'
  BY <1>1, <1>2, <1>3, <1>4 DEF IInv, LockInv, OpenInv, WitnessedInv
<1>6. IsPrefix(rows[l], rows[l])
  BY <1>4, PrefixReflexive
<1>7. WitnessNeverAhead'
  BY <1>1, <1>4, <1>6 DEF IInv, WitnessNeverAhead
<1>8. CurrentIsArchived' /\ AcknowledgedIsWitnessed'
  BY <1>1, <1>4 DEF IInv, CurrentIsArchived, AcknowledgedIsWitnessed
<1>9. \A m \in LedgerId : Checkpointing(m) <=> Checkpointing(m)'
  BY <1>1, <1>2, <1>3 DEF Checkpointing
<1>10. TornMeansBlocked'
  BY <1>1, <1>9 DEF IInv, TornMeansBlocked, Blocked, Verified
<1>. QED BY <1>5, <1>7, <1>8, <1>10 DEF IInv

\* What an exit leaves of the ledger it worked on.
LEMMA ExitEffect ==
  ASSUME IInv, NEW p \in Proc, Exit(p)
  PROVE  /\ target[p] \in LedgerId
         /\ UNCHANGED <<target, rows>>
         /\ lock' = None
         /\ \A q \in Proc : phase'[q] = "idle"
         /\ \A m \in LedgerId : ~Checkpointing(m)'
         /\ \A m \in LedgerId : m # target[p] => /\ current'[m] = current[m]
                                                 /\ history'[m] = history[m]
                                                 /\ torn'[m] = torn[m]
                                                 /\ acked'[m] = acked[m]
<1>1. target[p] \in LedgerId
  BY DEF IInv, TypeOK
<1>2. UNCHANGED <<target, rows>> /\ lock' = None
  BY DEF Exit, Leave
<1>3. \A q \in Proc : phase'[q] = "idle"
  <2>1. phase' = [phase EXCEPT ![p] = "idle"] /\ phase[p] # "idle"
    BY DEF Exit, Leave
  <2>. QED BY <2>1, OthersIdle DEF IInv, TypeOK
<1>4. \A m \in LedgerId : ~Checkpointing(m)'
  BY <1>3 DEF Checkpointing
<1>5. ASSUME NEW m \in LedgerId, m # target[p]
      PROVE  current'[m] = current[m] /\ history'[m] = history[m] /\ torn'[m] = torn[m]
  <2>1. TypeOK /\ FilesAdvance(p)
    BY DEF IInv, Exit
  <2>2. CASE UNCHANGED files
    BY <2>2 DEF files
  <2>3. CASE HistoryRemains(target[p]) /\ UNCHANGED current
    BY <1>1, <1>5, <2>1, <2>3, RemainsEffect
  <2>4. CASE /\ current' = [current EXCEPT ![target[p]] = rows[target[p]]]
             /\ UNCHANGED <<history, torn>>
    BY <1>5, <2>1, <2>4 DEF TypeOK
  <2>. QED BY <2>1, <2>2, <2>3, <2>4 DEF FilesAdvance
<1>6. ASSUME NEW m \in LedgerId, m # target[p]
      PROVE  acked'[m] = acked[m]
  BY <1>1, <1>6 DEF Exit, IInv, TypeOK
<1>. QED BY <1>1, <1>2, <1>3, <1>4, <1>5, <1>6

\* The ledger the exit worked on: its checkpoint stays, or now covers its rows.
LEMMA ExitOwnLedger ==
  ASSUME IInv, NEW p \in Proc, Exit(p)
  PROVE  LET l == target[p] IN
         /\ \/ current'[l] = current[l]
            \/ /\ current'[l] = rows[l]
               /\ IsPrefix(current[l], current'[l])
         /\ current'[l] # <<>> => current'[l] \in history'[l]
         /\ \A h \in history'[l] : h \in history[l] \/ h = rows[l]
         /\ \A n \in torn'[l] : current'[l] # rows[l] /\ n = Len(rows[l])
         /\ IsPrefix(acked'[l], current'[l])
<1> DEFINE l == target[p]
<1>1. /\ l \in LedgerId /\ TypeOK /\ FilesAdvance(p)
      /\ rows[l] \in Seq(Event) /\ current[l] \in Seq(Event) /\ acked[l] \in Seq(Event)
  BY DEF IInv, TypeOK, Exit
<1>2. /\ IsPrefix(current[l], rows[l])
      /\ IsPrefix(acked[l], current[l])
      /\ current[l] # <<>> => current[l] \in history[l]
      /\ \A n \in torn[l] : Blocked(l) /\ n = Len(rows[l])
  BY <1>1 DEF IInv, WitnessNeverAhead, AcknowledgedIsWitnessed, CurrentIsArchived,
              TornMeansBlocked
<1>3. IsPrefix(rows[l], rows[l])
  BY <1>1, PrefixReflexive
<1>4. IsPrefix(acked[l], rows[l])
  BY <1>1, <1>2, PrefixTransitive
<1>5. \/ current'[l] = current[l]
      \/ current'[l] = rows[l] /\ IsPrefix(current[l], current'[l])
  <2>1. CASE UNCHANGED current
    BY <2>1
  <2>2. CASE current' = [current EXCEPT ![l] = rows[l]]
    BY <1>1, <1>2, <2>2 DEF TypeOK
  <2>. QED BY <1>1, <2>1, <2>2 DEF FilesAdvance, files
<1>6. IsPrefix(acked'[l], current'[l])
  <2>1. CASE UNCHANGED acked
    BY <1>2, <1>4, <1>5, <2>1
  <2>2. CASE /\ acked' = [acked EXCEPT ![l] = rows[l]]
             /\ current' = [current EXCEPT ![l] = rows[l]]
    BY <1>1, <1>3, <2>2 DEF TypeOK
  <2>. QED BY <2>1, <2>2 DEF Exit
<1>7. CASE UNCHANGED files
  BY <1>2, <1>5, <1>6, <1>7 DEF files, Blocked, Verified
<1>8. CASE /\ rows[l] # <<>> /\ ~Archived(l)
           /\ HistoryRemains(l) /\ UNCHANGED current
  <2>1. /\ history[l] \subseteq history'[l]
        /\ \A h \in history'[l] : h \in history[l] \/ h = rows[l]
        /\ \A n \in torn'[l] : n \in torn[l] \/ n = Len(rows[l])
    BY <1>1, <1>8, RemainsEffect
  <2>2. current[l] # rows[l]
    BY <1>2, <1>8 DEF Archived
  <2>. QED BY <1>2, <1>5, <1>6, <1>8, <2>1, <2>2
<1>9. CASE /\ phase[p] = "witnessed"
           /\ current' = [current EXCEPT ![l] = rows[l]]
           /\ UNCHANGED <<history, torn>>
  <2>1. current'[l] = rows[l]
    BY <1>1, <1>9 DEF TypeOK
  <2>2. rows[l] \in history[l]
    BY <1>9 DEF IInv, WitnessedInv
  <2>3. torn[l] = {}
    BY <1>2, <1>9 DEF Blocked, Checkpointing
  <2>. QED BY <1>5, <1>6, <1>9, <2>1, <2>2, <2>3
<1>. QED BY <1>1, <1>7, <1>8, <1>9 DEF FilesAdvance

LEMMA ExitInvariant ==
  ASSUME IInv, TypeOK', NEW p \in Proc, Exit(p)
  PROVE  IInv'
<1> DEFINE l == target[p]
<1>1. LockInv' /\ OpenInv' /\ WitnessedInv'
  BY ExitEffect DEF LockInv, OpenInv, WitnessedInv
<1>2. ASSUME NEW m \in LedgerId
      PROVE  /\ IsPrefix(current'[m], rows'[m])
             /\ \A h \in history'[m] : IsPrefix(h, rows'[m])
             /\ current'[m] # <<>> => current'[m] \in history'[m]
             /\ IsPrefix(acked'[m], current'[m])
             /\ \A n \in torn'[m] : Blocked(m)' /\ n = Len(rows'[m])
  <2>1. /\ IsPrefix(current[m], rows[m]) /\ IsPrefix(acked[m], current[m])
        /\ \A h \in history[m] : IsPrefix(h, rows[m])
        /\ current[m] # <<>> => current[m] \in history[m]
        /\ \A n \in torn[m] : Blocked(m) /\ n = Len(rows[m])
    BY DEF IInv, WitnessNeverAhead, CurrentIsArchived, AcknowledgedIsWitnessed,
           TornMeansBlocked
  <2>2. rows' = rows /\ ~Checkpointing(m)'
    BY ExitEffect
  <2>3. CASE m # l
    <3>1. /\ current'[m] = current[m] /\ history'[m] = history[m]
          /\ torn'[m] = torn[m] /\ acked'[m] = acked[m]
      BY <2>3, ExitEffect
    <3>. QED BY <2>1, <2>2, <3>1 DEF Blocked, Verified
  <2>4. CASE m = l
    <3>1. IsPrefix(rows[l], rows[l])
      BY <2>4, PrefixReflexive DEF IInv, TypeOK
    <3>2. /\ current'[l] = current[l] \/ current'[l] = rows[l]
          /\ current'[l] # <<>> => current'[l] \in history'[l]
          /\ \A h \in history'[l] : h \in history[l] \/ h = rows[l]
          /\ \A n \in torn'[l] : current'[l] # rows[l] /\ n = Len(rows[l])
          /\ IsPrefix(acked'[l], current'[l])
      BY ExitOwnLedger
    <3>. QED BY <2>1, <2>2, <2>4, <3>1, <3>2 DEF Blocked, Verified
  <2>. QED BY <2>3, <2>4
<1>3. /\ WitnessNeverAhead' /\ CurrentIsArchived' /\ AcknowledgedIsWitnessed'
      /\ TornMeansBlocked'
  BY <1>2 DEF WitnessNeverAhead, CurrentIsArchived, AcknowledgedIsWitnessed,
              TornMeansBlocked
<1>. QED BY <1>1, <1>3 DEF IInv

LEMMA Invariance == IInv /\ [Next]_vars => IInv'
<1> SUFFICES ASSUME IInv, [Next]_vars PROVE IInv'
  OBVIOUS
<1>1. TypeOK'
  BY TypeStep DEF IInv
<1>2. CASE UNCHANGED vars
  BY <1>1, <1>2
  DEF IInv, vars, LockInv, OpenInv, WitnessedInv, Verified, WitnessNeverAhead,
      CurrentIsArchived, AcknowledgedIsWitnessed, TornMeansBlocked, Blocked, Checkpointing
<1>. QED
  BY <1>1, <1>2, StepShapes, BeginInvariant, AuditInvariant, CommitInvariant,
     WriteHistoryInvariant, ExitInvariant

\* The inductive invariant holds initially and for ever.
THEOREM LedgerInvariant == Spec => []IInv
<1>1. Init => IInv
  <2> SUFFICES ASSUME Init PROVE IInv
    OBVIOUS
  <2>1. IsPrefix(<<>>, <<>>)
    <3>1. <<>> \in Seq(Event)
      OBVIOUS
    <3>. QED BY <3>1, PrefixReflexive
  <2>2. TypeOK
    BY DEF Init, TypeOK, Phase
  <2>. QED
    BY <2>1, <2>2
    DEF Init, IInv, LockInv, OpenInv, WitnessedInv, Verified, WitnessNeverAhead,
        CurrentIsArchived, AcknowledgedIsWitnessed, TornMeansBlocked, Blocked
<1>. QED BY <1>1, Invariance, PTL DEF Spec

\* store.py, checkpoint(): whatever a crash or an I/O error leaves behind, no
\* signed checkpoint covers a row that is not committed.
THEOREM WitnessSafety == Spec => []WitnessNeverAhead
BY LedgerInvariant, PTL DEF IInv

\* Every transaction that returned stays covered by the current checkpoint.
THEOREM AcknowledgementSafety == Spec => []AcknowledgedIsWitnessed
BY LedgerInvariant, PTL DEF IInv

\* audit_view may read the history file of the length it pins.
THEOREM ArchiveSafety == Spec => []CurrentIsArchived
BY LedgerInvariant, PTL DEF IInv

\* checkpoint() never meets an unreadable history file.
THEOREM TornFilesAreOutOfReach == Spec => []TornMeansBlocked
BY LedgerInvariant, PTL DEF IInv

-----------------------------------------------------------------------------
\* Nobody is inside a transaction of a ledger that is out of service.
LEMMA ActorIsNotBlocked ==
  ASSUME IInv, NEW p \in Proc, phase[p] # "idle"
  PROVE  ~Blocked(target[p])
<1>1. CASE phase[p] = "open"
  BY <1>1 DEF IInv, OpenInv, Blocked
<1>2. CASE phase[p] \in {"committed", "witnessed"}
  BY <1>2 DEF Blocked, Checkpointing
<1>. QED BY <1>1, <1>2 DEF IInv, TypeOK, Phase

\* Before the exit of a transaction, no checkpoint and no verdict changes.
LEMMA InnerStep ==
  ASSUME IInv,
         \/ \E p \in Proc, l \in LedgerId : Begin(p, l)
         \/ \E p \in Proc, e \in Event : Audit(p, e)
         \/ \E p \in Proc : Commit(p)
         \/ \E p \in Proc : WriteHistory(p)
         \/ UNCHANGED vars
  PROVE  /\ UNCHANGED current
         /\ \A m \in LedgerId : Blocked(m)' <=> Blocked(m)
         /\ \A m \in LedgerId : Blocked(m) => rows'[m] = rows[m] /\ history'[m] = history[m]
<1> DEFINE Goal == /\ UNCHANGED current
                   /\ \A m \in LedgerId : Blocked(m)' <=> Blocked(m)
                   /\ \A m \in LedgerId :
                        Blocked(m) => rows'[m] = rows[m] /\ history'[m] = history[m]
<1>1. ASSUME NEW p \in Proc, NEW l \in LedgerId, Begin(p, l) PROVE Goal
  <2>1. UNCHANGED <<rows, current, history>>
    BY <1>1 DEF Begin, files
  <2>2. /\ phase'[p] = "open"
        /\ \A q \in Proc : q # p => phase'[q] = "idle"
        /\ \A q \in Proc : phase[q] = "idle"
    BY <1>1, NoneAssumption DEF Begin, IInv, TypeOK, LockInv
  <2>3. \A m \in LedgerId : ~Checkpointing(m) /\ ~Checkpointing(m)'
    BY <2>2 DEF Checkpointing
  <2>. QED BY <2>1, <2>3 DEF Blocked, Verified
<1>2. ASSUME NEW p \in Proc, NEW e \in Event, Audit(p, e) PROVE Goal
  BY <1>2 DEF Audit, files, Blocked, Verified, Checkpointing
<1>3. ASSUME NEW p \in Proc, Commit(p) PROVE Goal
  <2>1. /\ UNCHANGED <<current, history, target>>
        /\ phase[p] = "open" /\ phase' = [phase EXCEPT ![p] = "committed"]
    BY <1>3 DEF Commit, files
  <2>2. /\ phase'[p] = "committed"
        /\ \A q \in Proc : q # p => phase[q] = "idle" /\ phase'[q] = "idle"
    BY <2>1, OthersIdle DEF IInv, TypeOK
  <2>3. ~Blocked(target[p]) /\ ~Blocked(target[p])'
    BY <2>1, <2>2, ActorIsNotBlocked DEF Blocked, Checkpointing
  <2>4. ASSUME NEW m \in LedgerId, m # target[p]
        PROVE  rows'[m] = rows[m] /\ (Blocked(m)' <=> Blocked(m))
    <3>1. rows'[m] = rows[m]
      BY <1>3, <2>4, CommitEffect
    <3>2. ~Checkpointing(m) /\ ~Checkpointing(m)'
      BY <2>1, <2>2, <2>4 DEF Checkpointing
    <3>. QED BY <2>1, <3>1, <3>2 DEF Blocked, Verified
  <2>. QED BY <2>1, <2>3, <2>4
<1>4. ASSUME NEW p \in Proc, WriteHistory(p) PROVE Goal
  <2>1. /\ UNCHANGED <<rows, current, target>>
        /\ phase[p] = "committed" /\ phase' = [phase EXCEPT ![p] = "witnessed"]
        /\ history' = [history EXCEPT ![target[p]] = @ \cup {rows[target[p]]}]
    BY <1>4 DEF WriteHistory
  <2>2. phase'[p] = "witnessed" /\ \A q \in Proc : q # p => phase'[q] = phase[q]
    BY <2>1 DEF IInv, TypeOK
  <2>3. \A m \in LedgerId : Checkpointing(m) <=> Checkpointing(m)'
    BY <2>1, <2>2 DEF Checkpointing
  <2>4. \A m \in LedgerId : Blocked(m) => history'[m] = history[m]
    BY <2>1, ActorIsNotBlocked DEF IInv, TypeOK
  <2>. QED BY <2>1, <2>3, <2>4 DEF Blocked, Verified
<1>5. CASE UNCHANGED vars
  BY <1>5 DEF vars, Blocked, Verified, Checkpointing
<1>. QED BY <1>1, <1>2, <1>3, <1>4, <1>5

\* An exit leaves every other ledger as it was.
LEMMA ExitElsewhere ==
  ASSUME IInv, NEW p \in Proc, Exit(p), NEW m \in LedgerId, m # target[p]
  PROVE  /\ rows'[m] = rows[m] /\ current'[m] = current[m] /\ history'[m] = history[m]
         /\ Blocked(m)' <=> Blocked(m)
<1>1. /\ rows'[m] = rows[m] /\ current'[m] = current[m] /\ history'[m] = history[m]
      /\ ~Checkpointing(m)'
  BY ExitEffect
<1>2. ~Checkpointing(m)
  <2>1. \A q \in Proc : q # p => phase[q] = "idle"
    BY OthersIdle DEF Exit, IInv
  <2>. QED BY <2>1 DEF Checkpointing
<1>. QED BY <1>1, <1>2 DEF Blocked, Verified

\* A ledger that lost a checkpoint fails closed for good.
THEOREM BlockedStaysBlocked == Spec => BlockedIsFinal
<1> DEFINE Final == \A l \in LedgerId :
                      Blocked(l) => /\ Blocked(l)'
                                    /\ rows'[l] = rows[l]
                                    /\ current'[l] = current[l]
                                    /\ history'[l] = history[l]
<1>1. ASSUME IInv, [Next]_vars PROVE Final
  <2>1. CASE \E p \in Proc : Exit(p)
    <3>1. PICK p \in Proc : Exit(p)
      BY <2>1
    <3>2. ~Blocked(target[p])
      BY <1>1, <3>1, ActorIsNotBlocked DEF Exit
    <3>. QED BY <1>1, <3>1, <3>2, ExitElsewhere
  <2>. QED BY <1>1, <2>1, StepShapes, InnerStep
<1>2. IInv /\ [Next]_vars => [Final]_vars
  BY <1>1
<1>. QED BY <1>2, LedgerInvariant, PTL DEF Spec, BlockedIsFinal

\* The lock, the rows and the checkpoint files implement the atomic ledger.
THEOREM LedgerRefinement == Spec => ImplementsAtomicLedger
<1>1. Init => Abs!AbsInit
  BY DEF Init, Abs!AbsInit, Blocked, Verified
<1>2. ASSUME IInv, [Next]_vars PROVE [Abs!AbsNext]_(Abs!absVars)
  <2>1. CASE \E p \in Proc : Exit(p)
    <3>1. PICK p \in Proc : Exit(p)
      BY <2>1
    <3>0. PICK l \in LedgerId : l = target[p]
      BY <1>2, <3>1, ExitEffect
    <3>2. rows'[l] = rows[l] /\ ~Blocked(l) /\ ~Checkpointing(l)'
      BY <1>2, <3>0, <3>1, ExitEffect, ActorIsNotBlocked DEF Exit
    <3>3. \A m \in LedgerId : m # l => current'[m] = current[m] /\ (Blocked(m)' <=> Blocked(m))
      BY <1>2, <3>0, <3>1, ExitElsewhere
    <3>4. \/ current'[l] = current[l]
          \/ current'[l] = rows[l] /\ IsPrefix(current[l], current'[l])
      BY <1>2, <3>0, <3>1, ExitOwnLedger
    <3>5. /\ current \in [LedgerId -> Seq(Event)] /\ current' \in [LedgerId -> Seq(Event)]
          /\ TypeOK'
      BY <1>2, TypeStep DEF IInv, TypeOK
    <3>6. CASE current'[l] = rows[l]
      <4>1. ~Blocked(l)'
        BY <3>2, <3>6 DEF Blocked, Verified
      <4>2. {m \in LedgerId : Blocked(m)}' = {m \in LedgerId : Blocked(m)}
        BY <3>2, <3>3, <4>1
      <4>3. CASE current'[l] = current[l]
        <5>1. current' = current
          BY <3>3, <3>5, <4>3
        <5>. QED BY <4>2, <5>1 DEF Abs!absVars
      <4>4. CASE IsPrefix(current[l], current'[l])
        <5>1. current' = [current EXCEPT ![l] = current'[l]]
          BY <3>2, <3>3, <3>5
        <5>2. Abs!Accept(l)
          BY <3>2, <3>5, <4>2, <4>4, <5>1 DEF Abs!Accept, Abs!IsPrefix, IsPrefix
        <5>. QED BY <3>2, <5>2 DEF Abs!AbsNext
      <4>. QED BY <3>4, <4>3, <4>4
    <3>7. CASE current'[l] # rows[l]
      <4>1. current' = current
        BY <3>3, <3>4, <3>5, <3>7
      <4>2. Blocked(l)'
        BY <3>2, <3>7 DEF Blocked, Verified
      <4>3. {m \in LedgerId : Blocked(m)}' = {m \in LedgerId : Blocked(m)} \cup {l}
        BY <3>2, <3>3, <4>2
      <4>4. Abs!Block(l)
        BY <3>2, <4>1, <4>3 DEF Abs!Block
      <4>. QED BY <3>2, <4>4 DEF Abs!AbsNext
    <3>. QED BY <3>6, <3>7
  <2>2. CASE ~(\E p \in Proc : Exit(p))
    <3>1. UNCHANGED current /\ \A m \in LedgerId : Blocked(m)' <=> Blocked(m)
      BY <1>2, <2>2, StepShapes, InnerStep
    <3>. QED BY <3>1 DEF Abs!absVars
  <2>. QED BY <2>1, <2>2
<1>. QED BY <1>1, <1>2, LedgerInvariant, PTL DEF Spec, ImplementsAtomicLedger, Abs!AbsSpec

-----------------------------------------------------------------------------
\* A head that joins the history had no archived rival of its length.
LEMMA NewHeadIsAlone ==
  ASSUME TypeOK, OneHeadPerLength, NEW l \in LedgerId,
         Archived(l) => rows[l] \in history[l],
         \A h \in history'[l] : h \in history[l] \/ h = rows[l],
         \A m \in LedgerId : m # l => history'[m] = history[m]
  PROVE  OneHeadPerLength'
<1>1. \A h \in history[l] : Len(h) = Len(rows[l]) => h = rows[l]
  BY DEF Archived, OneHeadPerLength
<1>2. \A g, h \in history'[l] : Len(g) = Len(h) => g = h
  BY <1>1 DEF OneHeadPerLength
<1>. QED BY <1>2 DEF OneHeadPerLength

\* checkpoint() never signs a second head for an archived length, even after
\* the host has put an older database and checkpoint back.
THEOREM ForksAreNotSigned == RewindSpec => []OneHeadPerLength
<1> DEFINE RNext == Next \/ \E l \in LedgerId : Rewind(l)
           RInv == TypeOK /\ OneHeadPerLength
<1>1. Init => RInv
  BY DEF Init, TypeOK, Phase, OneHeadPerLength
<1>2. ASSUME RInv, [RNext]_vars PROVE RInv'
  <2>1. ASSUME NEW p \in Proc, Exit(p) PROVE OneHeadPerLength'
    <3>1. PICK l \in LedgerId : l = target[p]
      BY <1>2 DEF TypeOK
    <3>2. CASE UNCHANGED history
      BY <1>2, <3>2 DEF OneHeadPerLength
    <3>3. CASE ~Archived(l) /\ HistoryRemains(l)
      BY <1>2, <3>3, RemainsEffect, NewHeadIsAlone
    <3>. QED BY <2>1, <3>1, <3>2, <3>3 DEF Exit, FilesAdvance, files
  <2>2. ASSUME NEW p \in Proc, WriteHistory(p) PROVE OneHeadPerLength'
    <3>1. PICK l \in LedgerId : l = target[p]
      BY <1>2 DEF TypeOK
    <3>2. /\ history' = [history EXCEPT ![l] = @ \cup {rows[l]}]
          /\ Archived(l) => rows[l] \in history[l]
      BY <2>2, <3>1 DEF WriteHistory
    <3>. QED BY <1>2, <3>2, NewHeadIsAlone DEF TypeOK
  <2>3. ASSUME UNCHANGED history PROVE OneHeadPerLength'
    BY <1>2, <2>3 DEF OneHeadPerLength
  <2>4. ASSUME NEW l \in LedgerId, Rewind(l) PROVE RInv'
    <3>1. TypeOK'
      BY <1>2, <2>4 DEF Rewind, TypeOK
    <3>. QED BY <2>3, <2>4, <3>1 DEF Rewind
  <2>5. ASSUME [Next]_vars PROVE OneHeadPerLength'
    BY <2>1, <2>2, <2>3, <2>5, StepShapes DEF Begin, Audit, Commit, files, vars
  <2>. QED BY <1>2, <2>4, <2>5, TypeStep
<1>3. RInv => OneHeadPerLength
  OBVIOUS
<1>. QED BY <1>1, <1>2, <1>3, PTL DEF RewindSpec
=============================================================================
