---------------------------- MODULE GatewayProofs ----------------------------
(***************************************************************************)
(* Proofs about Gateway, for every set of humans, decisions, processes and *)
(* releases, every policy and every bound.                                 *)
(***************************************************************************)
EXTENDS Gateway, FiniteSetTheorems, TLAPS

\* What every human or environment step leaves alone.
Passive == UNCHANGED <<execution, run, ghosts>> /\ (trusted' => trusted)

LEMMA PassiveSteps ==
  ASSUME TypeOK, Humans \/ Environment
  PROVE  Passive
<1> USE DEF Passive, Published, Lost, run, ghosts, TypeOK
<1>1. ASSUME NEW h \in Human, NEW d \in Decision, Propose(h, d) PROVE Passive
  BY <1>1 DEF Propose
<1>2. ASSUME NEW h \in Human, NEW d \in Decision, Reauthenticate(h, d) PROVE Passive
  BY <1>2 DEF Reauthenticate
<1>3. ASSUME NEW h \in Human, NEW d \in Decision, NEW v \in Verdict, SubmitReview(h, d, v)
      PROVE  Passive
  BY <1>3 DEF SubmitReview
<1>4. ASSUME NEW h \in Human, NEW d \in Decision, NEW by \in Human, Revoke(by, d, h)
      PROVE  Passive
  BY <1>4 DEF Revoke
<1>5. ASSUME NEW h \in Human, AbandonReview(h) PROVE Passive
  BY <1>5 DEF AbandonReview
<1>6. ASSUME NEW h \in Human, NEW r \in RoleChoices, NEW a \in BOOLEAN, ChangeUser(h, r, a)
      PROVE  Passive
  BY <1>6 DEF ChangeUser
<1>7. ASSUME NEW by \in Human, NEW h \in Human, NEW r \in BOOLEAN, Membership(by, h, r)
      PROVE  Passive
  BY <1>7 DEF Membership
<1>8. CASE Environment
  BY <1>8 DEF Environment, Expire, ChangeBuild, LoseCheckpoint
<1> QED BY <1>1, <1>2, <1>3, <1>4, <1>5, <1>6, <1>7, <1>8 DEF Humans

-----------------------------------------------------------------------------
LEMMA InitTypeOK == Init => TypeOK
  BY RolesAssumption, CreatorAssumption DEF Init, TypeOK, Account, Place

LEMMA PassiveTypeOK ==
  ASSUME TypeOK, Humans \/ Environment
  PROVE  TypeOK'
<1> USE DEF TypeOK, authority, record, run, ghosts, Published, Lost
<1>1. ASSUME NEW h \in Human, NEW d \in Decision, Propose(h, d) PROVE TypeOK'
  BY <1>1 DEF Propose
<1>2. ASSUME NEW h \in Human, NEW d \in Decision, Reauthenticate(h, d) PROVE TypeOK'
  BY <1>2 DEF Reauthenticate, Account
<1>3. ASSUME NEW h \in Human, NEW d \in Decision, NEW v \in Verdict, SubmitReview(h, d, v)
      PROVE  TypeOK'
  BY <1>3 DEF SubmitReview, Account, Review
<1>4. ASSUME NEW h \in Human, NEW d \in Decision, NEW by \in Human, Revoke(by, d, h)
      PROVE  TypeOK'
  <2>1. revoked' \in SUBSET (Decision \X Human)
    BY <1>4, <<d, h>> \in Decision \X Human DEF Revoke
  <2>2. trusted' \in BOOLEAN
    BY <1>4 DEF Revoke
  <2>3. UNCHANGED <<identity, member, build, expired, adminTrusted, decision, bound, reviews,
                    reviewing, execution, dispatch, pc, job, caller, calls, effects>>
    BY <1>4 DEF Revoke
  <2> HIDE DEF authority, record, run, ghosts, Published, Lost
  <2> QED BY <2>1, <2>2, <2>3
<1>5. ASSUME NEW h \in Human, AbandonReview(h) PROVE TypeOK'
  BY <1>5 DEF AbandonReview
<1>6. ASSUME NEW h \in Human, NEW r \in RoleChoices, NEW a \in BOOLEAN, ChangeUser(h, r, a)
      PROVE  TypeOK'
  <2>1. r \in SUBSET Role
    BY RoleChoicesAssumption
  <2>2. identity' \in [Human -> Account]
    <3> DEFINE new == [revision |-> identity[h].revision + 1, roles |-> r, active |-> a]
    <3>1. new \in Account
      BY <2>1 DEF Account
    <3>2. identity' = [identity EXCEPT ![h] = new]
      BY <1>6 DEF ChangeUser
    <3> QED BY <3>1, <3>2
  <2> QED BY <1>6, <2>2 DEF ChangeUser
<1>7. ASSUME NEW by \in Human, NEW h \in Human, NEW r \in BOOLEAN, Membership(by, h, r)
      PROVE  TypeOK'
  BY <1>7 DEF Membership
<1>8. CASE Environment
  <2>1. ASSUME NEW d \in Decision, Expire(d) PROVE TypeOK'
    BY <2>1 DEF Expire
  <2>2. ASSUME NEW b \in Build, ChangeBuild(b) PROVE TypeOK'
    BY <2>2 DEF ChangeBuild
  <2>3. CASE LoseCheckpoint
    BY <2>3 DEF LoseCheckpoint
  <2> QED BY <1>8, <2>1, <2>2, <2>3 DEF Environment
<1> QED BY <1>1, <1>2, <1>3, <1>4, <1>5, <1>6, <1>7, <1>8 DEF Humans

-----------------------------------------------------------------------------
\* A process that is at work holds dispatch.lock, for a recorded intent, which
\* is alive until its work begins; hence two processes are never at work together.
Control ==
  \A p \in Proc : pc[p] # "idle" =>
    /\ dispatch = p
    /\ job[p] \in Decision
    /\ caller[p] \in Human
    /\ execution[job[p]] # "NONE"
    /\ pc[p] = "reserved" => execution[job[p]] = "RUNNING"

\* How far each execution can have come, and that it came there after its intent.
Progress ==
  /\ AtMostOnce
  /\ \A d \in Decision : execution[d] = "NONE" => calls[d] = 0 /\ effects[d] = 0
  /\ \A p \in Proc : pc[p] \in {"reserved", "authorized"} => calls[job[p]] = 0
  /\ \A p \in Proc : pc[p] \in {"reserved", "authorized", "called", "answered"} =>
       effects[job[p]] = 0

LEMMA ReserveTypeOK ==
  ASSUME TypeOK, NEW p \in Proc, NEW h \in Human, NEW d \in Decision, Reserve(p, h, d)
  PROVE  TypeOK'
  BY DEF TypeOK, Reserve, authority, record, run, ghosts, Published, Lost, Place

LEMMA RecoverTypeOK ==
  ASSUME TypeOK, NEW d \in Decision, Recover(d)
  PROVE  TypeOK'
  BY DEF TypeOK, Recover, authority, record, run, ghosts, Published, Lost

LEMMA ReleaseTyped ==
  ASSUME TypeOK, NEW p \in Proc, Release(p)
  PROVE  /\ dispatch' \in Proc \cup {None}
         /\ job' \in [Proc -> Decision \cup {None}]
         /\ caller' \in [Proc -> Human \cup {None}]
  BY DEF TypeOK, Release

LEMMA EndsTyped ==
  ASSUME TypeOK, NEW p \in Proc, NEW next \in Place, NEW handler \in Place,
         Ends(p, next, handler)
  PROVE  /\ trusted' \in BOOLEAN
         /\ pc' \in [Proc -> Place]
         /\ pc'[p] \in {next, handler}
         /\ \A q \in Proc \ {p} : pc'[q] = pc[q]
  BY DEF TypeOK, Ends, Published, Lost

LEMMA WorkTypeOK ==
  ASSUME TypeOK, Control, NEW p \in Proc, Work(p) \/ Crash(p)
  PROVE  TypeOK'
<1> USE DEF TypeOK, Control, authority, record, run, ghosts, Place
<1>1. CASE RunLocal(p)
  <2>1. trusted' \in BOOLEAN /\ pc' \in [Proc -> Place]
    BY <1>1, EndsTyped, "idle" \in Place, "failing" \in Place DEF RunLocal
  <2>2. execution' \in [Decision -> {"NONE", "RUNNING", "COMPLETED", "FAILED", "OUTCOME_UNKNOWN"}]
    BY <1>1 DEF RunLocal
  <2>3. effects' \in [Decision -> Nat]
    BY <1>1 DEF RunLocal
  <2>4. UNCHANGED <<identity, member, build, expired, adminTrusted, decision, bound, reviews,
                    revoked, reviewing, calls>>
    BY <1>1 DEF RunLocal
  <2>5. /\ dispatch' \in Proc \cup {None}
        /\ job' \in [Proc -> Decision \cup {None}]
        /\ caller' \in [Proc -> Human \cup {None}]
    BY <1>1, ReleaseTyped DEF RunLocal
  <2> HIDE DEF authority, record, run, ghosts
  <2> QED BY <2>1, <2>2, <2>3, <2>4, <2>5
<1>2. CASE Authorize(p)
  BY <1>2 DEF Authorize, Ends, Published, Lost
<1>3. CASE WorkFails(p)
  BY <1>3 DEF WorkFails
<1>4. CASE CallProvider(p)
  BY <1>4 DEF CallProvider
<1>5. CASE ProviderAnswers(p)
  BY <1>5 DEF ProviderAnswers
<1>6. CASE ProviderFails(p)
  BY <1>6 DEF ProviderFails
<1>7. CASE Preserve(p)
  <2>1. trusted' \in BOOLEAN /\ pc' \in [Proc -> Place]
    BY <1>7, EndsTyped, "idle" \in Place, "lost" \in Place DEF Preserve
  <2>2. execution' \in [Decision -> {"NONE", "RUNNING", "COMPLETED", "FAILED", "OUTCOME_UNKNOWN"}]
    BY <1>7 DEF Preserve
  <2>3. effects' \in [Decision -> Nat]
    BY <1>7 DEF Preserve
  <2>4. UNCHANGED <<identity, member, build, expired, adminTrusted, decision, bound, reviews,
                    revoked, reviewing, calls>>
    BY <1>7 DEF Preserve
  <2>5. /\ dispatch' \in Proc \cup {None}
        /\ job' \in [Proc -> Decision \cup {None}]
        /\ caller' \in [Proc -> Human \cup {None}]
    BY <1>7, ReleaseTyped DEF Preserve
  <2> HIDE DEF authority, record, run, ghosts
  <2> QED BY <2>1, <2>2, <2>3, <2>4, <2>5
<1>8. CASE PreserveFails(p)
  BY <1>8 DEF PreserveFails
<1>9. CASE RecordFailure(p)
  BY <1>9 DEF RecordFailure, Ends, Published, Lost, Release
<1>10. CASE HandlerFails(p)
  <2>1. pc' \in [Proc -> Place]
    BY <1>10 DEF HandlerFails
  <2>2. UNCHANGED <<identity, member, build, expired, adminTrusted, decision, bound, reviews,
                    revoked, reviewing, calls, effects, execution,
                    trusted>>
    BY <1>10 DEF HandlerFails
  <2>3. /\ dispatch' \in Proc \cup {None}
        /\ job' \in [Proc -> Decision \cup {None}]
        /\ caller' \in [Proc -> Human \cup {None}]
    BY <1>10, ReleaseTyped DEF HandlerFails
  <2> HIDE DEF authority, record, run, ghosts
  <2> QED BY <2>1, <2>2, <2>3
<1>11. CASE Crash(p)
  <2>1. pc' \in [Proc -> Place]
    BY <1>11 DEF Crash
  <2>2. UNCHANGED <<identity, member, build, expired, adminTrusted, decision, bound, reviews,
                    revoked, reviewing, calls, effects, execution,
                    trusted>>
    BY <1>11 DEF Crash
  <2>3. /\ dispatch' \in Proc \cup {None}
        /\ job' \in [Proc -> Decision \cup {None}]
        /\ caller' \in [Proc -> Human \cup {None}]
    BY <1>11, ReleaseTyped DEF Crash
  <2> HIDE DEF authority, record, run, ghosts
  <2> QED BY <2>1, <2>2, <2>3
<1> QED BY <1>1, <1>2, <1>3, <1>4, <1>5, <1>6, <1>7, <1>8, <1>9, <1>10, <1>11 DEF Work

LEMMA WorkControl ==
  ASSUME TypeOK, Control, Progress, NEW p \in Proc, Work(p) \/ Crash(p)
  PROVE  Control'
<1> USE NoneNotProc DEF TypeOK, Control, Progress, run, ghosts, AtMostOnce, Place
<1>1. CASE RunLocal(p)
  BY <1>1 DEF RunLocal, Ends, Published, Lost, Release
<1>2. CASE Authorize(p)
  BY <1>2 DEF Authorize, Ends, Published, Lost
<1>3. CASE WorkFails(p)
  BY <1>3 DEF WorkFails
<1>4. CASE CallProvider(p)
  BY <1>4 DEF CallProvider
<1>5. CASE ProviderAnswers(p)
  BY <1>5 DEF ProviderAnswers
<1>6. CASE ProviderFails(p)
  BY <1>6 DEF ProviderFails
<1>7. CASE Preserve(p)
  <2>1. /\ pc[p] = "answered"
        /\ execution' = [execution EXCEPT ![job[p]] = "COMPLETED"]
    BY <1>7 DEF Preserve
  <2>2. /\ pc'[p] \in {"idle", "lost"}
        /\ \A q \in Proc \ {p} : pc'[q] = pc[q]
    BY <1>7, EndsTyped, "idle" \in Place, "lost" \in Place DEF Preserve
  <2>3. pc'[p] # "idle" => UNCHANGED <<dispatch, job, caller>>
    BY <1>7 DEF Preserve, Release
  <2>4. \A q \in Proc \ {p} : pc[q] = "idle"
    BY <2>1
  <2> QED BY <2>1, <2>2, <2>3, <2>4
<1>8. CASE PreserveFails(p)
  BY <1>8 DEF PreserveFails
<1>9. CASE RecordFailure(p)
  <2>1. \A q \in Proc : pc'[q] = "idle"
    BY <1>9 DEF RecordFailure, Ends
  <2> QED BY <2>1
<1>10. CASE HandlerFails(p)
  BY <1>10 DEF HandlerFails, Release
<1>11. CASE Crash(p)
  BY <1>11 DEF Crash, Release
<1> QED BY <1>1, <1>2, <1>3, <1>4, <1>5, <1>6, <1>7, <1>8, <1>9, <1>10, <1>11 DEF Work

LEMMA WorkProgress ==
  ASSUME TypeOK, Control, Progress, NEW p \in Proc, Work(p) \/ Crash(p)
  PROVE  Progress'
<1> USE NoneNotProc DEF TypeOK, Control, Progress, run, ghosts, AtMostOnce, Place
<1>1. CASE RunLocal(p)
  <2>1. \A q \in Proc : pc'[q] \in {"idle", "failing"}
    BY <1>1, EndsTyped, "idle" \in Place, "failing" \in Place DEF RunLocal
  <2>2. job[p] \in Decision /\ effects[job[p]] = 0
    BY <1>1 DEF RunLocal
  <2>3. /\ execution' = [execution EXCEPT ![job[p]] = "COMPLETED"]
        /\ effects' = [effects EXCEPT ![job[p]] = @ + 1]
        /\ UNCHANGED calls
    BY <1>1 DEF RunLocal
  <2> HIDE DEF Control
  <2> QED BY <2>1, <2>2, <2>3
<1>2. CASE Authorize(p)
  BY <1>2 DEF Authorize, Ends, Published, Lost
<1>3. CASE WorkFails(p)
  BY <1>3 DEF WorkFails
<1>4. CASE CallProvider(p)
  BY <1>4 DEF CallProvider
<1>5. CASE ProviderAnswers(p)
  BY <1>5 DEF ProviderAnswers
<1>6. CASE ProviderFails(p)
  BY <1>6 DEF ProviderFails
<1>7. CASE Preserve(p)
  <2>1. \A q \in Proc : pc'[q] \in {"idle", "lost"}
    BY <1>7, EndsTyped, "idle" \in Place, "lost" \in Place DEF Preserve
  <2>2. job[p] \in Decision /\ effects[job[p]] = 0
    BY <1>7 DEF Preserve
  <2>3. /\ execution' = [execution EXCEPT ![job[p]] = "COMPLETED"]
        /\ effects' = [effects EXCEPT ![job[p]] = @ + 1]
        /\ UNCHANGED calls
    BY <1>7 DEF Preserve
  <2>4. \A d \in Decision :
          /\ effects'[d] = IF d = job[p] THEN 1 ELSE effects[d]
          /\ execution'[d] = "NONE" => execution[d] = "NONE" /\ d # job[p]
    BY <2>2, <2>3
  <2> QED BY <2>1, <2>3, <2>4
<1>8. CASE PreserveFails(p)
  BY <1>8 DEF PreserveFails
<1>9. CASE RecordFailure(p)
  BY <1>9 DEF RecordFailure, Ends, Published, Lost, Release
<1>10. CASE HandlerFails(p)
  BY <1>10 DEF HandlerFails, Release
<1>11. CASE Crash(p)
  BY <1>11 DEF Crash, Release
<1> QED BY <1>1, <1>2, <1>3, <1>4, <1>5, <1>6, <1>7, <1>8, <1>9, <1>10, <1>11 DEF Work

LEMMA OtherControl ==
  ASSUME TypeOK, Control, Progress,
         \/ Passive
         \/ \E q \in Proc, h \in Human, d \in Decision : Reserve(q, h, d)
         \/ \E d \in Decision : Recover(d)
  PROVE  Control' /\ Progress'
<1> USE NoneNotProc DEF TypeOK, Control, Progress, AtMostOnce, run, ghosts
<1>1. CASE Passive
  BY <1>1 DEF Passive
<1>2. ASSUME NEW q \in Proc, NEW h \in Human, NEW d \in Decision, Reserve(q, h, d)
      PROVE  Control' /\ Progress'
  <2>1. /\ \A p \in Proc : pc[p] = "idle"
        /\ execution[d] = "NONE" /\ calls[d] = 0 /\ effects[d] = 0
        /\ execution' = [execution EXCEPT ![d] = "RUNNING"]
        /\ UNCHANGED <<calls, effects>>
    BY <1>2 DEF Reserve
  <2>2. CASE UNCHANGED run
    BY <2>1, <2>2
  <2>3. CASE ~UNCHANGED run
    <3>1. /\ pc' = [pc EXCEPT ![q] = "reserved"] /\ dispatch' = q
          /\ job' = [job EXCEPT ![q] = d] /\ caller' = [caller EXCEPT ![q] = h]
      BY <1>2, <2>3 DEF Reserve
    <3> QED BY <2>1, <3>1 DEF Place
  <2> QED BY <2>2, <2>3
<1>3. ASSUME NEW d \in Decision, Recover(d)
      PROVE  Control' /\ Progress'
  BY <1>3 DEF Recover
<1> QED BY <1>1, <1>2, <1>3

-----------------------------------------------------------------------------
LEMMA HistoryStep ==
  ASSUME TypeOK, Control, StateMatchesHistory, [Next]_vars
  PROVE  StateMatchesHistory'
<1> USE DEF TypeOK, StateMatchesHistory, Rejects, authority, record, run, ghosts
<1>1. ASSUME UNCHANGED <<decision, reviews, execution>> PROVE StateMatchesHistory'
  BY <1>1
<1>2. ASSUME NEW h \in Human, NEW d \in Decision, Propose(h, d) PROVE StateMatchesHistory'
  BY <1>2 DEF Propose
<1>3. ASSUME NEW h \in Human, NEW d \in Decision, NEW v \in Verdict, SubmitReview(h, d, v)
      PROVE  StateMatchesHistory'
  <2> DEFINE new == [verdict |-> v, revision |-> identity[h].revision]
  <2>1. new \in Review
    BY DEF Review, Account
  <2>2. /\ decision[d] = "PENDING"
        /\ reviews[d][h] = None
        /\ reviews' = [reviews EXCEPT ![d][h] = new]
        /\ decision' = IF v = "reject" THEN [decision EXCEPT ![d] = "REJECTED"] ELSE decision
        /\ execution' = execution
    BY <1>3 DEF SubmitReview
  <2>3. new # None /\ new.verdict = v
    BY <2>1, NoneNotReview
  <2> HIDE DEF new
  <2>4. \A e \in Decision, g \in Human :
          Rejects(e, g)' <=> IF e = d /\ g = h THEN v = "reject" ELSE Rejects(e, g)
    BY <2>2, <2>3
  <2> HIDE DEF Rejects
  <2>5. \A g \in Human : ~Rejects(d, g)
    BY <2>2
  <2>6. execution[d] = "NONE"
    BY <2>2
  <2>7. \A e \in Decision : decision'[e] = IF e = d /\ v = "reject" THEN "REJECTED" ELSE decision[e]
    BY <2>2
  <2>8. ASSUME NEW e \in Decision
        PROVE  decision'[e] = "REJECTED" <=> \E g \in Human : Rejects(e, g)'
    <3>1. CASE e # d
      BY <3>1, <2>4, <2>7
    <3>2. CASE e = d
      BY <3>2, <2>2, <2>4, <2>5, <2>7
    <3> QED BY <3>1, <3>2
  <2>9. \A e \in Decision : decision'[e] = "CONSUMED" <=> execution'[e] # "NONE"
    BY <2>2, <2>6, <2>7
  <2> QED BY <2>8, <2>9
<1>4. ASSUME NEW p \in Proc, NEW h \in Human, NEW d \in Decision, Reserve(p, h, d)
      PROVE  StateMatchesHistory'
  BY <1>4 DEF Reserve, Approved, Current
<1>5. ASSUME NEW p \in Proc, Work(p) \/ Crash(p) PROVE StateMatchesHistory'
  <2>1. /\ UNCHANGED <<decision, reviews>>
        /\ pc[p] # "idle"
        /\ \/ UNCHANGED execution
           \/ \E s \in {"COMPLETED", "FAILED", "OUTCOME_UNKNOWN"} :
                execution' = [execution EXCEPT ![job[p]] = s]
    BY <1>5 DEF Work, Crash, RunLocal, Authorize, WorkFails, CallProvider, ProviderAnswers,
                ProviderFails, Preserve, PreserveFails, RecordFailure, HandlerFails
  <2> QED BY <2>1 DEF Control
<1>6. ASSUME NEW d \in Decision, Recover(d) PROVE StateMatchesHistory'
  BY <1>6 DEF Recover
<1>7. CASE Humans
  <2>1. ASSUME NEW h \in Human, NEW d \in Decision, Reauthenticate(h, d) PROVE StateMatchesHistory'
    BY <2>1, <1>1 DEF Reauthenticate
  <2>2. ASSUME NEW h \in Human, NEW d \in Decision, NEW by \in Human, Revoke(by, d, h)
        PROVE  StateMatchesHistory'
    BY <2>2, <1>1 DEF Revoke
  <2>3. ASSUME NEW h \in Human, AbandonReview(h) PROVE StateMatchesHistory'
    BY <2>3, <1>1 DEF AbandonReview
  <2>4. ASSUME NEW h \in Human, NEW r \in RoleChoices, NEW a \in BOOLEAN, ChangeUser(h, r, a)
        PROVE  StateMatchesHistory'
    BY <2>4, <1>1 DEF ChangeUser
  <2>5. ASSUME NEW by \in Human, NEW h \in Human, NEW r \in BOOLEAN, Membership(by, h, r)
        PROVE  StateMatchesHistory'
    BY <2>5, <1>1 DEF Membership
  <2> QED BY <1>7, <1>2, <1>3, <2>1, <2>2, <2>3, <2>4, <2>5 DEF Humans
<1>8. CASE Environment
  BY <1>8, <1>1 DEF Environment, Expire, ChangeBuild, LoseCheckpoint
<1>9. CASE UNCHANGED vars
  BY <1>9, <1>1 DEF vars
<1> QED BY <1>4, <1>5, <1>6, <1>7, <1>8, <1>9 DEF Next

-----------------------------------------------------------------------------
\* The inductive invariant.  AtMostOnce alone is not inductive: that a second
\* effect cannot follow rests on the executions being recorded before the work
\* (Progress) by the one process that holds dispatch.lock (Control).
IInv == TypeOK /\ Control /\ Progress /\ StateMatchesHistory

LEMMA InitIInv == Init => IInv
<1> SUFFICES ASSUME Init PROVE IInv
  OBVIOUS
<1>1. Control /\ Progress
  BY DEF Init, Control, Progress, AtMostOnce
<1>2. StateMatchesHistory
  BY DEF Init, StateMatchesHistory, Rejects
<1> QED BY <1>1, <1>2, InitTypeOK DEF IInv

LEMMA NextIInv == IInv /\ [Next]_vars => IInv'
<1> SUFFICES ASSUME IInv, [Next]_vars PROVE TypeOK' /\ Control' /\ Progress'
  BY HistoryStep DEF IInv
<1>1. CASE Humans \/ Environment
  BY <1>1, PassiveSteps, PassiveTypeOK, OtherControl DEF IInv
<1>2. ASSUME NEW p \in Proc, NEW h \in Human, NEW d \in Decision, Reserve(p, h, d)
      PROVE  TypeOK' /\ Control' /\ Progress'
  BY <1>2, ReserveTypeOK, OtherControl DEF IInv
<1>3. ASSUME NEW p \in Proc, Work(p) \/ Crash(p) PROVE TypeOK' /\ Control' /\ Progress'
  BY <1>3, WorkTypeOK, WorkControl, WorkProgress DEF IInv
<1>4. ASSUME NEW d \in Decision, Recover(d) PROVE TypeOK' /\ Control' /\ Progress'
  BY <1>4, RecoverTypeOK, OtherControl DEF IInv
<1>5. CASE UNCHANGED vars
  BY <1>5 DEF IInv, TypeOK, Control, Progress, AtMostOnce, vars, authority, record, run, ghosts
<1> QED BY <1>1, <1>2, <1>3, <1>4, <1>5 DEF Next

THEOREM GatewayInvariant == Spec => []IInv
  BY InitIInv, NextIInv, PTL DEF Spec

\* Every variable of the gateway keeps its type.
THEOREM TypeCorrect == Spec => []TypeOK
  BY GatewayInvariant, PTL DEF IInv

\* One decision makes at most one provider request and commits at most one
\* effect, also when checkpoints are published late (service.py, _execute).
THEOREM SingleUse == Spec => []AtMostOnce
<1>1. IInv => AtMostOnce
  BY DEF IInv, Progress
<1> QED BY <1>1, GatewayInvariant, PTL

\* decision_state_history_mismatch is never raised for what the service itself
\* wrote (service.py, _decision).
THEOREM HistoryAgrees == Spec => []StateMatchesHistory
  BY GatewayInvariant, PTL DEF IInv

-----------------------------------------------------------------------------
\* When a checkpoint that raises is never a published one, the outcome on record
\* is exact: the handler finds the execution RUNNING or no ledger to write to.
Exact ==
  /\ OutcomeIsHonest
  /\ \A p \in Proc : pc[p] \in {"reserved", "authorized", "called", "answered"} =>
       execution[job[p]] = "RUNNING"
  /\ \A p \in Proc : pc[p] \in {"failing", "lost"} /\ trusted =>
       execution[job[p]] = "RUNNING"
  /\ \A p \in Proc : pc[p] = "failing" => calls[job[p]] = 0

LEMMA InitExact == Init => Exact
  BY DEF Init, Exact, OutcomeIsHonest

LEMMA WorkExact ==
  ASSUME ~LateFsyncError, IInv, Exact, NEW p \in Proc, Work(p) \/ Crash(p)
  PROVE  Exact'
<1> DEFINE j == job[p]
<1>1. /\ j \in Decision
      /\ pc[p] \in Place \ {"idle"}
      /\ \A q \in Proc \ {p} : pc[q] = "idle"
      /\ calls \in [Decision -> Nat] /\ effects \in [Decision -> Nat]
      /\ pc \in [Proc -> Place]
      /\ execution \in [Decision -> {"NONE", "RUNNING", "COMPLETED", "FAILED", "OUTCOME_UNKNOWN"}]
      /\ pc[p] \in {"reserved", "authorized"} => calls[j] = 0
  <2>1. pc[p] # "idle"
    BY DEF Work, Crash, RunLocal, Authorize, WorkFails, CallProvider, ProviderAnswers,
           ProviderFails, Preserve, PreserveFails, RecordFailure, HandlerFails
  <2> QED BY <2>1 DEF IInv, TypeOK, Control, Progress
<1>2. \A q \in Proc : pc'[q] # "idle" => q = p
  BY <1>1 DEF Work, Crash, RunLocal, Authorize, WorkFails, CallProvider, ProviderAnswers,
              ProviderFails, Preserve, PreserveFails, RecordFailure, HandlerFails, Ends
<1>3. pc'[p] # "idle" => job'[p] = j
  BY DEF Work, Crash, RunLocal, Authorize, WorkFails, CallProvider, ProviderAnswers,
         ProviderFails, Preserve, PreserveFails, RecordFailure, HandlerFails, Release
<1> HIDE DEF j
<1> SUFFICES /\ OutcomeIsHonest'
             /\ pc'[p] \in {"reserved", "authorized", "called", "answered"} =>
                  execution'[j] = "RUNNING"
             /\ pc'[p] \in {"failing", "lost"} /\ trusted' => execution'[j] = "RUNNING"
             /\ pc'[p] = "failing" => calls'[j] = 0
  BY <1>2, <1>3 DEF Exact
<1>4. /\ pc[p] \in {"reserved", "authorized", "called", "answered"} => execution[j] = "RUNNING"
      /\ pc[p] \in {"failing", "lost"} /\ trusted => execution[j] = "RUNNING"
      /\ pc[p] = "failing" => calls[j] = 0
      /\ OutcomeIsHonest
  BY DEF Exact, j
<1> USE <1>1, <1>4 DEF OutcomeIsHonest, ghosts, Place
<1>5. CASE RunLocal(p)
  <2>1. /\ execution' = [execution EXCEPT ![j] = "COMPLETED"]
        /\ effects' = [effects EXCEPT ![j] = @ + 1]
        /\ calls' = calls
    BY <1>5 DEF RunLocal, j
  <2>2. /\ pc'[p] \in {"idle", "failing"}
        /\ pc'[p] = "failing" => trusted' = FALSE
    BY <1>5 DEF RunLocal, Ends, Published, Lost
  <2>3. OutcomeIsHonest'
    BY <2>1
  <2> QED BY <1>5, <2>1, <2>2, <2>3 DEF RunLocal
<1>6. CASE Authorize(p)
  BY <1>6 DEF Authorize, Ends, Published, Lost, j
<1>7. CASE WorkFails(p)
  BY <1>7 DEF WorkFails, j
<1>8. CASE CallProvider(p)
  BY <1>8 DEF CallProvider, j
<1>9. CASE ProviderAnswers(p)
  BY <1>9 DEF ProviderAnswers, j
<1>10. CASE ProviderFails(p)
  BY <1>10 DEF ProviderFails, j
<1>11. CASE Preserve(p)
  <2>1. /\ execution' = [execution EXCEPT ![j] = "COMPLETED"]
        /\ effects' = [effects EXCEPT ![j] = @ + 1]
        /\ calls' = calls
    BY <1>11 DEF Preserve, j
  <2>2. /\ pc'[p] \in {"idle", "lost"}
        /\ pc'[p] = "lost" => trusted' = FALSE
    BY <1>11 DEF Preserve, Ends, Published, Lost
  <2>3. OutcomeIsHonest'
    BY <2>1
  <2> QED BY <2>1, <2>2, <2>3
<1>12. CASE PreserveFails(p)
  BY <1>12 DEF PreserveFails, j
<1>13. CASE RecordFailure(p)
  BY <1>13 DEF RecordFailure, Ends, Published, Lost, j
<1>14. CASE HandlerFails(p)
  BY <1>14 DEF HandlerFails, j
<1>15. CASE Crash(p)
  BY <1>15 DEF Crash, j
<1> QED BY <1>5, <1>6, <1>7, <1>8, <1>9, <1>10, <1>11, <1>12, <1>13, <1>14, <1>15 DEF Work

LEMMA NextExact ==
  ASSUME ~LateFsyncError, IInv, Exact, [Next]_vars
  PROVE  Exact'
<1> USE DEF IInv, TypeOK, Exact, OutcomeIsHonest, run, ghosts
<1>1. CASE Humans \/ Environment
  BY <1>1, PassiveSteps DEF Passive
<1>2. ASSUME NEW p \in Proc, NEW h \in Human, NEW d \in Decision, Reserve(p, h, d) PROVE Exact'
  <2>1. \A q \in Proc : pc[q] = "idle"
    BY <1>2, NoneNotProc DEF Reserve, Control
  <2>2. /\ execution' = [execution EXCEPT ![d] = "RUNNING"]
        /\ UNCHANGED <<calls, effects>>
        /\ effects[d] = 0
    BY <1>2 DEF Reserve, Progress
  <2>3. OutcomeIsHonest'
    BY <2>2
  <2>4. \/ UNCHANGED <<pc, job>>
        \/ pc' = [pc EXCEPT ![p] = "reserved"] /\ job' = [job EXCEPT ![p] = d]
    BY <1>2 DEF Reserve
  <2>5. \A q \in Proc : pc'[q] = "idle" \/ (pc'[q] = "reserved" /\ job'[q] = d)
    BY <2>1, <2>4
  <2> QED BY <2>2, <2>3, <2>5
<1>3. ASSUME NEW p \in Proc, Work(p) \/ Crash(p) PROVE Exact'
  BY <1>3, WorkExact
<1>4. ASSUME NEW d \in Decision, Recover(d) PROVE Exact'
  BY <1>4, NoneNotProc DEF Recover, Control, Place
<1>5. CASE UNCHANGED vars
  BY <1>5 DEF vars
<1> QED BY <1>1, <1>2, <1>3, <1>4, <1>5 DEF Next

LEMMA ExactInvariant == ASSUME ~LateFsyncError PROVE Spec => [](IInv /\ Exact)
<1>1. Init => IInv /\ Exact
  BY InitIInv, InitExact
<1>2. (IInv /\ Exact) /\ [Next]_vars => (IInv /\ Exact)'
  BY NextIInv, NextExact
<1> QED BY <1>1, <1>2, PTL DEF Spec

\* COMPLETED is said of committed effects only, FAILED never of a request that may
\* have left the machine, if a checkpoint that raises was not published.
THEOREM HonestOutcomes == ASSUME ~LateFsyncError PROVE Spec => []OutcomeIsHonest
<1>1. Exact => OutcomeIsHonest
  BY DEF Exact
<1> QED BY <1>1, ExactInvariant, PTL

\* Recovery, which needs dispatch.lock, can never meet a live execution.
THEOREM LiveRunsAreOwned == ASSUME ~LateFsyncError PROVE Spec => []OneOwner
<1>1. IInv /\ Exact => OneOwner
  BY DEF IInv, TypeOK, Control, Exact, OneOwner, Place
<1> QED BY <1>1, ExactInvariant, PTL

-----------------------------------------------------------------------------
LEMMA InitSingle == Init => Single!AbsInit
  BY DEF Init, Single!AbsInit

LEMMA NextSingle ==
  ASSUME ~LateFsyncError, IInv, Exact, [Next]_vars
  PROVE  [Single!AbsNext]_<<execution, {d \in Decision : calls[d] > 0},
                            {d \in Decision : effects[d] > 0}>>
<1> DEFINE disclosed == {d \in Decision : calls[d] > 0}
           done == {d \in Decision : effects[d] > 0}
<1> SUFFICES Single!AbsNext \/ UNCHANGED <<execution, disclosed, done>>
  OBVIOUS
<1> USE DEF IInv, TypeOK
<1>1. CASE Humans \/ Environment
  BY <1>1, PassiveSteps DEF Passive, ghosts
<1>2. ASSUME NEW p \in Proc, NEW h \in Human, NEW d \in Decision, Reserve(p, h, d)
      PROVE  Single!AbsNext
  <2>1. Single!Start(d)
    BY <1>2 DEF Reserve, Single!Start, ghosts
  <2> QED BY <2>1 DEF Single!AbsNext
<1>3. ASSUME NEW p \in Proc, Work(p) \/ Crash(p)
      PROVE  Single!AbsNext \/ UNCHANGED <<execution, disclosed, done>>
  <2>1. pc[p] # "idle"
    BY <1>3 DEF Work, Crash, RunLocal, Authorize, WorkFails, CallProvider, ProviderAnswers,
                ProviderFails, Preserve, PreserveFails, RecordFailure, HandlerFails
  <2>2. PICK j \in Decision : j = job[p]
    BY <2>1 DEF Control
  <2>3. ASSUME execution[j] = "RUNNING", UNCHANGED calls,
               execution' = [execution EXCEPT ![j] = "COMPLETED"],
               effects' = [effects EXCEPT ![j] = @ + 1]
        PROVE  Single!AbsNext
    <3>1. done' = done \cup {j}
      BY <2>3
    <3>2. Single!Succeed(j)
      BY <2>3, <3>1 DEF Single!Succeed
    <3> QED BY <3>2 DEF Single!AbsNext
  <2>4. CASE RunLocal(p)
    BY <2>2, <2>3, <2>4 DEF RunLocal, Exact
  <2>5. CASE Preserve(p)
    BY <2>2, <2>3, <2>5 DEF Preserve, Exact
  <2>6. CASE CallProvider(p)
    <3>1. /\ execution[j] = "RUNNING"
          /\ calls[j] = 0
          /\ calls' = [calls EXCEPT ![j] = @ + 1]
          /\ UNCHANGED <<execution, effects>>
      BY <2>2, <2>6 DEF CallProvider, Exact, Progress
    <3>2. j \notin disclosed /\ disclosed' = disclosed \cup {j}
      BY <3>1
    <3>3. Single!Disclose(j)
      BY <3>1, <3>2 DEF Single!Disclose
    <3> QED BY <3>3 DEF Single!AbsNext
  <2>7. CASE RecordFailure(p)
    <3>1. execution[j] = "RUNNING" /\ UNCHANGED <<calls, effects>>
      BY <2>2, <2>7 DEF RecordFailure, Exact, ghosts
    <3>2. CASE pc[p] = "failing"
      <4>1. Single!Fail(j)
        BY <2>2, <2>7, <3>1, <3>2 DEF RecordFailure, Exact, Single!Fail
      <4> QED BY <4>1 DEF Single!AbsNext
    <3>3. CASE pc[p] = "lost"
      <4>1. Single!GiveUp(j)
        BY <2>2, <2>7, <3>1, <3>3 DEF RecordFailure, Single!GiveUp
      <4> QED BY <4>1 DEF Single!AbsNext
    <3> QED BY <2>7, <3>2, <3>3 DEF RecordFailure
  <2>8. CASE \/ Authorize(p) \/ WorkFails(p) \/ ProviderAnswers(p) \/ ProviderFails(p)
            \/ PreserveFails(p) \/ HandlerFails(p) \/ Crash(p)
    BY <2>8 DEF Authorize, WorkFails, ProviderAnswers, ProviderFails, PreserveFails,
                HandlerFails, Crash, ghosts
  <2> QED BY <1>3, <2>4, <2>5, <2>6, <2>7, <2>8 DEF Work
<1>4. ASSUME NEW d \in Decision, Recover(d) PROVE Single!AbsNext
  <2>1. Single!GiveUp(d)
    BY <1>4 DEF Recover, Single!GiveUp, ghosts
  <2> QED BY <2>1 DEF Single!AbsNext
<1>5. CASE UNCHANGED vars
  BY <1>5 DEF vars, ghosts
<1> QED BY <1>1, <1>2, <1>3, <1>4, <1>5 DEF Next

\* Locks, processes, authority, failures and recovery implement executions that
\* start once and end once, if a checkpoint that raises was not published.
THEOREM SingleUseRefinement == ASSUME ~LateFsyncError PROVE Spec => ImplementsSingleUse
<1>1. Init => Single!AbsInit
  BY InitSingle
<1>2. (IInv /\ Exact) /\ [Next]_vars =>
        [Single!AbsNext]_<<execution, {d \in Decision : calls[d] > 0},
                           {d \in Decision : effects[d] > 0}>>
  BY NextSingle
<1> QED BY <1>1, <1>2, ExactInvariant, PTL DEF Spec, ImplementsSingleUse, Single!AbsSpec

-----------------------------------------------------------------------------
\* What no step does to the grounds on which a decision is spoiled.
Onward ==
  /\ expired \subseteq expired'
  /\ revoked \subseteq revoked'
  /\ \A d \in Decision, h \in Human : reviews[d][h] # None => reviews'[d][h] = reviews[d][h]
  /\ \A h \in Human : identity[h].revision <= identity'[h].revision

LEMMA NextOnward ==
  ASSUME TypeOK, [Next]_vars
  PROVE  Onward
<1> USE DEF TypeOK, Account, Onward, authority, record
<1>1. ASSUME UNCHANGED <<expired, revoked, reviews, identity>> PROVE Onward
  BY <1>1
<1>2. ASSUME NEW h \in Human, NEW d \in Decision, Propose(h, d) PROVE Onward
  BY <1>1, <1>2 DEF Propose
<1>3. ASSUME NEW h \in Human, NEW d \in Decision, Reauthenticate(h, d) PROVE Onward
  BY <1>1, <1>3 DEF Reauthenticate
<1>4. ASSUME NEW h \in Human, NEW d \in Decision, NEW v \in Verdict, SubmitReview(h, d, v)
      PROVE  Onward
  BY <1>4 DEF SubmitReview
<1>5. ASSUME NEW h \in Human, NEW d \in Decision, NEW by \in Human, Revoke(by, d, h) PROVE Onward
  BY <1>5 DEF Revoke
<1>6. ASSUME NEW h \in Human, AbandonReview(h) PROVE Onward
  BY <1>1, <1>6 DEF AbandonReview
<1>7. ASSUME NEW h \in Human, NEW r \in RoleChoices, NEW a \in BOOLEAN, ChangeUser(h, r, a)
      PROVE  Onward
  BY <1>7 DEF ChangeUser
<1>8. ASSUME NEW by \in Human, NEW h \in Human, NEW r \in BOOLEAN, Membership(by, h, r)
      PROVE  Onward
  BY <1>1, <1>8 DEF Membership
<1>9. CASE Environment
  BY <1>9 DEF Environment, Expire, ChangeBuild, LoseCheckpoint
<1>10. ASSUME NEW p \in Proc, NEW h \in Human, NEW d \in Decision, Reserve(p, h, d) PROVE Onward
  BY <1>1, <1>10 DEF Reserve
<1>11. ASSUME NEW p \in Proc, Work(p) \/ Crash(p) PROVE Onward
  BY <1>1, <1>11 DEF Work, Crash, RunLocal, Authorize, WorkFails, CallProvider,
       ProviderAnswers, ProviderFails, Preserve, PreserveFails, RecordFailure, HandlerFails
<1>12. ASSUME NEW d \in Decision, Recover(d) PROVE Onward
  BY <1>1, <1>12 DEF Recover
<1>13. CASE UNCHANGED vars
  BY <1>1, <1>13 DEF vars
<1> QED BY <1>2, <1>3, <1>4, <1>5, <1>6, <1>7, <1>8, <1>9, <1>10, <1>11, <1>12, <1>13
         DEF Next, Humans

LEMMA SpoiledStays ==
  ASSUME TypeOK, Onward, TypeOK', NEW d \in Decision, Spoiled(d)
  PROVE  Spoiled(d)'
<1>1. CASE d \in expired
  BY <1>1 DEF Onward, Spoiled
<1>2. ASSUME NEW h \in Human, reviews[d][h] # None,
             \/ Rejects(d, h)
             \/ <<d, h>> \in revoked
             \/ reviews[d][h].revision < identity[h].revision
      PROVE  Spoiled(d)'
  <2>1. reviews'[d][h] = reviews[d][h]
    BY <1>2 DEF Onward
  <2>2. /\ identity[h].revision <= identity'[h].revision
        /\ identity[h].revision \in Nat /\ identity'[h].revision \in Nat
        /\ reviews[d][h].revision \in Nat
    BY <1>2 DEF Onward, TypeOK, Account, Review
  <2>3. \/ Rejects(d, h)'
        \/ <<d, h>> \in revoked'
        \/ reviews'[d][h].revision < identity'[h].revision
    BY <1>2, <2>1, <2>2 DEF Onward, Rejects
  <2> QED BY <1>2, <2>1, <2>3 DEF Spoiled, Reviewers
<1> QED BY <1>1, <1>2 DEF Spoiled, Reviewers

LEMMA SpoiledIsNotApproved ==
  ASSUME TypeOK, NEW d \in Decision, Spoiled(d)
  PROVE  ~Approved(d)
<1>1. ASSUME NEW h \in Reviewers(d), Stands(d, h)
      PROVE  /\ ~Rejects(d, h)
             /\ <<d, h>> \notin revoked
             /\ ~(reviews[d][h].revision < identity[h].revision)
  BY <1>1 DEF Stands, Rejects, TypeOK, Account, Reviewers
<1> QED BY <1>1 DEF Spoiled, Approved, Current

\* Work begins with an approved, live and published intent.
Ready(d) == Approved(d) /\ execution[d] = "RUNNING" /\ trusted

LEMMA OnlyReadyBegins ==
  ASSUME IInv, [Next]_vars, NEW d \in Decision, ~Ready(d), ~Begun(d)
  PROVE  ~Begun(d)'
<1> USE DEF IInv, TypeOK, Begun, run, ghosts
<1>1. CASE Humans \/ Environment
  BY <1>1, PassiveSteps DEF Passive
<1>2. ASSUME NEW q \in Proc, NEW h \in Human, NEW e \in Decision, Reserve(q, h, e)
      PROVE  ~Begun(d)'
  BY <1>2 DEF Reserve
<1>3. ASSUME NEW p \in Proc, Work(p) \/ Crash(p) PROVE ~Begun(d)'
  <2> DEFINE late == {"authorized", "called", "answered"}
  <2>1. \A q \in Proc : job[q] = d => pc[q] \notin late
    OBVIOUS
  <2>2. ASSUME calls'[d] = calls[d], effects'[d] = effects[d],
               pc'[p] \in late => pc[p] \in late /\ job'[p] = job[p],
               \A q \in Proc \ {p} : pc'[q] = pc[q] /\ job'[q] = job[q]
        PROVE  ~Begun(d)'
    BY <2>1, <2>2
  <2> HIDE DEF Begun
  <2>3. CASE RunLocal(p)
    <3>1. job[p] # d
      BY <2>3 DEF RunLocal, Ready, MayAct, Control
    <3> QED BY <2>2, <2>3, <3>1 DEF RunLocal, Ends, Release
  <2>4. CASE Authorize(p)
    <3>1. job[p] # d
      BY <2>4 DEF Authorize, Ready, MayAct, Control
    <3>2. /\ UNCHANGED <<calls, effects, job>>
          /\ \A q \in Proc \ {p} : pc'[q] = pc[q]
      BY <2>4 DEF Authorize, Ends
    <3> QED BY <2>1, <3>1, <3>2 DEF Begun
  <2>5. CASE CallProvider(p)
    <3>1. job[p] # d
      BY <2>1, <2>5 DEF CallProvider
    <3> QED BY <2>2, <2>5, <3>1 DEF CallProvider
  <2>6. CASE Preserve(p)
    <3>1. job[p] # d
      BY <2>1, <2>6 DEF Preserve
    <3> QED BY <2>2, <2>6, <3>1 DEF Preserve, Ends, Release
  <2>7. CASE \/ WorkFails(p) \/ ProviderAnswers(p) \/ ProviderFails(p) \/ PreserveFails(p)
    BY <2>2, <2>7 DEF WorkFails, ProviderAnswers, ProviderFails, PreserveFails
  <2>8. CASE RecordFailure(p)
    BY <2>2, <2>8 DEF RecordFailure, Ends, Release
  <2>9. CASE HandlerFails(p) \/ Crash(p)
    BY <2>2, <2>9 DEF HandlerFails, Crash, Release
  <2> QED BY <1>3, <2>3, <2>4, <2>5, <2>6, <2>7, <2>8, <2>9 DEF Work
<1>4. ASSUME NEW e \in Decision, Recover(e) PROVE ~Begun(d)'
  BY <1>4 DEF Recover
<1>5. CASE UNCHANGED vars
  BY <1>5 DEF vars
<1> QED BY <1>1, <1>2, <1>3, <1>4, <1>5 DEF Next

LEMMA SpoiledDoesNotBegin ==
  ASSUME IInv, [Next]_vars, NEW d \in Decision, ~Approved(d), ~Begun(d)
  PROVE  ~Begun(d)'
  BY OnlyReadyBegins DEF Ready

\* Nothing leaves the machine and nothing is committed before the intent of the
\* execution has been published, in a transaction of its own, and none of it
\* after something else has dealt with that intent (service.py, _execute).
THEOREM IntentFirst == Spec => WorkIsWitnessed
<1>1. IInv /\ [Next]_vars =>
        [\A d \in Decision : ~Begun(d) /\ Begun(d)' => execution[d] = "RUNNING" /\ trusted]_vars
  BY OnlyReadyBegins DEF Ready
<1> QED BY <1>1, GatewayInvariant, PTL DEF Spec, WorkIsWitnessed

\* An approval that is lost before work begins is lost for good: nothing that
\* people, processes or the environment do lets that work begin (_approved).
THEOREM LostAuthorityIsFinal == Spec => SpoiledStaysUndone
<1>1. IInv /\ IInv' /\ [Next]_vars =>
        [\A d \in Decision : Spoiled(d) /\ ~Begun(d) => Spoiled(d)' /\ ~Begun(d)']_vars
  BY NextOnward, SpoiledStays, SpoiledIsNotApproved, SpoiledDoesNotBegin DEF IInv
<1> QED BY <1>1, GatewayInvariant, PTL DEF Spec, SpoiledStaysUndone

-----------------------------------------------------------------------------
\* A review is written once, while its decision is pending, and under the
\* revision that its reviewer reauthenticated as.
LEMMA NewReviews ==
  ASSUME TypeOK, TypeOK', [Next]_vars, NEW d \in Decision, NEW h \in Human,
         reviews'[d][h] # reviews[d][h]
  PROVE  /\ reviewing[h] = <<d, reviews'[d][h].revision>>
         /\ decision'[d] \in {"PENDING", "REJECTED"}
<1> USE DEF TypeOK, record
<1>1. ASSUME NEW g \in Human, NEW e \in Decision, NEW v \in Verdict, SubmitReview(g, e, v)
      PROVE  /\ reviewing[h] = <<d, reviews'[d][h].revision>>
             /\ decision'[d] \in {"PENDING", "REJECTED"}
  <2> DEFINE new == [verdict |-> v, revision |-> identity[g].revision]
  <2>1. reviews' = [reviews EXCEPT ![e][g] = new]
    BY <1>1 DEF SubmitReview
  <2>2. e = d /\ g = h
    BY <2>1
  <2>3. reviews'[d][h] = new
    BY <2>1, <2>2
  <2>4. reviewing[h] = <<d, reviews'[d][h].revision>>
    BY <1>1, <2>2, <2>3 DEF SubmitReview
  <2>5. decision'[d] \in {"PENDING", "REJECTED"}
    BY <1>1, <2>2 DEF SubmitReview
  <2> QED BY <2>4, <2>5
<1>2. ASSUME NEW g \in Human, NEW e \in Decision,
             Propose(g, e) \/ Reauthenticate(g, e)
      PROVE  UNCHANGED reviews
  BY <1>2 DEF Propose, Reauthenticate
<1>3. ASSUME NEW g \in Human, NEW e \in Decision, NEW by \in Human, Revoke(by, e, g) PROVE UNCHANGED reviews
  BY <1>3 DEF Revoke
<1>4. ASSUME NEW g \in Human, NEW r \in RoleChoices, NEW a \in BOOLEAN, ChangeUser(g, r, a)
      PROVE  UNCHANGED reviews
  BY <1>4 DEF ChangeUser
<1>5. ASSUME NEW by \in Human, NEW g \in Human, NEW r \in BOOLEAN, Membership(by, g, r)
      PROVE  UNCHANGED reviews
  BY <1>5 DEF Membership
<1>6. ASSUME Environment PROVE UNCHANGED reviews
  BY <1>6 DEF Environment, Expire, ChangeBuild, LoseCheckpoint
<1>7. ASSUME NEW p \in Proc, NEW g \in Human, NEW e \in Decision, Reserve(p, g, e) PROVE UNCHANGED reviews
  BY <1>7 DEF Reserve
<1>8. ASSUME NEW p \in Proc, Work(p) \/ Crash(p) PROVE UNCHANGED reviews
  BY <1>8 DEF Work, Crash, RunLocal, Authorize, WorkFails, CallProvider,
       ProviderAnswers, ProviderFails, Preserve, PreserveFails, RecordFailure, HandlerFails
<1>9. ASSUME NEW e \in Decision, Recover(e) PROVE UNCHANGED reviews
  BY <1>9 DEF Recover
<1>10. ASSUME UNCHANGED vars PROVE UNCHANGED reviews
  BY <1>10 DEF vars
<1>11. ASSUME NEW g \in Human, AbandonReview(g) PROVE UNCHANGED reviews
  BY <1>11 DEF AbandonReview
<1> HIDE DEF TypeOK, record
<1> QED BY <1>1, <1>2, <1>3, <1>4, <1>5, <1>6, <1>7, <1>8, <1>9, <1>10, <1>11
         DEF Next, Humans

\* A review carries the identity revision that its password was checked for,
\* whatever account changes commit between reauthentication and review.
THEOREM ReviewIdentity == Spec => ReviewedUnderOneIdentity
<1>1. TypeOK /\ TypeOK' /\ [Next]_vars =>
        [\A d \in Decision, h \in Human :
           reviews[d][h] = None /\ reviews'[d][h] # None =>
             reviewing[h] = <<d, reviews'[d][h].revision>>]_vars
  BY NewReviews
<1> QED BY <1>1, TypeCorrect, PTL DEF Spec, ReviewedUnderOneIdentity

-----------------------------------------------------------------------------
LEMMA ApprovedByDifferentHumans ==
  ASSUME TypeOK, NEW d \in Decision, Approved(d)
  PROVE  /\ Cardinality(Reviewers(d)) >= Len(RoleGroups[d])
         /\ \A h \in Human : ~Rejects(d, h)
<1> DEFINE n == Len(RoleGroups[d])
<1>1. n \in Nat
  BY GroupsAssumption
<1>2. PICK f \in [1..n -> Reviewers(d)] : \A i, j \in 1..n : i # j => f[i] # f[j]
  BY DEF Approved, Matching
<1>3. f \in Injection(1..n, Reviewers(d))
  BY <1>2 DEF Injection, IsInjective
<1>4. Reviewers(d) \in SUBSET Human
  BY DEF Reviewers
<1>5. IsFiniteSet(Reviewers(d))
  BY <1>4, HumansAreFinite, FS_Subset
<1>6. Cardinality(1..n) <= Cardinality(Reviewers(d))
  BY <1>3, <1>5, FS_Injection
<1>7. Cardinality(1..n) = n
  BY <1>1, FS_Interval, 1 \in Int, n \in Int
<1>8. Cardinality(Reviewers(d)) \in Nat
  BY <1>5, FS_CardinalityType
<1>9. \A h \in Human : ~Rejects(d, h)
  BY DEF Approved, Stands, Reviewers, Rejects
<1> QED BY <1>1, <1>6, <1>7, <1>8, <1>9

Consumed == \A d \in Decision : Begun(d) => decision[d] = "CONSUMED"

LEMMA BegunIsConsumed == IInv => Consumed
<1> SUFFICES ASSUME IInv, NEW d \in Decision, Begun(d)
             PROVE  decision[d] = "CONSUMED"
  BY DEF Consumed
<1>1. execution[d] # "NONE"
  <2>1. CASE calls[d] > 0 \/ effects[d] > 0
    BY <2>1 DEF IInv, Progress
  <2>2. CASE \E p \in Proc : job[p] = d /\ pc[p] \in {"authorized", "called", "answered"}
    BY <2>2 DEF IInv, Control
  <2> QED BY <2>1, <2>2 DEF Begun
<1> QED BY <1>1 DEF IInv, StateMatchesHistory

LEMMA InitIndependent == Init => IndependentReview
  BY DEF Init, IndependentReview, Begun

LEMMA NextIndependent ==
  ASSUME IInv, IInv', Consumed', [Next]_vars, IndependentReview
  PROVE  IndependentReview'
<1> SUFFICES ASSUME NEW d \in Decision, Begun(d)'
             PROVE  /\ Cardinality(Reviewers(d))' >= Len(RoleGroups[d])
                    /\ \A h \in Human : ~Rejects(d, h)'
  BY DEF IndependentReview, Reviewers
<1>1. decision'[d] = "CONSUMED"
  BY DEF Consumed
<1>2. \A h \in Human : reviews'[d][h] = reviews[d][h]
  BY <1>1, NewReviews DEF IInv
<1>3. Reviewers(d)' = Reviewers(d) /\ \A h \in Human : Rejects(d, h)' = Rejects(d, h)
  BY <1>2 DEF Reviewers, Rejects
<1>4. CASE Begun(d)
  BY <1>3, <1>4 DEF IndependentReview, Reviewers
<1>5. CASE ~Begun(d)
  <2>1. Approved(d)
    BY <1>5, SpoiledDoesNotBegin
  <2> QED BY <1>3, <2>1, ApprovedByDifferentHumans DEF IInv
<1> QED BY <1>4, <1>5

\* Whatever was begun had been approved by as many different humans as its
\* policy has groups and rejected by none, and no later review changes that.
THEOREM IndependentReviewers == Spec => []IndependentReview
<1>1. IInv /\ IInv' /\ Consumed' /\ [Next]_vars /\ IndependentReview => IndependentReview'
  BY NextIndependent
<1> QED BY <1>1, BegunIsConsumed, InitIndependent, GatewayInvariant, PTL DEF Spec

-----------------------------------------------------------------------------
\* A process gets no authority, to begin or to disclose, that it has not got.
NoNewAuthority ==
  \A p \in Proc : pc'[p] \in {"reserved", "authorized"} => pc[p] = pc'[p]

\* While the case is out of service nothing is recorded in it: no review, no
\* outcome, no result.  While the accounts are, nothing that needs an account.
Refused ==
  /\ ~trusted => UNCHANGED <<trusted, member, record, execution, effects>>
  /\ ~adminTrusted => UNCHANGED <<adminTrusted, identity, member, record>>
  /\ ~trusted \/ ~adminTrusted => NoNewAuthority

LEMMA HumansRefused == ASSUME TypeOK, Humans \/ Environment PROVE Refused
<1> USE DEF Refused, record, MayAct
<1>1. NoNewAuthority /\ UNCHANGED <<execution, effects>>
  BY PassiveSteps DEF Passive, run, ghosts, NoNewAuthority
<1>2. ASSUME NEW h \in Human, NEW d \in Decision, Propose(h, d) PROVE Refused
  BY <1>2 DEF Propose
<1>3. ASSUME NEW h \in Human, NEW d \in Decision, Reauthenticate(h, d) PROVE Refused
  BY <1>1, <1>3 DEF Reauthenticate, authority
<1>4. ASSUME NEW h \in Human, NEW d \in Decision, NEW v \in Verdict, SubmitReview(h, d, v)
      PROVE  Refused
  BY <1>4 DEF SubmitReview
<1>5. ASSUME NEW h \in Human, NEW d \in Decision, NEW by \in Human, Revoke(by, d, h)
      PROVE  Refused
  BY <1>5 DEF Revoke
<1>6. ASSUME NEW h \in Human, AbandonReview(h) PROVE Refused
  BY <1>1, <1>6 DEF AbandonReview, authority
<1>7. ASSUME NEW h \in Human, NEW r \in RoleChoices, NEW a \in BOOLEAN, ChangeUser(h, r, a)
      PROVE  Refused
  BY <1>1, <1>7 DEF ChangeUser
<1>8. ASSUME NEW by \in Human, NEW h \in Human, NEW r \in BOOLEAN, Membership(by, h, r)
      PROVE  Refused
  BY <1>8 DEF Membership
<1>9. CASE Environment
  BY <1>1, <1>9 DEF Environment, Expire, ChangeBuild, LoseCheckpoint
<1> QED BY <1>2, <1>3, <1>4, <1>5, <1>6, <1>7, <1>8, <1>9 DEF Humans

LEMMA WorkRefused == ASSUME TypeOK, NEW p \in Proc, Work(p) \/ Crash(p) PROVE Refused
<1> USE DEF Refused, NoNewAuthority, MayAct, TypeOK
<1>1. CASE RunLocal(p)
  BY <1>1 DEF RunLocal, authority
<1>2. CASE Authorize(p)
  BY <1>2 DEF Authorize
<1>3. CASE WorkFails(p)
  BY <1>3 DEF WorkFails, authority, ghosts
<1>4. CASE CallProvider(p)
  BY <1>4 DEF CallProvider, authority
<1>5. CASE ProviderAnswers(p)
  BY <1>5 DEF ProviderAnswers, authority, ghosts
<1>6. CASE ProviderFails(p)
  BY <1>6 DEF ProviderFails, authority, ghosts
<1>7. CASE Preserve(p)
  BY <1>7 DEF Preserve, Ends, authority
<1>8. CASE PreserveFails(p)
  BY <1>8 DEF PreserveFails, authority, ghosts
<1>9. CASE RecordFailure(p)
  BY <1>9 DEF RecordFailure, Ends, authority
<1>10. CASE HandlerFails(p) \/ Crash(p)
  BY <1>10 DEF HandlerFails, Crash, authority, ghosts
<1> QED BY <1>1, <1>2, <1>3, <1>4, <1>5, <1>6, <1>7, <1>8, <1>9, <1>10 DEF Work

\* Once the case or the accounts are out of service, that stays so, and nothing
\* is recorded or authorized on them any more.  The one thing still possible is
\* that a request authorized before leaves the machine, and that an outcome is
\* recorded in a case that is in service (store.py, transaction).
THEOREM OutOfServiceIsFinal == Spec => [][Refused]_vars
<1>1. ASSUME IInv, [Next]_vars PROVE [Refused]_vars
  <2>0. TypeOK
    BY <1>1 DEF IInv
  <2>1. CASE Humans \/ Environment
    BY <2>0, <2>1, HumansRefused
  <2>2. ASSUME NEW p \in Proc, NEW h \in Human, NEW d \in Decision, Reserve(p, h, d)
        PROVE  Refused
    BY <2>2 DEF Reserve, Refused, MayAct
  <2>3. ASSUME NEW p \in Proc, Work(p) \/ Crash(p) PROVE Refused
    BY <2>0, <2>3, WorkRefused
  <2>4. ASSUME NEW d \in Decision, Recover(d) PROVE Refused
    BY <2>4 DEF Recover, Refused, NoNewAuthority, authority, run
  <2> QED BY <1>1, <2>1, <2>2, <2>3, <2>4 DEF Next
<1> QED BY <1>1, GatewayInvariant, PTL DEF Spec
=============================================================================
