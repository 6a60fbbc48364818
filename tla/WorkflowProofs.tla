---------------------------- MODULE WorkflowProofs ----------------------------
(***************************************************************************)
(* Proofs about Workflow, for every set of decisions and offered tools.    *)
(***************************************************************************)
EXTENDS Workflow, TLAPS

\* dispatch.lock: whoever executes has a row that is RUNNING, or COMPLETED by a
\* transaction that was published late; recovery sees none but RUNNING rows.
Control ==
  /\ active = None <=> place = "idle"
  /\ active # None => recovering = {} /\ execution[active] \in {"RUNNING", "COMPLETED"}
  /\ place \in {"reserved", "called"} => execution[active] = "RUNNING"
  /\ place = "called" => tool[active] \in Remote
  /\ \A d \in recovering : execution[d] = "RUNNING"

\* Rows exist in the order of the protocol: a proposal, an execution, a record.
Rows ==
  /\ RowMatchesReceipt
  /\ \A d \in Decision : tool[d] = None => execution[d] = "NONE"
  /\ \A d \in recorded : execution[d] \notin {"NONE", "RUNNING"}

\* What was reconciled is an execution.
Aimed == \A d \in Records("reconcile_execution") : target[d] \in Decision

\* What closure has made sure of, and what may still run afterwards.
Closing ==
  /\ ClosureIsClean
  /\ Closed /\ active # None => tool[active] = "export_case" \/ active \in Records("close_case")

IInv == TypeOK /\ Control /\ Rows /\ Aimed /\ SettledOnce /\ Closing

-----------------------------------------------------------------------------
\* A target that is named is one that has not been settled yet.
LEMMA CurrentTarget ==
  ASSUME NEW kind \in Kind, NEW t \in Decision \cup {None}, Current(kind, t)
  PROVE  /\ kind = "reconcile_execution" =>
              t \in Decision /\ execution[t] = "OUTCOME_UNKNOWN" /\ ~Reconciled(t)
         /\ kind = "resolve_challenge" => ~Resolved(t)
<1>1. CASE kind = "reconcile_execution"
  <2>1. t \in Decision /\ Unknown(t)
    BY <1>1 DEF Current
  <2> QED BY <1>1, <2>1 DEF Unknown
<1>2. CASE kind = "resolve_challenge"
  <2>1. OpenChallenge(t)
    BY <1>2 DEF Current
  <2> QED BY <1>2, <2>1 DEF OpenChallenge
<1> QED BY <1>1, <1>2

LEMMA TypeInit == Init => TypeOK
  BY DEF Init, TypeOK, Outcome

LEMMA TypeStep == TypeOK /\ [Next]_vars => TypeOK'
<1> SUFFICES ASSUME TypeOK, [Next]_vars PROVE TypeOK'
  OBVIOUS
<1> USE DEF TypeOK, Published, Lost, Goto, Ends, Outcome
<1>1. ASSUME NEW d \in Decision, NEW kind \in Offered, NEW t \in Decision \cup {None},
             Propose(d, kind, t)
      PROVE  TypeOK'
  <2>1. kind \in Kind
    BY OfferedAssumption
  <2> QED BY <1>1, <2>1 DEF Propose
<1>2. ASSUME NEW d \in Decision, Reserve(d) PROVE TypeOK'
  BY <1>2 DEF Reserve
<1>3. ASSUME NEW d \in Decision, Perform(d) PROVE TypeOK'
  BY <1>3 DEF Perform
<1>4. ASSUME NEW d \in Decision, Disclose(d) PROVE TypeOK'
  BY <1>4 DEF Disclose, case
<1>5. ASSUME NEW d \in Decision, Preserve(d) PROVE TypeOK'
  BY <1>5 DEF Preserve
<1>6. ASSUME NEW d \in Decision, RecordFailure(d) PROVE TypeOK'
  BY <1>6 DEF RecordFailure
<1>7. ASSUME NEW d \in Decision, MarkUnknown(d) PROVE TypeOK'
  BY <1>7 DEF MarkUnknown
<1>8. CASE WorkFails
  BY <1>8 DEF WorkFails, case
<1>9. CASE Vanish
  BY <1>9 DEF Vanish, case
<1>10. CASE ListRunning
  BY <1>10 DEF ListRunning, case
<1>11. CASE StopRecovery
  BY <1>11 DEF StopRecovery, case
<1>12. CASE LoseCheckpoint
  BY <1>12 DEF LoseCheckpoint, case
<1>13. CASE UNCHANGED vars
  BY <1>13 DEF vars, case
<1> QED
  BY <1>1, <1>2, <1>3, <1>4, <1>5, <1>6, <1>7, <1>8, <1>9, <1>10, <1>11, <1>12, <1>13 DEF Next

LEMMA ControlStep == IInv /\ [Next]_vars => Control'
<1> SUFFICES ASSUME IInv, [Next]_vars PROVE Control'
  OBVIOUS
<1> USE NoneNotDecision DEF IInv, TypeOK, Control, Published, Lost, Goto, Ends, Free
<1>1. ASSUME NEW d \in Decision, NEW kind \in Offered, NEW t \in Decision \cup {None},
             Propose(d, kind, t)
      PROVE  Control'
  BY <1>1 DEF Propose, Rows
<1>2. ASSUME NEW d \in Decision, Reserve(d) PROVE Control'
  <2>1. /\ execution' = [execution EXCEPT ![d] = "RUNNING"]
        /\ UNCHANGED <<tool, recovering>>
        /\ active = None /\ recovering = {}
        /\ \/ active' = d /\ place' = "reserved"
           \/ UNCHANGED <<active, place>>
    BY <1>2 DEF Reserve
  <2> QED BY <2>1
<1>3. ASSUME NEW d \in Decision, Perform(d) PROVE Control'
  <2>1. /\ execution' = [execution EXCEPT ![d] = "COMPLETED"]
        /\ UNCHANGED <<tool, recovering>>
        /\ active = d
        /\ \/ active' = None /\ place' = "idle"
           \/ active' = active /\ place' = "failing"
    BY <1>3 DEF Perform
  <2> QED BY <2>1
<1>4. ASSUME NEW d \in Decision, Disclose(d) PROVE Control'
  BY <1>4 DEF Disclose, case
<1>5. ASSUME NEW d \in Decision, Preserve(d) PROVE Control'
  <2>1. /\ execution' = [execution EXCEPT ![d] = "COMPLETED"]
        /\ UNCHANGED <<tool, recovering>>
        /\ active = d
        /\ \/ active' = None /\ place' = "idle"
           \/ active' = active /\ place' = "lost"
    BY <1>5 DEF Preserve
  <2> QED BY <2>1
<1>6. ASSUME NEW d \in Decision, RecordFailure(d) PROVE Control'
  BY <1>6 DEF RecordFailure
<1>7. ASSUME NEW d \in Decision, MarkUnknown(d) PROVE Control'
  BY <1>7 DEF MarkUnknown
<1>8. CASE WorkFails
  BY <1>8 DEF WorkFails, case
<1>9. CASE Vanish
  BY <1>9 DEF Vanish, case
<1>10. CASE ListRunning
  BY <1>10 DEF ListRunning, case
<1>11. CASE StopRecovery
  BY <1>11 DEF StopRecovery, case
<1>12. CASE LoseCheckpoint
  BY <1>12 DEF LoseCheckpoint, case
<1>13. CASE UNCHANGED vars
  BY <1>13 DEF vars, case
<1> QED
  BY <1>1, <1>2, <1>3, <1>4, <1>5, <1>6, <1>7, <1>8, <1>9, <1>10, <1>11, <1>12, <1>13 DEF Next
\* Only an execution writes its outcome, and only while it is RUNNING or has been
\* completed by itself: an outcome that is settled otherwise stays.
LEMMA OutcomeStays ==
  ASSUME IInv, Next
  PROVE  \A e \in Decision : execution[e] \in {"FAILED", "OUTCOME_UNKNOWN"} =>
           execution'[e] = execution[e]
<1> USE DEF IInv, TypeOK, Control
<1>1. ASSUME NEW d \in Decision, Reserve(d) \/ Perform(d) \/ Preserve(d) \/ RecordFailure(d)
      PROVE  /\ execution[d] \notin {"FAILED", "OUTCOME_UNKNOWN"}
             /\ \A e \in Decision \ {d} : execution'[e] = execution[e]
  BY <1>1, NoneNotDecision DEF Reserve, Perform, Preserve, RecordFailure
<1>2. ASSUME NEW d \in Decision, MarkUnknown(d)
      PROVE  /\ execution[d] = "RUNNING"
             /\ \A e \in Decision \ {d} : execution'[e] = execution[e]
  BY <1>2 DEF MarkUnknown
<1>3. ASSUME NEW d \in Decision, Disclose(d) PROVE UNCHANGED execution
  BY <1>3 DEF Disclose, case
<1>4. ASSUME NEW d \in Decision, NEW kind \in Offered, NEW t \in Decision \cup {None},
             Propose(d, kind, t)
      PROVE  UNCHANGED execution
  BY <1>4 DEF Propose
<1>5. ASSUME WorkFails \/ Vanish \/ ListRunning \/ StopRecovery \/ LoseCheckpoint
      PROVE  UNCHANGED execution
  BY <1>5 DEF WorkFails, Vanish, ListRunning, StopRecovery, LoseCheckpoint, case
<1> QED BY <1>1, <1>2, <1>3, <1>4, <1>5 DEF Next

LEMMA RowsStep == IInv /\ [Next]_vars => Rows'
<1> SUFFICES ASSUME IInv, [Next]_vars PROVE Rows'
  OBVIOUS
<1> USE DEF IInv, TypeOK, Control, Rows, RowMatchesReceipt, Consistent, Outcome
<1>1. ASSUME NEW d \in Decision, NEW kind \in Offered, NEW t \in Decision \cup {None},
             Propose(d, kind, t)
      PROVE  Rows'
  BY <1>1 DEF Propose
<1>2. ASSUME NEW d \in Decision, Reserve(d) PROVE Rows'
  BY <1>2 DEF Reserve
<1>3. ASSUME NEW d \in Decision, Perform(d) PROVE Rows'
  BY <1>3 DEF Perform
<1>4. ASSUME NEW d \in Decision, Disclose(d) PROVE Rows'
  BY <1>4 DEF Disclose, case
<1>5. ASSUME NEW d \in Decision, Preserve(d) PROVE Rows'
  BY <1>5 DEF Preserve
<1>6. ASSUME NEW d \in Decision, RecordFailure(d) PROVE Rows'
  BY <1>6, NoneNotDecision DEF RecordFailure
<1>7. ASSUME NEW d \in Decision, MarkUnknown(d) PROVE Rows'
  BY <1>7 DEF MarkUnknown
<1>8. CASE WorkFails \/ Vanish \/ ListRunning \/ StopRecovery \/ LoseCheckpoint \/ UNCHANGED vars
  BY <1>8 DEF WorkFails, Vanish, ListRunning, StopRecovery, LoseCheckpoint, case, vars
<1> QED BY <1>1, <1>2, <1>3, <1>4, <1>5, <1>6, <1>7, <1>8 DEF Next
\* A step leaves the records as they are, or proposes something, or adds the
\* record of one execution under the guards of Perform.
LEMMA RecordsGrow ==
  ASSUME IInv, [Next]_vars
  PROVE  \/ UNCHANGED <<tool, target, recorded>>
         \/ \E d \in Decision :
              /\ tool[d] = None /\ d \notin recorded
              /\ \A e \in Decision \ {d} : tool'[e] = tool[e] /\ target'[e] = target[e]
              /\ UNCHANGED <<recorded, execution, active>>
         \/ \E d \in Decision :
              /\ Perform(d) /\ d \notin recorded
              /\ tool[d] \in Recording
              /\ recorded' = recorded \cup {d}
              /\ UNCHANGED <<tool, target>>
         \/ \E d \in Decision :
              /\ Preserve(d) /\ tool[d] = "draft_pack" /\ d \notin recorded
              /\ recorded' = recorded \cup {d}
              /\ UNCHANGED <<tool, target>>
<1> USE DEF IInv, TypeOK, Control, Rows
<1>1. ASSUME NEW d \in Decision, NEW kind \in Offered, NEW t \in Decision \cup {None},
             Propose(d, kind, t)
      PROVE  /\ tool[d] = None /\ d \notin recorded
             /\ \A e \in Decision \ {d} : tool'[e] = tool[e] /\ target'[e] = target[e]
             /\ UNCHANGED <<recorded, execution, active>>
  BY <1>1 DEF Propose
<1>2. ASSUME NEW d \in Decision, Perform(d)
      PROVE  \/ UNCHANGED <<tool, target, recorded>>
             \/ /\ d \notin recorded
                /\ tool[d] \in Recording
                /\ recorded' = recorded \cup {d}
                /\ UNCHANGED <<tool, target>>
  BY <1>2, NoneNotDecision DEF Perform
<1>3. ASSUME NEW d \in Decision, Preserve(d)
      PROVE  \/ UNCHANGED <<tool, target, recorded>>
             \/ /\ tool[d] = "draft_pack" /\ d \notin recorded
                /\ recorded' = recorded \cup {d}
                /\ UNCHANGED <<tool, target>>
  BY <1>3, NoneNotDecision DEF Preserve
<1>4. ASSUME NEW d \in Decision,
             Reserve(d) \/ Disclose(d) \/ RecordFailure(d) \/ MarkUnknown(d)
      PROVE  UNCHANGED <<tool, target, recorded>>
  BY <1>4 DEF Reserve, Disclose, RecordFailure, MarkUnknown, case
<1>5. ASSUME WorkFails \/ Vanish \/ ListRunning \/ StopRecovery \/ LoseCheckpoint \/ UNCHANGED vars
      PROVE  UNCHANGED <<tool, target, recorded>>
  BY <1>5 DEF WorkFails, Vanish, ListRunning, StopRecovery, LoseCheckpoint, case, vars
<1> QED BY <1>1, <1>2, <1>3, <1>4, <1>5 DEF Next

\* No record is lost, none changes its tool or its target.
LEMMA RecordsStay ==
  ASSUME IInv, [Next]_vars
  PROVE  /\ recorded \subseteq recorded'
         /\ recorded' \subseteq Decision
         /\ \A d \in recorded : tool'[d] = tool[d] /\ target'[d] = target[d]
<1>1. recorded \subseteq Decision
  BY DEF IInv, TypeOK
<1>2. TypeOK'
  BY TypeStep DEF IInv
<1> QED BY <1>1, <1>2, RecordsGrow DEF TypeOK

LEMMA SettledStep == IInv /\ [Next]_vars => SettledOnce' /\ Aimed'
<1> SUFFICES ASSUME IInv, [Next]_vars PROVE SettledOnce' /\ Aimed'
  OBVIOUS
<1>1. \A e \in Decision : execution[e] \in {"FAILED", "OUTCOME_UNKNOWN"} =>
        execution'[e] = execution[e]
  BY OutcomeStays DEF vars, case
<1>2. /\ recorded \subseteq Decision
      /\ \A d \in Decision : tool[d] \in Kind \cup {None} /\ target[d] \in Decision \cup {None}
  BY DEF IInv, TypeOK
<1>3. \A d \in Records("reconcile_execution") :
        target[d] \in Decision /\ execution'[target[d]] = "OUTCOME_UNKNOWN"
  BY <1>1 DEF IInv, Aimed, SettledOnce
<1>4. ASSUME UNCHANGED <<tool, target, recorded>>
      PROVE  SettledOnce' /\ Aimed'
  BY <1>3, <1>4 DEF IInv, SettledOnce, Aimed, Records
<1>5. ASSUME NEW d \in Decision, d \notin recorded, UNCHANGED recorded,
             \A e \in Decision \ {d} : tool'[e] = tool[e] /\ target'[e] = target[e]
      PROVE  SettledOnce' /\ Aimed'
  BY <1>2, <1>3, <1>5 DEF IInv, SettledOnce, Aimed, Records
<1>6. ASSUME NEW d \in Decision, Perform(d), d \notin recorded, tool[d] \in Recording,
             recorded' = recorded \cup {d}, UNCHANGED <<tool, target>>
      PROVE  SettledOnce' /\ Aimed'
  <2>1. /\ Current(tool[d], target[d])
        /\ tool[d] = "import_logs" => Records("import_logs") = {}
    BY <1>6 DEF Perform
  <2>2. tool[d] \in Kind
    BY <1>6 DEF Kind
  <2>3. /\ tool[d] = "reconcile_execution" =>
             /\ target[d] \in Decision
             /\ execution[target[d]] = "OUTCOME_UNKNOWN"
             /\ ~Reconciled(target[d])
        /\ tool[d] = "resolve_challenge" => ~Resolved(target[d])
    BY <1>2, <2>1, <2>2, CurrentTarget
  <2>4. \A e \in recorded : tool[e] = tool[d] /\ target[e] = target[d] =>
          tool[d] \notin {"import_logs", "resolve_challenge", "reconcile_execution"}
    BY <2>1, <2>3 DEF Records, Reconciled, Resolved
  <2>5. \A e, f \in recorded' :
          tool'[e] = tool'[f] /\ target'[e] = target'[f]
            /\ tool'[e] \in {"import_logs", "resolve_challenge", "reconcile_execution"} => e = f
    BY <1>6, <2>4 DEF IInv, SettledOnce
  <2>6. \A e \in Records("reconcile_execution")' :
          target'[e] \in Decision /\ execution'[target'[e]] = "OUTCOME_UNKNOWN"
    BY <1>1, <1>3, <1>6, <2>3 DEF Records
  <2> QED BY <2>5, <2>6 DEF SettledOnce, Aimed
<1>7. ASSUME NEW d \in Decision, tool[d] = "draft_pack", d \notin recorded,
             recorded' = recorded \cup {d}, UNCHANGED <<tool, target>>
      PROVE  SettledOnce' /\ Aimed'
  BY <1>2, <1>3, <1>7 DEF IInv, SettledOnce, Aimed, Records
<1> QED BY <1>4, <1>5, <1>6, <1>7, RecordsGrow
-----------------------------------------------------------------------------
\* Nothing but an export or the closing execution itself runs in a closed case.
LEMMA RunsAfterClosure ==
  ASSUME IInv, Closed
  PROVE  \A d \in Decision : active = d \/ execution[d] = "RUNNING" =>
           tool[d] = "export_case" \/ d \in Records("close_case")
<1> SUFFICES ASSUME NEW d \in Decision, active = d \/ execution[d] = "RUNNING",
                    tool[d] # "export_case", d \notin Records("close_case")
             PROVE  FALSE
  OBVIOUS
<1>1. active # d
  BY NoneNotDecision DEF IInv, Closing
<1>2. execution[d] = "RUNNING"
  BY <1>1
<1>3. Reconciled(d)
  BY <1>2 DEF IInv, Closing, ClosureIsClean
<1>4. PICK r \in Records("reconcile_execution") : target[r] = d
  BY <1>3 DEF Reconciled
<1>5. execution[d] = "OUTCOME_UNKNOWN"
  BY <1>4 DEF IInv, SettledOnce
<1> QED BY <1>2, <1>5

LEMMA Frozen ==
  ASSUME IInv, Closed, [Next]_vars
  PROVE  /\ recorded' = recorded
         /\ \A d \in Decision : execution'[d] # execution[d] =>
              tool[d] = "export_case" \/ d \in Records("close_case")
<1> USE DEF IInv, TypeOK
<1>1. ASSUME NEW d \in Decision, Reserve(d) \/ Perform(d) \/ Disclose(d)
      PROVE  tool[d] = "export_case"
  BY <1>1 DEF Reserve, Perform, Disclose, Open
<1>2. ASSUME NEW d \in Decision, Preserve(d) PROVE FALSE
  <2>1. active = d /\ tool[d] \in Remote /\ execution[d] = "RUNNING"
    BY <1>2, NoneNotDecision DEF Preserve, Control
  <2>2. tool[d] = "export_case" \/ d \in Records("close_case")
    BY <2>1, RunsAfterClosure
  <2> QED BY <2>1, <2>2 DEF Remote, Records
<1>3. recorded' = recorded
  <2>1. ASSUME NEW d \in Decision, Perform(d), tool[d] \in Recording PROVE FALSE
    BY <1>1, <2>1 DEF Recording
  <2> QED BY <1>2, <2>1, RecordsGrow
<1>4. ASSUME NEW d \in Decision, Reserve(d) \/ Perform(d) \/ RecordFailure(d) \/ MarkUnknown(d)
      PROVE  /\ \A e \in Decision \ {d} : execution'[e] = execution[e]
             /\ tool[d] = "export_case" \/ d \in Records("close_case")
  <2>1. \A e \in Decision \ {d} : execution'[e] = execution[e]
    BY <1>4 DEF Reserve, Perform, RecordFailure, MarkUnknown
  <2>2. CASE Reserve(d) \/ Perform(d)
    BY <1>1, <2>1, <2>2
  <2>3. CASE RecordFailure(d)
    BY <2>1, <2>3, RunsAfterClosure DEF RecordFailure
  <2>4. CASE MarkUnknown(d)
    BY <2>1, <2>4, RunsAfterClosure DEF MarkUnknown, Control
  <2> QED BY <1>4, <2>2, <2>3, <2>4
<1>5. ASSUME NEW d \in Decision, NEW kind \in Offered, NEW t \in Decision \cup {None},
             Propose(d, kind, t)
      PROVE  UNCHANGED execution
  BY <1>5 DEF Propose
<1>6. ASSUME NEW d \in Decision, Disclose(d) PROVE UNCHANGED execution
  BY <1>6 DEF Disclose, case
<1>7. ASSUME WorkFails \/ Vanish \/ ListRunning \/ StopRecovery \/ LoseCheckpoint \/ UNCHANGED vars
      PROVE  UNCHANGED execution
  BY <1>7 DEF WorkFails, Vanish, ListRunning, StopRecovery, LoseCheckpoint, case, vars
<1> QED BY <1>2, <1>3, <1>4, <1>5, <1>6, <1>7 DEF Next

\* Who executes after a step: who did so before it, or what Reserve let in.
LEMMA ActiveAfter ==
  ASSUME IInv, [Next]_vars
  PROVE  \/ active' \in {active, None}
         \/ active' \in Decision /\ Open(active') /\ UNCHANGED <<tool, recorded>>
<1>1. ASSUME NEW d \in Decision, Reserve(d)
      PROVE  \/ active' = active
             \/ active' = d /\ Open(d) /\ UNCHANGED <<tool, recorded>>
  BY <1>1 DEF Reserve
<1>2. ASSUME NEW d \in Decision,
             Perform(d) \/ Disclose(d) \/ Preserve(d) \/ RecordFailure(d) \/ MarkUnknown(d)
      PROVE  active' \in {active, None}
  BY <1>2 DEF Perform, Disclose, Preserve, RecordFailure, MarkUnknown, Ends, Goto, case
<1>3. ASSUME NEW d \in Decision, NEW kind \in Offered, NEW t \in Decision \cup {None},
             Propose(d, kind, t)
      PROVE  active' = active
  BY <1>3 DEF Propose
<1>4. ASSUME WorkFails \/ Vanish \/ ListRunning \/ StopRecovery \/ LoseCheckpoint \/ UNCHANGED vars
      PROVE  active' \in {active, None}
  BY <1>4 DEF WorkFails, Vanish, ListRunning, StopRecovery, LoseCheckpoint, Goto, case, vars
<1> QED BY <1>1, <1>2, <1>3, <1>4 DEF Next

LEMMA ClosingStep == IInv /\ [Next]_vars => Closing'
<1> SUFFICES ASSUME IInv, [Next]_vars, Closed' PROVE Closing'
  BY DEF Closing, ClosureIsClean
<1>1. TypeOK' /\ TypeOK
  BY TypeStep DEF IInv
<1>2. /\ recorded \subseteq recorded'
      /\ \A d \in recorded : tool'[d] = tool[d] /\ target'[d] = target[d]
  BY RecordsStay
<1>3. \A d \in Decision :
        (Reconciled(d) => Reconciled(d)') /\ (Resolved(d) => Resolved(d)')
  BY <1>2 DEF Reconciled, Resolved, Records
<1>4. CASE Closed
  <2>1. recorded' = recorded
    BY <1>4, Frozen
  <2>2. \A kind : Records(kind)' = Records(kind)
    BY <1>2, <2>1 DEF Records
  <2>3. ASSUME NEW e \in Decision, tool'[e] # "export_case", e \notin Records("close_case")',
               execution'[e] \in {"RUNNING", "OUTCOME_UNKNOWN"}
        PROVE  Reconciled(e)'
    <3>1. tool[e] # "export_case" \/ execution[e] = "NONE"
      BY <1>1, <2>3, RecordsGrow DEF IInv, Rows, Perform, Preserve
    <3>2. e \notin Records("close_case")
      BY <2>2, <2>3
    <3>3. CASE tool[e] # "export_case"
      <4>1. execution'[e] = execution[e]
        BY <1>4, <3>2, <3>3, Frozen
      <4> QED BY <1>3, <1>4, <2>3, <3>2, <3>3, <4>1 DEF IInv, Closing, ClosureIsClean
    <3>4. CASE tool[e] = "export_case"
      <4>1. UNCHANGED tool \/ (tool[e] # None /\ \E d \in Decision : tool[d] = None
                                 /\ \A f \in Decision \ {d} : tool'[f] = tool[f])
        BY <3>4, NoneNotKind, RecordsGrow DEF Kind, Reading
      <4> QED BY <2>3, <3>4, <4>1
    <3> QED BY <3>3, <3>4
  <2>4. \A ch \in Records("challenge_finding")' : Resolved(ch)'
    BY <1>1, <1>3, <1>4, <2>2 DEF IInv, Closing, ClosureIsClean, Records, TypeOK
  <2>5. active' # None => tool'[active'] = "export_case" \/ active' \in Records("close_case")'
    <3>1. CASE active' = active /\ active # None
      <4>1. active \in Decision /\ execution[active] # "NONE"
        BY <3>1 DEF IInv, TypeOK, Control
      <4>2. tool[active] # None
        BY <4>1 DEF IInv, Rows
      <4>3. tool'[active] = tool[active]
        BY <4>1, <4>2, RecordsGrow
      <4> QED BY <1>4, <2>2, <3>1, <4>3 DEF IInv, Closing
    <3>2. CASE active' \in Decision /\ Open(active') /\ UNCHANGED <<tool, recorded>>
      BY <1>4, <3>2 DEF Open
    <3> QED BY <3>1, <3>2, ActiveAfter
  <2> QED BY <2>3, <2>4, <2>5 DEF Closing, ClosureIsClean
<1>5. CASE ~Closed
  <2>1. PICK d \in Decision : /\ Perform(d) /\ tool[d] = "close_case"
                              /\ recorded' = recorded \cup {d}
                              /\ UNCHANGED <<tool, target>>
    <3>1. ASSUME NEW d \in Decision, tool[d] # "close_case", tool'[d] = tool[d],
                 recorded' = recorded \cup {d}, UNCHANGED tool
          PROVE  FALSE
      BY <1>5, <3>1 DEF Closed, Records
    <3>2. ASSUME NEW d \in Decision, d \notin recorded, UNCHANGED recorded,
                 \A e \in Decision \ {d} : tool'[e] = tool[e]
          PROVE  FALSE
      BY <1>1, <1>5, <3>2 DEF Closed, Records, TypeOK
    <3>3. ASSUME UNCHANGED <<tool, target, recorded>> PROVE FALSE
      BY <1>5, <3>3 DEF Closed, Records
    <3> QED BY <3>1, <3>2, <3>3, RecordsGrow
  <2>2. /\ Settled(d)
        /\ execution' = [execution EXCEPT ![d] = "COMPLETED"]
        /\ active' = None \/ active' = d
    BY <2>1 DEF Perform, Ends, Goto
  <2>3. d \in Records("close_case")'
    BY <2>1 DEF Records
  <2>4. Records("challenge_finding")' = Records("challenge_finding")
    BY <2>1 DEF Records
  <2>5. \A e \in Decision : e \notin Records("close_case")'
          /\ execution'[e] \in {"RUNNING", "OUTCOME_UNKNOWN"} => Reconciled(e)'
    BY <1>1, <1>3, <2>2, <2>3 DEF Settled, TypeOK
  <2>6. \A ch \in Records("challenge_finding")' : Resolved(ch)'
    BY <1>1, <1>3, <2>2, <2>4 DEF Settled, Records, TypeOK
  <2> QED BY <2>2, <2>3, <2>5, <2>6 DEF Closing, ClosureIsClean
<1> QED BY <1>4, <1>5
-----------------------------------------------------------------------------
LEMMA InvInit == Init => IInv
<1> SUFFICES ASSUME Init PROVE IInv
  OBVIOUS
<1>1. TypeOK
  BY TypeInit
<1>2. Control
  BY DEF Init, Control
<1>3. Rows
  BY DEF Init, Rows, RowMatchesReceipt, Consistent
<1>4. \A kind : Records(kind) = {}
  BY DEF Init, Records
<1>5. Aimed /\ SettledOnce
  BY <1>4 DEF Init, Aimed, SettledOnce
<1>6. Closing
  BY <1>4 DEF Closing, ClosureIsClean, Closed
<1> QED BY <1>1, <1>2, <1>3, <1>5, <1>6 DEF IInv

LEMMA InvStep == IInv /\ [Next]_vars => IInv'
  BY TypeStep, ControlStep, RowsStep, SettledStep, ClosingStep DEF IInv

LEMMA Invariance == Spec => []IInv
  BY InvInit, InvStep, PTL DEF Spec

\* Every reachable state of a case is well typed (TypeOK), whatever is proposed.
THEOREM TypeCorrect == Spec => []TypeOK
<1>1. IInv => TypeOK
  BY DEF IInv
<1> QED BY <1>1, Invariance, PTL

\* The row of an execution and its latest receipt always agree, so execution_dict
\* never takes the service's own history for a damaged one.
THEOREM RowsAgree == Spec => []RowMatchesReceipt
<1>1. IInv => RowMatchesReceipt
  BY DEF IInv, Rows
<1> QED BY <1>1, Invariance, PTL

\* One reconciliation per unknown outcome, one resolution per challenge, one
\* import per artifact, and a reconciled outcome stays unknown.
THEOREM OneEffectPerTarget == Spec => []SettledOnce
<1>1. IInv => SettledOnce
  BY DEF IInv
<1> QED BY <1>1, Invariance, PTL

\* A closed case leaves no run, unknown outcome or challenge open, ever after.
THEOREM CleanClosure == Spec => []ClosureIsClean
<1>1. IInv => ClosureIsClean
  BY DEF IInv, Closing
<1> QED BY <1>1, Invariance, PTL

\* A closed case gains no record, and only its exports and its closing execution
\* still change state.
THEOREM ClosedStaysFrozen == Spec => ClosedIsFrozen
<1>1. IInv /\ [Next]_vars =>
        [Closed => /\ recorded' = recorded
                   /\ \A d \in Decision : execution'[d] # execution[d] =>
                        tool[d] = "export_case" \/ d \in Records("close_case")]_vars
  BY Frozen
<1> QED BY <1>1, Invariance, PTL DEF Spec, ClosedIsFrozen

-----------------------------------------------------------------------------
(* When no checkpoint is published late, the handler only ever meets a RUNNING *)
(* row on a ledger that is in service, so it never writes over a completion.   *)

Exact ==
  /\ InventoryHolds
  /\ active # None /\ trusted => execution[active] = "RUNNING"

LEMMA ExactStep ==
  ASSUME ~LateFsyncError
  PROVE  IInv /\ Exact /\ [Next]_vars => Exact'
<1> SUFFICES ASSUME IInv, Exact, [Next]_vars PROVE Exact'
  OBVIOUS
<1> USE DEF IInv, TypeOK, Control, Rows, Exact, InventoryHolds, Published, Lost, Goto, Ends
<1>1. ASSUME NEW d \in Decision, NEW kind \in Offered, NEW t \in Decision \cup {None},
             Propose(d, kind, t)
      PROVE  Exact'
  BY <1>1 DEF Propose
<1>2. ASSUME NEW d \in Decision, Reserve(d) PROVE Exact'
  BY <1>2, NoneNotDecision DEF Reserve, Free
<1>3. ASSUME NEW d \in Decision, Perform(d) PROVE Exact'
  <2>1. tool[d] \in Kind
    BY <1>3, NoneNotDecision DEF Perform
  <2>2. recorded' = IF tool[d] \in Recording THEN recorded \cup {d} ELSE recorded
    BY <1>3 DEF Perform
  <2>3. execution' = [execution EXCEPT ![d] = "COMPLETED"] /\ UNCHANGED tool
    BY <1>3 DEF Perform
  <2>4. active' = None \/ trusted' = FALSE
    BY <1>3 DEF Perform
  <2>5. InventoryHolds'
    BY <2>1, <2>2, <2>3 DEF Kind
  <2> QED BY <2>4, <2>5
<1>4. ASSUME NEW d \in Decision, Disclose(d) PROVE Exact'
  BY <1>4 DEF Disclose, case
<1>5. ASSUME NEW d \in Decision, Preserve(d) PROVE Exact'
  <2>1. tool[d] \in Remote
    BY <1>5, NoneNotDecision DEF Preserve
  <2>2. /\ execution' = [execution EXCEPT ![d] = "COMPLETED"] /\ UNCHANGED tool
        /\ recorded' = recorded \cup {d} \/ recorded' = recorded
    BY <1>5 DEF Preserve
  <2>3. active' = None \/ trusted' = FALSE
    BY <1>5 DEF Preserve
  <2>4. InventoryHolds'
    BY <2>1, <2>2 DEF Remote, Reading
  <2> QED BY <2>3, <2>4
<1>6. ASSUME NEW d \in Decision, RecordFailure(d) PROVE Exact'
  <2>1. execution[d] = "RUNNING" /\ d \notin recorded
    BY <1>6, NoneNotDecision DEF RecordFailure
  <2> QED BY <1>6, <2>1 DEF RecordFailure
<1>7. ASSUME NEW d \in Decision, MarkUnknown(d) PROVE Exact'
  <2>1. execution[d] = "RUNNING" /\ d \notin recorded /\ active = None
    BY <1>7 DEF MarkUnknown
  <2> QED BY <1>7, <2>1 DEF MarkUnknown
<1>8. CASE WorkFails
  BY <1>8, NoneNotDecision DEF WorkFails, case
<1>9. CASE Vanish \/ ListRunning \/ StopRecovery \/ LoseCheckpoint \/ UNCHANGED vars
  BY <1>9 DEF Vanish, ListRunning, StopRecovery, LoseCheckpoint, case, vars
<1> QED BY <1>1, <1>2, <1>3, <1>4, <1>5, <1>6, <1>7, <1>8, <1>9 DEF Next

LEMMA ExactInvariant == ASSUME ~LateFsyncError PROVE Spec => [](IInv /\ Exact)
<1>1. Init => Exact
  BY DEF Init, Exact, InventoryHolds
<1>2. IInv /\ Exact /\ [Next]_vars => Exact'
  BY ExactStep
<1> QED BY <1>1, <1>2, Invariance, PTL DEF Spec

\* Records and completed executions correspond, if no checkpoint is published
\* after its writer was told that it failed.
THEOREM InventoryIsExact == ASSUME ~LateFsyncError PROVE Spec => []InventoryHolds
<1>1. Exact => InventoryHolds
  BY DEF Exact
<1> QED BY <1>1, ExactInvariant, PTL

\* _inventory and _workflow_records, which every export and every closure runs
\* through, then hold of every history that the service itself can produce.
THEOREM OwnHistoryIsAccepted == ASSUME ~LateFsyncError PROVE Spec => []HistoryIsAccepted
<1>1. IInv /\ Exact => HistoryIsAccepted
  <2> SUFFICES ASSUME IInv, Exact PROVE Snapshot
    BY DEF HistoryIsAccepted
  <2>1. \A d \in Decision : Consistent(d)
    BY DEF IInv, Rows, RowMatchesReceipt
  <2>2. recorded \in SUBSET Decision /\ \A d \in recorded : execution[d] = "COMPLETED"
    BY DEF IInv, TypeOK, Exact, InventoryHolds
  <2>3. \A kind : Intact(kind)
    BY <2>1, <2>2 DEF Intact, Records, Completed
  <2>4. Inventory
    BY <2>1, <2>2 DEF Inventory, Exact, InventoryHolds, Reading
  <2> QED BY <2>3, <2>4 DEF Snapshot
<1> QED BY <1>1, ExactInvariant, PTL

-----------------------------------------------------------------------------
\* Nothing changes in a case that is out of service, and nothing gets authority.
Refused ==
  /\ UNCHANGED <<case, trusted>>
  /\ place' \in {"reserved", "called"} => UNCHANGED <<active, place>>

\* Once the case is out of service, that stays so, and proposals, completions,
\* the exception handler, recovery and closure change nothing in it any more;
\* an execution goes on only until its next transaction (store.py, transaction).
THEOREM OutOfServiceIsFinal == Spec => [][~trusted => Refused]_vars
<1>1. ASSUME [Next]_vars, ~trusted, ~UNCHANGED vars PROVE Refused
  <2>1. ASSUME NEW d \in Decision
        PROVE  /\ \A kind \in Offered, t \in Decision \cup {None} : ~Propose(d, kind, t)
               /\ ~(Reserve(d) \/ Perform(d) \/ Disclose(d) \/ Preserve(d))
               /\ ~(RecordFailure(d) \/ MarkUnknown(d))
    BY <1>1 DEF Propose, Reserve, Perform, Disclose, Preserve, RecordFailure, MarkUnknown
  <2>2. CASE WorkFails \/ Vanish
    BY <2>2 DEF WorkFails, Vanish, Goto, Refused
  <2>3. CASE ListRunning \/ StopRecovery
    BY <2>3 DEF ListRunning, StopRecovery, Refused
  <2>4. ~LoseCheckpoint
    BY <1>1 DEF LoseCheckpoint
  <2> QED BY <1>1, <2>1, <2>2, <2>3, <2>4 DEF Next
<1> QED BY <1>1, PTL DEF Spec
=============================================================================
