------------------------------- MODULE Workflow -------------------------------
(***************************************************************************)
(* service.py: what executions do to one case, its records, and closure.   *)
(*                                                                         *)
(* A tool that changes the case leaves a record: a finding, a challenge, a *)
(* resolution, a reconciliation, an import, a declared gap, a drafted or a *)
(* released pack or the closure, each written in the transaction that      *)
(* completes its execution and bound to the decision it came from.         *)
(* Proposals, reservations, work, crashes, the exception handler and       *)
(* recovery interleave; several decisions may aim at the same finding,     *)
(* challenge, execution, pack or artifact.                                 *)
(*                                                                         *)
(* The case has one artifact that was imported before, which selections    *)
(* and citations name, and one that is staged, which import_logs names.    *)
(*                                                                         *)
(* Reviews are Gateway's subject: here an operation that is not executed   *)
(* stands for one that is not approved.  dispatch.lock lets one process    *)
(* execute at a time, so one process and one recovery are modelled.        *)
(***************************************************************************)
EXTENDS Naturals, FiniteSets

CONSTANTS
  Decision,       \* proposals
  Offered,        \* bound of the model: the tools that are proposed
  None,
  LateFsyncError  \* can a checkpoint be published and its caller be told it failed?

\* The registered tools (suggest_findings works and ends as timeline does).
Remote == {"model_assess", "draft_pack"}
\* Tools that leave nothing in the case but the result of the execution.
Reading == {"timeline", "run_pack", "export_case", "model_assess"}
\* Tools that leave a record in the case beside it.
Recording == {"import_logs", "accept_finding", "challenge_finding", "resolve_challenge",
              "reconcile_execution", "record_gap", "draft_pack", "promote_pack", "close_case"}
Kind == Reading \cup Recording

ASSUME OfferedAssumption == Offered \subseteq Kind
ASSUME NoneNotKind == None \notin Kind
ASSUME NoneNotDecision == None \notin Decision
ASSUME LateFsyncAssumption == LateFsyncError \in BOOLEAN

VARIABLES
  tool,        \* rows of decisions: the tool each of them names
  target,      \* what it names: another decision's result, or None for an artifact
  execution,   \* executions.state
  receipt,     \* the outcome attested by the latest receipt in the audit ledger
  recorded,    \* the decisions whose record is in the case
  active,      \* the decision being executed
  place,       \* where _execute is with it
  recovering,  \* the rows recovery has read and not yet dealt with
  trusted      \* does the case ledger match its checkpoint?

case == <<tool, target, execution, receipt, recorded>>
vars == <<case, active, place, recovering, trusted>>

Outcome == {"COMPLETED", "FAILED", "OUTCOME_UNKNOWN"}

TypeOK ==
  /\ tool \in [Decision -> Kind \cup {None}]
  /\ target \in [Decision -> Decision \cup {None}]
  /\ execution \in [Decision -> {"NONE", "RUNNING"} \cup Outcome]
  /\ receipt \in [Decision -> {"NONE"} \cup Outcome]
  /\ recorded \in SUBSET Decision
  /\ active \in Decision \cup {None}
  /\ place \in {"idle", "reserved", "called", "failing", "lost"}
  /\ recovering \in SUBSET Decision
  /\ trusted \in BOOLEAN

Init ==
  /\ tool = [d \in Decision |-> None]
  /\ target = [d \in Decision |-> None]
  /\ execution = [d \in Decision |-> "NONE"]
  /\ receipt = [d \in Decision |-> "NONE"]
  /\ recorded = {}
  /\ active = None
  /\ place = "idle"
  /\ recovering = {}
  /\ trusted = TRUE

-----------------------------------------------------------------------------
\* The records of one kind, and the case's closure.
Records(kind) == {d \in recorded : tool[d] = kind}
Closed == Records("close_case") # {}

\* Mutant: closure does not stop anything.
OpenAlways(d) == TRUE

\* _case(open_required): exports are possible after closure, nothing else is.
Open(d) == tool[d] = "export_case" \/ ~Closed

\* execution_dict: the row agrees with the latest receipt in the ledger.
Consistent(d) ==
  CASE execution[d] = "NONE" -> receipt[d] = "NONE"
    [] execution[d] = "RUNNING" -> receipt[d] = "NONE"
    [] OTHER -> receipt[d] = execution[d]

Completed(d) == execution[d] = "COMPLETED" /\ Consistent(d)

\* _workflow_records raises unless each record's own execution is completed.
Intact(kind) == \A d \in Records(kind) : Completed(d)

Reconciled(e) == \E d \in Records("reconcile_execution") : target[d] = e
Resolved(ch) == \E d \in Records("resolve_challenge") : target[d] = ch

\* _unknown_execution
Unknown(e) ==
  /\ execution[e] = "OUTCOME_UNKNOWN"
  /\ Consistent(e)
  /\ Intact("reconcile_execution")
  /\ ~Reconciled(e)

\* Mutant: a challenge may be resolved again.
OpenChallengeAgain(ch) ==
  /\ ch \in Records("challenge_finding")
  /\ Intact("challenge_finding")
  /\ Intact("resolve_challenge")

\* _open_challenge
OpenChallenge(ch) ==
  /\ ch \in Records("challenge_finding")
  /\ Intact("challenge_finding")
  /\ Intact("resolve_challenge")
  /\ ~Resolved(ch)

\* _finding: an accepted finding whose execution verifies.
Finding(f) == f \in Records("accept_finding") /\ Completed(f)

\* _pack: a released pack whose execution verifies.
Pack(p) == p \in Records("promote_pack") /\ Completed(p)

\* What a proposal of this kind names, and what has to be true of it when it is
\* proposed and in every transaction of its execution (propose, _current).
Current(kind, t) ==
  CASE kind = "reconcile_execution" -> t \in Decision /\ Unknown(t)
    [] kind = "challenge_finding" -> t \in Decision /\ Finding(t)
    [] kind = "resolve_challenge" -> t \in Decision /\ OpenChallenge(t)
    [] kind = "run_pack" -> t \in Decision /\ Pack(t)
    [] kind = "promote_pack" -> t = None \/ t \in Records("draft_pack")
    [] OTHER -> t = None

\* _inventory: findings and packs are exactly the results of completed executions.
Inventory ==
  /\ \A d \in Decision : Consistent(d)
  /\ \A d \in Decision : tool[d] \in {"accept_finding", "promote_pack"} =>
       (d \in recorded <=> execution[d] = "COMPLETED")

\* Mutant: a run in progress does not prevent closure.
SettledButRunning(d) ==
  /\ Inventory
  /\ Intact("reconcile_execution")
  /\ \A e \in Decision \ {d} : execution[e] = "OUTCOME_UNKNOWN" => Reconciled(e)
  /\ Intact("challenge_finding")
  /\ Intact("resolve_challenge")
  /\ \A ch \in Records("challenge_finding") : Resolved(ch)

\* The part of close_case that refuses: d is the closing decision itself.
Settled(d) ==
  /\ Inventory
  /\ Intact("reconcile_execution")
  /\ \A e \in Decision \ {d} :
       execution[e] \in {"RUNNING", "OUTCOME_UNKNOWN"} => Reconciled(e)
  /\ Intact("challenge_finding")
  /\ Intact("resolve_challenge")
  /\ \A ch \in Records("challenge_finding") : Resolved(ch)

\* _snapshot, for the proposal of an export.
Snapshot ==
  /\ Inventory
  /\ Intact("reconcile_execution")
  /\ Intact("challenge_finding")
  /\ Intact("resolve_challenge")

-----------------------------------------------------------------------------
Published == UNCHANGED trusted
Lost == trusted' = FALSE

Goto(next) ==
  /\ place' = next
  /\ active' = IF next = "idle" THEN None ELSE active

\* How a transaction that commits ends: see Gateway.
Ends(next, handler) ==
  \/ Published /\ Goto(next)
  \/ Published /\ LateFsyncError /\ Goto(handler)
  \/ Lost /\ Goto(handler)

\* Does nobody hold dispatch.lock?
Free == active = None /\ recovering = {}

Propose(d, kind, t) ==
  /\ trusted
  /\ tool[d] = None
  /\ kind = "export_case" \/ ~Closed
  /\ Current(kind, t)
  /\ kind = "export_case" => Snapshot
  /\ tool' = [tool EXCEPT ![d] = kind]
  /\ target' = [target EXCEPT ![d] = t]
  /\ Published \/ Lost
  /\ UNCHANGED <<execution, receipt, recorded, active, place, recovering>>

\* First transaction: the intent.
Reserve(d) ==
  /\ Free
  /\ trusted
  /\ tool[d] # None
  /\ execution[d] = "NONE"
  /\ Open(d)
  /\ Current(tool[d], target[d])
  /\ execution' = [execution EXCEPT ![d] = "RUNNING"]
  /\ \/ Published /\ active' = d /\ place' = "reserved"
     \/ Published /\ LateFsyncError /\ UNCHANGED <<active, place>>
     \/ Lost /\ UNCHANGED <<active, place>>
  /\ UNCHANGED <<tool, target, receipt, recorded, recovering>>

\* Mutant: the record is committed before the completion, each in a transaction.
PerformInTwo(d) ==
  /\ active = d
  /\ place = "reserved"
  /\ tool[d] \notin Remote
  /\ trusted
  /\ Open(d)
  /\ Current(tool[d], target[d])
  /\ d \notin recorded
  /\ recorded' = recorded \cup {d}
  /\ UNCHANGED <<tool, target, execution, receipt, active, place, recovering, trusted>>

\* Second transaction of a local tool: _local and _complete.
Perform(d) ==
  /\ active = d
  /\ place = "reserved"
  /\ tool[d] \notin Remote
  /\ trusted
  /\ Open(d)
  /\ Current(tool[d], target[d])
  /\ tool[d] = "import_logs" => Records("import_logs") = {}
  /\ tool[d] = "close_case" => Settled(d)
  /\ recorded' = IF tool[d] \in Recording THEN recorded \cup {d} ELSE recorded
  /\ execution' = [execution EXCEPT ![d] = "COMPLETED"]
  /\ receipt' = [receipt EXCEPT ![d] = "COMPLETED"]
  /\ Ends("idle", "failing")
  /\ UNCHANGED <<tool, target, recovering>>

\* Second transaction of a remote tool, and remote_started right after it.
Disclose(d) ==
  /\ active = d
  /\ place = "reserved"
  /\ tool[d] \in Remote
  /\ trusted
  /\ Open(d)
  /\ Ends("called", "failing")
  /\ UNCHANGED <<case, recovering>>

\* Third transaction of a remote tool: a draft that the answer contains is staged.
Preserve(d) ==
  /\ active = d
  /\ place = "called"
  /\ trusted
  /\ \/ tool[d] = "draft_pack" /\ recorded' = recorded \cup {d}
     \/ UNCHANGED recorded
  /\ execution' = [execution EXCEPT ![d] = "COMPLETED"]
  /\ receipt' = [receipt EXCEPT ![d] = "COMPLETED"]
  /\ Ends("idle", "lost")
  /\ UNCHANGED <<tool, target, recovering>>

\* The work is refused, fails or times out, before or after remote_started.
WorkFails ==
  /\ \/ place = "reserved" /\ Goto("failing")
     \/ place = "called" /\ Goto("lost")
  /\ UNCHANGED <<case, recovering, trusted>>

\* The exception handler.
RecordFailure(d) ==
  LET outcome == IF place = "lost" THEN "OUTCOME_UNKNOWN" ELSE "FAILED" IN
  /\ active = d
  /\ place \in {"failing", "lost"}
  /\ trusted
  /\ execution' = [execution EXCEPT ![d] = outcome]
  /\ receipt' = [receipt EXCEPT ![d] = outcome]
  /\ Goto("idle")
  /\ Published \/ Lost
  /\ UNCHANGED <<tool, target, recorded, recovering>>

\* The handler raises in its turn, or the executing process dies at any point.
Vanish ==
  /\ place # "idle"
  /\ Goto("idle")
  /\ UNCHANGED <<case, recovering, trusted>>

-----------------------------------------------------------------------------
\* Mutant: recovery does not take dispatch.lock.
ListUnlocked ==
  /\ recovering = {}
  /\ recovering' = {d \in Decision : execution[d] = "RUNNING"}
  /\ UNCHANGED <<case, active, place, trusted>>

\* tracefoundry recover, under dispatch.lock: first it lists what is RUNNING...
ListRunning ==
  /\ Free
  /\ recovering' = {d \in Decision : execution[d] = "RUNNING"}
  /\ UNCHANGED <<case, active, place, trusted>>

\* ... then it marks each of them, in a transaction of its own.
MarkUnknown(d) ==
  /\ d \in recovering
  /\ trusted
  /\ Consistent(d)
  /\ execution' = [execution EXCEPT
       ![d] = IF @ = "RUNNING" THEN "OUTCOME_UNKNOWN" ELSE @]
  /\ receipt' = [receipt EXCEPT ![d] = "OUTCOME_UNKNOWN"]
  /\ \/ Published /\ recovering' = recovering \ {d}
     \/ Lost /\ recovering' = {}
  /\ UNCHANGED <<tool, target, recorded, active, place>>

\* A refused transaction, an error or a crash ends the whole recovery.
StopRecovery ==
  /\ recovering # {}
  /\ recovering' = {}
  /\ UNCHANGED <<case, active, place, trusted>>

\* Any other transaction on the case commits and loses its checkpoint.
LoseCheckpoint ==
  /\ trusted
  /\ trusted' = FALSE
  /\ UNCHANGED <<case, active, place, recovering>>

Next ==
  \/ \E d \in Decision :
       \/ \E kind \in Offered, t \in Decision \cup {None} : Propose(d, kind, t)
       \/ Reserve(d)
       \/ Perform(d)
       \/ Disclose(d)
       \/ Preserve(d)
       \/ RecordFailure(d)
       \/ MarkUnknown(d)
  \/ WorkFails
  \/ Vanish
  \/ ListRunning
  \/ StopRecovery
  \/ LoseCheckpoint

Spec == Init /\ [][Next]_vars

-----------------------------------------------------------------------------
\* What the row of an execution says and what the latest receipt in the ledger
\* says never part, so execution_dict never takes the service's own history for
\* a damaged one: handler, completion and recovery never cross.
RowMatchesReceipt == \A d \in Decision : Consistent(d)

\* However many reviewed decisions aim at one execution, challenge or artifact,
\* one of them takes effect; and what was reconciled stays an unknown outcome.
SettledOnce ==
  /\ \A d, e \in recorded :
       tool[d] = tool[e] /\ target[d] = target[e]
         /\ tool[d] \in {"import_logs", "resolve_challenge", "reconcile_execution"} => d = e
  /\ \A d \in Records("reconcile_execution") : execution[target[d]] = "OUTCOME_UNKNOWN"

\* A closed case leaves nothing open behind it, exports aside: no run in
\* progress, no unknown outcome without an assessment, no challenge without a
\* disposition, at the closure and ever after (ARCHITECTURE.md, "Closure rejects
\* unknown executions ... and finding challenges without a reviewed disposition").
ClosureIsClean ==
  Closed =>
    /\ \A e \in Decision : tool[e] # "export_case" /\ e \notin Records("close_case")
         /\ execution[e] \in {"RUNNING", "OUTCOME_UNKNOWN"} => Reconciled(e)
    /\ \A ch \in Records("challenge_finding") : Resolved(ch)

\* No record is added to a closed case and none of its executions changes any
\* more, except for exports: what was reserved or proposed before the closure
\* does not take effect after it.  (Reviews and memberships are in Gateway.)
ClosedIsFrozen ==
  [][Closed => /\ recorded' = recorded
               /\ \A d \in Decision : execution'[d] # execution[d] =>
                    tool[d] = "export_case" \/ d \in Records("close_case")]_vars

\* Whatever is interrupted, records and completed executions correspond, as
\* _complete promises by committing both at once.  For findings and packs, and for
\* reconciliations, challenges and resolutions, _inventory and _workflow_records
\* look at it too; for imports, gaps and closures nothing does.
InventoryHolds ==
  \A d \in Decision :
    /\ d \in recorded => execution[d] = "COMPLETED"
    /\ execution[d] = "COMPLETED" => d \in recorded \/ tool[d] \in Reading \cup {"draft_pack"}

\* The service takes its own history: no proposal of an export is refused, and no
\* closure for its inventory, because of records and rows that the service wrote
\* itself ("case_result_inventory_incomplete", "workflow_record_integrity_failed").
HistoryIsAccepted == Snapshot

\* ADMINISTRATION.md: "Resolve an unknown outcome through the two-person
\* reconcile_execution workflow".  That needs a case that is still open.
UnknownCanBeReconciled ==
  \A e \in Decision : execution[e] = "OUTCOME_UNKNOWN" => Reconciled(e) \/ ~Closed

=============================================================================
