------------------------------- MODULE Gateway -------------------------------
(***************************************************************************)
(* service.py: the approval gateway of one open case.                      *)
(*                                                                         *)
(* A member proposes an operation; named humans review it under their      *)
(* current identity; a process executes it once, in a first transaction    *)
(* that records the intent and in later ones that do the work.  Reviews,   *)
(* revocations, account and membership changes, expiry, changes of the     *)
(* release and crashes fall between any two of these transactions.         *)
(*                                                                         *)
(* A transaction of the case ledger is one step: CheckpointedLedger        *)
(* implements AtomicLedger, so it takes effect as a whole and leaves the   *)
(* ledger trusted, or it takes effect, raises, and the ledger is out of    *)
(* service from then on.  LateFsyncError adds the one case in between: the *)
(* checkpoint is published and the caller is told that it failed.          *)
(***************************************************************************)
EXTENDS Naturals, Sequences, FiniteSets

CONSTANTS
  Human,          \* accounts of kind "human" in the tenant of the case
  Decision,       \* proposals
  Proc,           \* server threads and command-line processes
  Build,          \* releases: policy, tool source and provider configuration
  None,
  Role,           \* "admin", "analyst", "supervisor"
  Remote,         \* the decisions whose tool discloses evidence to the provider
  RoleGroups,     \* [Decision -> Seq(SUBSET Role)]: one distinct human per group
  RoleChoices,    \* bound of the model: the role sets an administrator assigns
  InitialRoles,   \* [Human -> SUBSET Role]
  Creator,        \* the human who created the case; stays a member
  MaxRevision,    \* bound of the model: account changes per human
  LateFsyncError  \* can a checkpoint be published and its caller be told it failed?

ASSUME RemoteAssumption == Remote \subseteq Decision
ASSUME NoneNotProc == None \notin Proc
ASSUME NoneNotDecision == None \notin Decision
ASSUME NoneNotHuman == None \notin Human
ASSUME HumansAreFinite == IsFiniteSet(Human)
ASSUME CreatorAssumption == Creator \in Human
ASSUME GroupsAssumption == RoleGroups \in [Decision -> Seq(SUBSET Role)]
ASSUME RolesAssumption == InitialRoles \in [Human -> SUBSET Role]
ASSUME RoleChoicesAssumption == RoleChoices \subseteq (SUBSET Role) \ {{}}
ASSUME LateFsyncAssumption == LateFsyncError \in BOOLEAN
ASSUME RevisionAssumption == MaxRevision \in Nat

VARIABLES
  identity,    \* the accounts: revision (the latest identity event), roles, active
  member,      \* the members of the case
  build,       \* the release in force
  expired,     \* the decisions whose lifetime is over
  trusted,     \* does the case ledger match its checkpoint?
  adminTrusted,\* and the ledger of the tenant's accounts?
  decision,    \* decisions.state
  bound,       \* the release each decision was bound to when proposed
  reviews,     \* approvals: verdict and identity revision of each human's review
  revoked,     \* approval.revoked events
  reviewing,   \* a review request that has passed reauthentication
  execution,   \* executions.state
  dispatch,    \* holder of dispatch.lock
  pc,          \* where each process is in _execute
  job,         \* the decision it executes
  caller,      \* the human it executes for
  calls,       \* ghost: provider requests that may have left the machine
  effects      \* ghost: results committed

authority == <<identity, member, build, expired, adminTrusted>>
record == <<decision, bound, reviews, revoked>>
run == <<dispatch, pc, job, caller>>
ghosts == <<calls, effects>>
vars == <<authority, record, run, ghosts, trusted, reviewing, execution>>

Verdict == {"approve", "reject"}
Review == [verdict : Verdict, revision : Nat]
ASSUME NoneNotReview == None \notin Review

Account == [revision : Nat, roles : SUBSET Role, active : BOOLEAN]
\* "reserved": intent recorded; "authorized": request artifact preserved;
\* "called": remote_started is set; "answered": the provider has answered;
\* "failing" and "lost": in the exception handler, without and with remote_started.
Place == {"idle", "reserved", "authorized", "called", "answered", "failing", "lost"}

TypeOK ==
  /\ identity \in [Human -> Account]
  /\ member \in SUBSET Human
  /\ build \in Build
  /\ expired \in SUBSET Decision
  /\ trusted \in BOOLEAN
  /\ adminTrusted \in BOOLEAN
  /\ decision \in [Decision -> {"ABSENT", "PENDING", "REJECTED", "CONSUMED"}]
  /\ bound \in [Decision -> Build]
  /\ reviews \in [Decision -> [Human -> Review \cup {None}]]
  /\ revoked \in SUBSET (Decision \X Human)
  /\ reviewing \in [Human -> (Decision \X Nat) \cup {None}]
  /\ execution \in [Decision -> {"NONE", "RUNNING", "COMPLETED", "FAILED", "OUTCOME_UNKNOWN"}]
  /\ dispatch \in Proc \cup {None}
  /\ pc \in [Proc -> Place]
  /\ job \in [Proc -> Decision \cup {None}]
  /\ caller \in [Proc -> Human \cup {None}]
  /\ calls \in [Decision -> Nat]
  /\ effects \in [Decision -> Nat]

Init ==
  /\ identity = [h \in Human |-> [revision |-> 0, roles |-> InitialRoles[h], active |-> TRUE]]
  /\ member = {Creator}
  /\ build \in Build
  /\ expired = {}
  /\ trusted = TRUE
  /\ adminTrusted = TRUE
  /\ decision = [d \in Decision |-> "ABSENT"]
  /\ bound = [d \in Decision |-> build]
  /\ reviews = [d \in Decision |-> [h \in Human |-> None]]
  /\ revoked = {}
  /\ reviewing = [h \in Human |-> None]
  /\ execution = [d \in Decision |-> "NONE"]
  /\ dispatch = None
  /\ pc = [p \in Proc |-> "idle"]
  /\ job = [p \in Proc |-> None]
  /\ caller = [p \in Proc |-> None]
  /\ calls = [d \in Decision |-> 0]
  /\ effects = [d \in Decision |-> 0]

-----------------------------------------------------------------------------
\* How a transaction of the case ledger that commits may end.
Published == UNCHANGED trusted
Lost == trusted' = FALSE

\* _case: an active human member, looked up on ledgers that verify.
MayAct(h) ==
  /\ trusted
  /\ adminTrusted
  /\ h \in member
  /\ identity[h].active

\* Mutant: one human may stand in for several groups.
MatchingAnyone(groups, humans) ==
  \A i \in 1..Len(groups) : \E h \in humans : groups[i] \cap identity[h].roles # {}

\* matching_roles: every group of the policy gets a human of its own.
Matching(groups, humans) ==
  \E f \in [1..Len(groups) -> humans] :
    /\ \A i \in 1..Len(groups) : groups[i] \cap identity[f[i]].roles # {}
    /\ \A i, j \in 1..Len(groups) : i # j => f[i] # f[j]

Reviewers(d) == {h \in Human : reviews[d][h] # None}

\* One approval still stands: verdict, revocation, identity revision, membership.
Stands(d, h) ==
  /\ reviews[d][h].verdict = "approve"
  /\ <<d, h>> \notin revoked
  /\ reviews[d][h].revision = identity[h].revision
  /\ h \in member
  /\ identity[h].active

\* _current: the decision is alive and bound to the release in force.
Current(d) ==
  /\ d \notin expired
  /\ decision[d] # "REJECTED"
  /\ bound[d] = build

\* _approved: every review on record must stand, and they fill the groups.
Approved(d) ==
  /\ Current(d)
  /\ \A h \in Reviewers(d) : Stands(d, h)
  /\ Matching(RoleGroups[d], Reviewers(d))

-----------------------------------------------------------------------------
\* propose: any member; the decision is bound to the release it was made under.
Propose(h, d) ==
  /\ MayAct(h)
  /\ decision[d] = "ABSENT"
  /\ Published \/ Lost
  /\ decision' = [decision EXCEPT ![d] = "PENDING"]
  /\ bound' = [bound EXCEPT ![d] = build]
  /\ UNCHANGED <<authority, reviews, revoked, reviewing, execution, run, ghosts>>

\* reauthenticate, in a transaction of its own before the review.
Reauthenticate(h, d) ==
  /\ reviewing[h] = None
  /\ adminTrusted
  /\ identity[h].active
  /\ reviewing' = [reviewing EXCEPT ![h] = <<d, identity[h].revision>>]
  /\ UNCHANGED <<authority, trusted, record, execution, run, ghosts>>

\* Mutant: a consumed decision can still be reviewed.
ReviewAnyState(h, d, verdict) ==
  /\ reviewing[h] = <<d, identity[h].revision>>
  /\ MayAct(h)
  /\ decision[d] # "ABSENT"
  /\ Current(d)
  /\ reviews[d][h] = None
  /\ Published \/ Lost
  /\ reviews' = [reviews EXCEPT
       ![d][h] = [verdict |-> verdict, revision |-> identity[h].revision]]
  /\ decision' = IF verdict = "reject" THEN [decision EXCEPT ![d] = "REJECTED"] ELSE decision
  /\ reviewing' = [reviewing EXCEPT ![h] = None]
  /\ UNCHANGED <<authority, bound, revoked, execution, run, ghosts>>

\* Mutant: the identity that reauthenticated is not compared with the current one.
ReviewAnyIdentity(h, d, verdict) ==
  /\ reviewing[h] # None
  /\ reviewing[h][1] = d
  /\ MayAct(h)
  /\ decision[d] = "PENDING"
  /\ Current(d)
  /\ reviews[d][h] = None
  /\ Published \/ Lost
  /\ reviews' = [reviews EXCEPT
       ![d][h] = [verdict |-> verdict, revision |-> identity[h].revision]]
  /\ decision' = IF verdict = "reject" THEN [decision EXCEPT ![d] = "REJECTED"] ELSE decision
  /\ reviewing' = [reviewing EXCEPT ![h] = None]
  /\ UNCHANGED <<authority, bound, revoked, execution, run, ghosts>>

\* The review itself, if nothing relevant changed since reauthentication.
SubmitReview(h, d, verdict) ==
  /\ reviewing[h] = <<d, identity[h].revision>>
  /\ MayAct(h)
  /\ decision[d] = "PENDING"
  /\ Current(d)
  /\ \E i \in 1..Len(RoleGroups[d]) : RoleGroups[d][i] \cap identity[h].roles # {}
  /\ reviews[d][h] = None
  /\ Published \/ Lost
  /\ reviews' = [reviews EXCEPT
       ![d][h] = [verdict |-> verdict, revision |-> identity[h].revision]]
  /\ decision' = IF verdict = "reject" THEN [decision EXCEPT ![d] = "REJECTED"] ELSE decision
  /\ reviewing' = [reviewing EXCEPT ![h] = None]
  /\ UNCHANGED <<authority, bound, revoked, execution, run, ghosts>>

\* The review is refused, fails, or its client goes away.
AbandonReview(h) ==
  /\ reviewing[h] # None
  /\ reviewing' = [reviewing EXCEPT ![h] = None]
  /\ UNCHANGED <<authority, trusted, record, execution, run, ghosts>>

\* revoke: one's own review, or anybody's for a supervisor, at any time.
Revoke(by, d, h) ==
  /\ MayAct(by)
  /\ reviews[d][h] # None
  /\ by = h \/ "supervisor" \in identity[by].roles
  /\ Published \/ Lost
  /\ revoked' = revoked \cup {<<d, h>>}
  /\ UNCHANGED <<authority, decision, bound, reviews, reviewing, execution, run, ghosts>>

-----------------------------------------------------------------------------
\* change_user: roles, activity or password; always a new identity event.
ChangeUser(h, roles, active) ==
  /\ adminTrusted
  /\ identity[h].revision < MaxRevision
  /\ roles \in RoleChoices
  /\ identity' = [identity EXCEPT
       ![h] = [revision |-> @.revision + 1, roles |-> roles, active |-> active]]
  /\ adminTrusted' \in {TRUE, FALSE}
  /\ UNCHANGED <<member, build, expired, trusted, record, reviewing, execution, run, ghosts>>

\* membership: a supervisor or admin adds or removes an active account.
Membership(by, h, remove) ==
  /\ MayAct(by)
  /\ identity[by].roles \cap {"admin", "supervisor"} # {}
  /\ identity[h].active
  /\ remove => h # Creator
  /\ Published \/ Lost
  /\ member' = IF remove THEN member \ {h} ELSE member \cup {h}
  /\ UNCHANGED <<identity, build, expired, adminTrusted, record, reviewing, execution, run,
                 ghosts>>

\* The lifetime of a decision, and of every review of it, runs out.
Expire(d) ==
  /\ decision[d] # "ABSENT"
  /\ d \notin expired
  /\ expired' = expired \cup {d}
  /\ UNCHANGED <<identity, member, build, adminTrusted, trusted, record, reviewing, execution,
                 run, ghosts>>

\* The installed source or the provider configuration changes, possibly back.
ChangeBuild(b) ==
  /\ b # build
  /\ build' = b
  /\ UNCHANGED <<identity, member, expired, adminTrusted, trusted, record, reviewing, execution,
                 run, ghosts>>

\* Any other transaction (a read is audited too) commits and loses its checkpoint.
LoseCheckpoint ==
  /\ \/ trusted /\ trusted' = FALSE /\ UNCHANGED adminTrusted
     \/ adminTrusted /\ adminTrusted' = FALSE /\ UNCHANGED trusted
  /\ UNCHANGED <<identity, member, build, expired, record, reviewing, execution, run, ghosts>>

-----------------------------------------------------------------------------
\* How a transaction of an execution that commits may end: published, and the
\* process goes on at next; published or lost with an exception, and it is in
\* the handler at the place "failing" or "lost".
Ends(p, next, handler) ==
  \/ Published /\ pc' = [pc EXCEPT ![p] = next]
  \/ Published /\ LateFsyncError /\ pc' = [pc EXCEPT ![p] = handler]
  \/ Lost /\ pc' = [pc EXCEPT ![p] = handler]

\* Mutant: the lock is released on normal return only.
ReleaseOnReturn(p) ==
  IF pc'[p] = "idle" /\ pc[p] \notin {"failing", "lost"}
  THEN /\ dispatch' = None
       /\ job' = [job EXCEPT ![p] = None]
       /\ caller' = [caller EXCEPT ![p] = None]
  ELSE UNCHANGED <<dispatch, job, caller>>

\* Leaving execute, by return, exception or crash, releases dispatch.lock.
Release(p) ==
  IF pc'[p] = "idle"
  THEN /\ dispatch' = None
       /\ job' = [job EXCEPT ![p] = None]
       /\ caller' = [caller EXCEPT ![p] = None]
  ELSE UNCHANGED <<dispatch, job, caller>>

\* Mutant: intent and authorization in one transaction.
ReserveAndAuthorize(p, h, d) ==
  /\ pc[p] = "idle"
  /\ dispatch = None
  /\ MayAct(h)
  /\ execution[d] = "NONE"
  /\ decision[d] # "ABSENT"
  /\ Approved(d)
  /\ execution' = [execution EXCEPT ![d] = "RUNNING"]
  /\ decision' = [decision EXCEPT ![d] = "CONSUMED"]
  /\ Published
  /\ pc' = [pc EXCEPT ![p] = IF d \in Remote THEN "authorized" ELSE "reserved"]
  /\ dispatch' = p
  /\ job' = [job EXCEPT ![p] = d]
  /\ caller' = [caller EXCEPT ![p] = h]
  /\ UNCHANGED <<authority, bound, reviews, revoked, reviewing, ghosts>>

\* First transaction: the unique execution and the single-use intent.
Reserve(p, h, d) ==
  /\ pc[p] = "idle"
  /\ dispatch = None
  /\ MayAct(h)
  /\ execution[d] = "NONE"
  /\ decision[d] # "ABSENT"
  /\ Approved(d)
  /\ execution' = [execution EXCEPT ![d] = "RUNNING"]
  /\ decision' = [decision EXCEPT ![d] = "CONSUMED"]
  /\ \/ /\ Published
        /\ pc' = [pc EXCEPT ![p] = "reserved"]
        /\ dispatch' = p
        /\ job' = [job EXCEPT ![p] = d]
        /\ caller' = [caller EXCEPT ![p] = h]
     \/ Lost /\ UNCHANGED run
     \/ Published /\ LateFsyncError /\ UNCHANGED run
  /\ UNCHANGED <<authority, bound, reviews, revoked, reviewing, ghosts>>

\* Second transaction of a local tool: authority again, effect and completion.
RunLocal(p) ==
  /\ pc[p] = "reserved"
  /\ job[p] \notin Remote
  /\ MayAct(caller[p])
  /\ Approved(job[p])
  /\ execution' = [execution EXCEPT ![job[p]] = "COMPLETED"]
  /\ effects' = [effects EXCEPT ![job[p]] = @ + 1]
  /\ Ends(p, "idle", "failing")
  /\ Release(p)
  /\ UNCHANGED <<authority, record, reviewing, calls>>

\* Mutant: approvals are checked at reservation only.
AuthorizeUnchecked(p) ==
  /\ pc[p] = "reserved"
  /\ job[p] \in Remote
  /\ MayAct(caller[p])
  /\ Ends(p, "authorized", "failing")
  /\ UNCHANGED <<authority, record, reviewing, execution, dispatch, job, caller, ghosts>>

\* Second transaction of a remote tool: authority again, request preserved.
Authorize(p) ==
  /\ pc[p] = "reserved"
  /\ job[p] \in Remote
  /\ MayAct(caller[p])
  /\ Approved(job[p])
  /\ Ends(p, "authorized", "failing")
  /\ UNCHANGED <<authority, record, reviewing, execution, dispatch, job, caller, ghosts>>

\* Either of them is refused, fails or times out, and is rolled back.
WorkFails(p) ==
  /\ pc[p] = "reserved"
  /\ pc' = [pc EXCEPT ![p] = "failing"]
  /\ UNCHANGED <<authority, trusted, record, reviewing, execution, dispatch, job, caller,
                 ghosts>>

\* remote_started is set, then the request may leave the machine.
CallProvider(p) ==
  /\ pc[p] = "authorized"
  /\ pc' = [pc EXCEPT ![p] = "called"]
  /\ calls' = [calls EXCEPT ![job[p]] = @ + 1]
  /\ UNCHANGED <<authority, trusted, record, reviewing, execution, dispatch, job, caller,
                 effects>>

\* Mutant: remote_started is set only once the provider has answered.
ProviderFailsUnmarked(p) ==
  /\ pc[p] = "called"
  /\ pc' = [pc EXCEPT ![p] = "failing"]
  /\ UNCHANGED <<authority, trusted, record, reviewing, execution, dispatch, job, caller,
                 ghosts>>

\* The provider answers, or the call raises: refused, timed out, cut, too long.
ProviderAnswers(p) ==
  /\ pc[p] = "called"
  /\ pc' = [pc EXCEPT ![p] = "answered"]
  /\ UNCHANGED <<authority, trusted, record, reviewing, execution, dispatch, job, caller,
                 ghosts>>

ProviderFails(p) ==
  /\ pc[p] = "called"
  /\ pc' = [pc EXCEPT ![p] = "lost"]
  /\ UNCHANGED <<authority, trusted, record, reviewing, execution, dispatch, job, caller,
                 ghosts>>

\* Third transaction of a remote tool: what came back is kept, whoever may act.
Preserve(p) ==
  /\ pc[p] = "answered"
  /\ trusted
  /\ execution' = [execution EXCEPT ![job[p]] = "COMPLETED"]
  /\ effects' = [effects EXCEPT ![job[p]] = @ + 1]
  /\ Ends(p, "idle", "lost")
  /\ Release(p)
  /\ UNCHANGED <<authority, record, reviewing, calls>>

PreserveFails(p) ==
  /\ pc[p] = "answered"
  /\ pc' = [pc EXCEPT ![p] = "lost"]
  /\ UNCHANGED <<authority, trusted, record, reviewing, execution, dispatch, job, caller,
                 ghosts>>

\* The exception handler writes its verdict over whatever state is there.
RecordFailure(p) ==
  /\ pc[p] \in {"failing", "lost"}
  /\ trusted
  /\ execution' = [execution EXCEPT
       ![job[p]] = IF pc[p] = "lost" THEN "OUTCOME_UNKNOWN" ELSE "FAILED"]
  /\ Ends(p, "idle", "idle")
  /\ Release(p)
  /\ UNCHANGED <<authority, record, reviewing, ghosts>>

\* The handler raises: the ledger is out of service, or its lock is not free.
HandlerFails(p) ==
  /\ pc[p] \in {"failing", "lost"}
  /\ pc' = [pc EXCEPT ![p] = "idle"]
  /\ Release(p)
  /\ UNCHANGED <<authority, trusted, record, reviewing, execution, ghosts>>

\* The process dies: the operating system releases its locks.
Crash(p) ==
  /\ pc[p] # "idle"
  /\ pc' = [pc EXCEPT ![p] = "idle"]
  /\ Release(p)
  /\ UNCHANGED <<authority, trusted, record, reviewing, execution, ghosts>>

\* Mutant: recovery puts an abandoned execution back in the queue.
RecoverByRetry(d) ==
  /\ dispatch = None
  /\ trusted
  /\ execution[d] = "RUNNING"
  /\ Published \/ Lost
  /\ execution' = [execution EXCEPT ![d] = "NONE"]
  /\ decision' = [decision EXCEPT ![d] = "PENDING"]
  /\ UNCHANGED <<authority, bound, reviews, revoked, reviewing, run, ghosts>>

\* Mutant: recovery does not take dispatch.lock.
RecoverUnlocked(d) ==
  /\ trusted
  /\ execution[d] = "RUNNING"
  /\ Published \/ Lost
  /\ execution' = [execution EXCEPT ![d] = "OUTCOME_UNKNOWN"]
  /\ UNCHANGED <<authority, record, reviewing, run, ghosts>>

\* Mutant: recovery takes every execution for an abandoned one.
RecoverEverything(d) ==
  /\ dispatch = None
  /\ trusted
  /\ execution[d] # "NONE"
  /\ Published \/ Lost
  /\ execution' = [execution EXCEPT ![d] = "OUTCOME_UNKNOWN"]
  /\ UNCHANGED <<authority, record, reviewing, run, ghosts>>

\* tracefoundry recover, for one abandoned execution, under dispatch.lock.
Recover(d) ==
  /\ dispatch = None
  /\ trusted
  /\ execution[d] = "RUNNING"
  /\ Published \/ Lost
  /\ execution' = [execution EXCEPT ![d] = "OUTCOME_UNKNOWN"]
  /\ UNCHANGED <<authority, record, reviewing, run, ghosts>>

-----------------------------------------------------------------------------
Work(p) ==
  \/ RunLocal(p)
  \/ Authorize(p)
  \/ WorkFails(p)
  \/ CallProvider(p)
  \/ ProviderAnswers(p)
  \/ ProviderFails(p)
  \/ Preserve(p)
  \/ PreserveFails(p)
  \/ RecordFailure(p)
  \/ HandlerFails(p)

Humans ==
  \/ \E h \in Human, d \in Decision :
       \/ Propose(h, d)
       \/ Reauthenticate(h, d)
       \/ \E verdict \in Verdict : SubmitReview(h, d, verdict)
       \/ \E by \in Human : Revoke(by, d, h)
  \/ \E h \in Human : AbandonReview(h)
  \/ \E h \in Human, roles \in RoleChoices, active \in BOOLEAN : ChangeUser(h, roles, active)
  \/ \E by, h \in Human, remove \in BOOLEAN : Membership(by, h, remove)

Environment ==
  \/ \E d \in Decision : Expire(d)
  \/ \E b \in Build : ChangeBuild(b)
  \/ LoseCheckpoint

Next ==
  \/ Humans
  \/ Environment
  \/ \E p \in Proc, h \in Human, d \in Decision : Reserve(p, h, d)
  \/ \E p \in Proc : Work(p) \/ Crash(p)
  \/ \E d \in Decision : Recover(d)

Spec == Init /\ [][Next]_vars

\* A process that has reserved an execution keeps running: the lock of the
\* ledger is waited for with a timeout and so is the provider.  Nothing is
\* assumed of people, of the environment, or of recovery.
FairSpec == Spec /\ \A p \in Proc : WF_vars(Work(p))

-----------------------------------------------------------------------------
Rejects(d, h) == reviews[d][h] # None /\ reviews[d][h].verdict = "reject"

\* Work on d has begun once its request or its effect is authorized for good.
Begun(d) ==
  \/ calls[d] > 0
  \/ effects[d] > 0
  \/ \E p \in Proc : job[p] = d /\ pc[p] \in {"authorized", "called", "answered"}

\* A review of d can never count again, or d itself cannot be carried out.
Spoiled(d) ==
  \/ d \in expired
  \/ \E h \in Reviewers(d) :
       \/ Rejects(d, h)
       \/ <<d, h>> \in revoked
       \/ reviews[d][h].revision < identity[h].revision

\* The state column of a decision and the history that _decision recomputes it
\* from agree after every interleaving of reviews, executions and recoveries, so
\* decision_state_history_mismatch is never raised for what the service wrote.
StateMatchesHistory ==
  \A d \in Decision :
    /\ decision[d] = "REJECTED" <=> \E h \in Human : Rejects(d, h)
    /\ decision[d] = "CONSUMED" <=> execution[d] # "NONE"

\* Work begins, by an authorized request or a committed effect, only from a state
\* in which its intent is on record, alive, and covered by the checkpoint of the
\* case: never in the transaction that records the intent, and never after a
\* recovery, a crash or a lost checkpoint has come in between (ARCHITECTURE.md,
\* step 5).
WorkIsWitnessed ==
  [][\A d \in Decision : ~Begun(d) /\ Begun(d)' => execution[d] = "RUNNING" /\ trusted]_vars

\* An operation that has begun was approved by as many different humans as its
\* policy has groups, and rejected by none, whatever reviews came since.
IndependentReview ==
  \A d \in Decision : Begun(d) =>
    /\ Cardinality({h \in Human : reviews[d][h] # None}) >= Len(RoleGroups[d])
    /\ \A h \in Human : ~Rejects(d, h)

\* An approval is single-use: however executions, crashes, recoveries and
\* repeated requests interleave, one decision makes at most one provider
\* request and commits at most one effect.
AtMostOnce == \A d \in Decision : calls[d] <= 1 /\ effects[d] <= 1

\* While a process is at work it alone holds dispatch.lock and its execution is
\* RUNNING, unless the ledger went out of service under it: recovery can then
\* never declare a live execution abandoned.
OneOwner ==
  \A p \in Proc : pc[p] # "idle" =>
    /\ dispatch = p
    /\ trusted => execution[job[p]] = "RUNNING"

\* The recorded outcome tells the truth: an effect is there exactly when the
\* execution is COMPLETED, and FAILED is never said of an execution whose
\* request may have left the machine (that one is OUTCOME_UNKNOWN).
OutcomeIsHonest ==
  \A d \in Decision :
    /\ execution[d] = "COMPLETED" <=> effects[d] > 0
    /\ execution[d] = "FAILED" => calls[d] = 0

\* Once an approval of d is revoked, outdated by an account change or joined by
\* a rejection, or d has expired, before its work begins, that is final: no
\* review, account or membership change, and no intent recorded earlier, lets
\* the work begin after all.
SpoiledStaysUndone ==
  [][\A d \in Decision : Spoiled(d) /\ ~Begun(d) => Spoiled(d)' /\ ~Begun(d)']_vars

\* A review is recorded under the identity its password was checked for, though
\* account changes commit on another ledger between the two transactions.
ReviewedUnderOneIdentity ==
  [][\A d \in Decision, h \in Human :
       reviews[d][h] = None /\ reviews'[d][h] # None =>
         reviewing[h] = <<d, reviews'[d][h].revision>>]_vars

\* Disregarding authority, locks and checkpoints, every execution is a single-use
\* one: it starts once, and its outcome is never rewritten (ANALYST_GUIDE.md: "The
\* original unknown result remains unchanged and no retry is authorized").
Single == INSTANCE SingleUseExecution WITH
  disclosed <- {d \in Decision : calls[d] > 0},
  done <- {d \in Decision : effects[d] > 0}

ImplementsSingleUse == Single!AbsSpec

\* dispatch.lock is always given back, whatever fails on the way: one operation
\* never keeps all the others out for ever.
DispatchIsReleased == \A p \in Proc : (dispatch = p) ~> (dispatch # p)

=============================================================================
