-------------------------------- MODULE Export --------------------------------
(***************************************************************************)
(* service.py and verify.py: an export from the proposal, which freezes a  *)
(* snapshot of the case, over two reviews and the release to the named     *)
(* recipient's download, and the offline verification of what arrives.     *)
(*                                                                         *)
(* The bytes of an artifact and the content of a record never change once  *)
(* written, so an identifier stands for their hash; Damage puts something  *)
(* else in their place.  A snapshot and a decision stand for their own     *)
(* hashes.  Reviewers are eligible members throughout; what else ends a    *)
(* review is Gateway's subject, here its author revokes it.                *)
(***************************************************************************)
EXTENDS CaseAudit

CONSTANTS
  Evidence,    \* artifacts that people stage
  Decision,    \* proposals of an export
  Human,       \* reviewers and recipients
  Supervisor,  \* those of them who are supervisors
  MaxDamage    \* bound of the model: how many artifacts are damaged

ASSUME SupervisorAssumption == Supervisor \subseteq Human
ASSUME IdentifierAssumption ==
  /\ None \notin Decision \cup {"approve", "reject"}
  /\ \A d \in Decision : <<"export_snapshot", d>> \notin Evidence /\ <<"export", d>> \notin Evidence

VARIABLES
  decision,  \* rows of decisions: what each export binds
  verdict,   \* reviews: what each human has said of each export
  revoked,   \* the reviews that are revoked
  over,      \* exports whose lifetime has ended
  begun,     \* exports with an intent
  running,   \* the export being executed
  place,     \* where the execution is with it
  bundle,    \* releases: the approvals, if the receipt was signed too late, the files
  damaged,   \* artifacts whose row no longer is what was preserved
  fetched    \* who has downloaded which artifact

exports == <<decision, verdict, revoked, over, begun, running, place, bundle, damaged, fetched>>
vars == <<audit, reader, exports>>

SnapshotOf(d) == <<"export_snapshot", d>>
BundleOf(d) == <<"export", d>>
Preserved == About(log, "artifact.preserved")

Proposed == DOMAIN decision
Reviews(d) == {<<d, h>> : h \in {g \in Human : verdict[d][g] # None}}
AllReviews == UNION {Reviews(d) : d \in Decision}

\* What an event may be about.
Subject ==
  Evidence \cup {SnapshotOf(d) : d \in Decision} \cup {BundleOf(d) : d \in Decision}
    \cup Decision \cup (Decision \X Human) \cup {None}
Name ==
  {"case.created", "member.added", "evidence.staged", "artifact.preserved", "artifact.downloaded",
   "decision.proposed", "decision.reviewed", "approval.revoked", "execution.intent",
   "execution.completed", "execution.failed", "audit.viewed"}
Entry == [event : Name, about : Subject]

TypeOK ==
  /\ log \in Seq(Entry)
  /\ kept \subseteq 1..Len(log)
  /\ trusted \in BOOLEAN
  /\ reader \in [state : {"new", "reading", "done", "refused"},
                 through : Nat, before : Nat, read : Seq(Entry)]
  /\ Proposed \subseteq Decision
  /\ \A d \in Proposed : decision[d].id = d /\ decision[d].recipient \in Human
  /\ verdict \in [Decision -> [Human -> {"approve", "reject", None}]]
  /\ revoked \subseteq Decision \X Human
  /\ over \subseteq Decision
  /\ begun \subseteq Decision
  /\ running \in Decision \cup {None}
  /\ place \in {"idle", "reserved", "authorized"}
  /\ place = "idle" <=> running = None
  /\ bundle = [d \in Decision |-> bundle[d]]
  /\ \A d \in Decision : bundle[d] # None => bundle[d].late \in BOOLEAN
  /\ damaged \subseteq Preserved
  /\ fetched \subseteq Human \X Preserved

Init ==
  /\ AuditInit
  /\ decision = <<>>
  /\ verdict = [d \in Decision |-> [h \in Human |-> None]]
  /\ revoked = {}
  /\ over = {}
  /\ begun = {}
  /\ running = None
  /\ place = "idle"
  /\ bundle = [d \in Decision |-> None]
  /\ damaged = {}
  /\ fetched = {}

-----------------------------------------------------------------------------
\* _artifact: the row, its bytes and its receipt in the ledger agree.
Intact(a) == a \in Preserved \ damaged

\* Mutant: the events are read after the snapshot's own artifact is recorded.
SnapshotLate(d, selected) ==
  [events |-> Append(log, Event("artifact.preserved", SnapshotOf(d))),
   checkpoint |-> Checkpoint(Len(log)),
   artifacts |-> selected,
   omitted |-> Preserved \ selected,
   decisions |-> Proposed,
   approvals |-> AllReviews]

\* _snapshot
Snapshot(d, selected) ==
  [events |-> log,
   checkpoint |-> Checkpoint(Len(log)),
   artifacts |-> selected,
   omitted |-> Preserved \ selected,
   decisions |-> Proposed,
   approvals |-> AllReviews]

\* matching_roles with the groups of export_case: a supervisor and somebody else.
Matching(humans) == humans \cap Supervisor # {} /\ Cardinality(humans) > 1

Current(d) == d \notin over /\ \A a \in decision[d].artifacts : Intact(a)
Rejected(d) == \E h \in Human : verdict[d][h] = "reject"

\* _approved: every review there is has to be in force.
Approved(d) ==
  /\ Current(d)
  /\ ~Rejected(d)
  /\ Reviews(d) \cap revoked = {}
  /\ Matching({h \in Human : verdict[d][h] # None})

\* store.lock is held from the last look at the approvals to the commit.
Unlocked == place # "authorized"

Stage(a) ==
  /\ Unlocked
  /\ a \notin Preserved
  /\ Commit(<<Event("artifact.preserved", a), Event("evidence.staged", a)>>)
  /\ UNCHANGED <<reader, exports>>

\* propose, for export_case
Propose(d, selected, recipient) ==
  /\ Unlocked
  /\ d \notin Proposed
  /\ selected # {}
  /\ \A a \in selected : Intact(a)
  /\ decision' = [e \in Proposed \cup {d} |->
       IF e = d THEN [id |-> d, artifacts |-> selected, recipient |-> recipient,
                      snapshot |-> Snapshot(d, selected)]
       ELSE decision[e]]
  /\ Commit(<<Event("artifact.preserved", SnapshotOf(d)), Event("decision.proposed", d)>>)
  /\ UNCHANGED <<reader, verdict, revoked, over, begun, running, place, bundle, damaged, fetched>>

Review(d, h, v) ==
  /\ Unlocked
  /\ d \in Proposed \ begun
  /\ ~Rejected(d)
  /\ Current(d)
  /\ verdict[d][h] = None
  /\ verdict' = [verdict EXCEPT ![d][h] = v]
  /\ Commit(<<Event("decision.reviewed", <<d, h>>)>>)
  /\ UNCHANGED <<reader, decision, revoked, over, begun, running, place, bundle, damaged, fetched>>

Revoke(d, h) ==
  /\ Unlocked
  /\ verdict[d][h] # None
  /\ revoked' = revoked \cup {<<d, h>>}
  /\ Commit(<<Event("approval.revoked", <<d, h>>)>>)
  /\ UNCHANGED <<reader, decision, verdict, over, begun, running, place, bundle, damaged, fetched>>

\* The clock: the lifetime of a decision ends, and with it that of its reviews.
Expire(d) ==
  /\ d \in Proposed \ over
  /\ over' = over \cup {d}
  /\ UNCHANGED <<audit, reader, decision, verdict, revoked, begun, running, place, bundle,
                 damaged, fetched>>

\* A row of artifacts is overwritten or decays on the disk.
Damage(a) ==
  /\ Cardinality(damaged) < MaxDamage
  /\ a \in Preserved \ damaged
  /\ damaged' = damaged \cup {a}
  /\ UNCHANGED <<audit, reader, decision, verdict, revoked, over, begun, running, place,
                 bundle, fetched>>

-----------------------------------------------------------------------------
\* _execute, first transaction.
Reserve(d) ==
  /\ running = None
  /\ d \in Proposed \ begun
  /\ Approved(d)
  /\ begun' = begun \cup {d}
  /\ Commit(<<Event("execution.intent", d)>>)
  /\ IF trusted' THEN running' = d /\ place' = "reserved" ELSE UNCHANGED <<running, place>>
  /\ UNCHANGED <<reader, decision, verdict, revoked, over, bundle, damaged, fetched>>

\* Second transaction, _local: the approvals are looked at for the last time...
Authorize(d) ==
  /\ running = d
  /\ place = "reserved"
  /\ trusted
  /\ Approved(d)
  /\ Intact(SnapshotOf(d))
  /\ place' = "authorized"
  /\ UNCHANGED <<audit, reader, decision, verdict, revoked, over, begun, running, bundle,
                 damaged, fetched>>

\* ... and the receipt is signed, with the time it has become; the selected bytes are
\* read once more and the archive is preserved with the completion.
Release(d) ==
  /\ running = d
  /\ place = "authorized"
  /\ \A a \in decision[d].artifacts : Intact(a)
  /\ bundle' = [bundle EXCEPT ![d] =
       [approvals |-> Reviews(d), late |-> d \in over,
        files |-> [a \in decision[d].artifacts |-> IF a \in damaged THEN None ELSE a]]]
  /\ Commit(<<Event("artifact.preserved", BundleOf(d)), Event("execution.completed", d)>>)
  /\ running' = None
  /\ place' = "idle"
  /\ UNCHANGED <<reader, decision, verdict, revoked, over, begun, damaged, fetched>>

\* The work is refused or fails, and is recorded as failed, or its process dies.
Abandon ==
  /\ running # None
  /\ \/ Commit(<<Event("execution.failed", running)>>)
     \/ UNCHANGED audit
  /\ running' = None
  /\ place' = "idle"
  /\ UNCHANGED <<reader, decision, verdict, revoked, over, begun, bundle, damaged, fetched>>

\* Mutant: the recipient's name is enough.
MayFetchNamed(h, d) == h = decision[d].recipient

\* A release goes to its recipient, while its approvals are in force.
MayFetch(h, d) == h = decision[d].recipient /\ Approved(d)

\* artifact_download
Download(h, a) ==
  /\ Unlocked
  /\ Intact(a)
  /\ \A d \in Decision : a # SnapshotOf(d) /\ (a = BundleOf(d) => MayFetch(h, d))
  /\ fetched' = fetched \cup {<<h, a>>}
  /\ Commit(<<Event("artifact.downloaded", a)>>)
  /\ UNCHANGED <<reader, decision, verdict, revoked, over, begun, running, place, bundle, damaged>>

\* audit_view, by another member
View == Unlocked /\ Page /\ UNCHANGED exports

Next ==
  \/ \E a \in Evidence : Stage(a)
  \/ \E d \in Decision, recipient \in Human :
       \E selected \in SUBSET Preserved : Propose(d, selected, recipient)
  \/ \E d \in Decision, h \in Human :
       \/ \E v \in {"approve", "reject"} : Review(d, h, v)
       \/ Revoke(d, h)
  \/ \E d \in Decision : Expire(d) \/ Reserve(d) \/ Authorize(d) \/ Release(d)
  \/ \E a \in Preserved : Damage(a)
  \/ Abandon
  \/ \E h \in Human, a \in Preserved : Download(h, a)
  \/ View

Spec == Init /\ [][Next]_vars

-----------------------------------------------------------------------------
\* The archive that a release has preserved, and the receipt in it.
Released == {d \in Decision : bundle[d] # None}
Receipt(d) ==
  [decision |-> decision[d], snapshot |-> decision[d].snapshot,
   recipient |-> decision[d].recipient, approvals |-> bundle[d].approvals,
   late |-> bundle[d].late]
Archive(d) ==
  [snapshot |-> decision[d].snapshot, decision |-> decision[d],
   approvals |-> bundle[d].approvals, receipt |-> Receipt(d), files |-> bundle[d].files]

(* verify_export.  The keys are obtained elsewhere: what verifies under    *)
(* them is what the service has signed.                                    *)
SignedCheckpoint(c) == \E n \in kept : c = Checkpoint(n)
SignedReceipt(r) == \E d \in Released : r = Receipt(d)
SignedApproval(r) == r \in AllReviews

\* The events are a chain that the enclosed and the pinned checkpoint end.
VerifyChain(s, pin) ==
  \A c \in {s.checkpoint, pin} :
    SignedCheckpoint(c) /\ c.count = Len(s.events) /\ c.head = s.events

\* "Bind its records back to the ledger."
VerifyRecords(s) ==
  /\ s.decisions = About(s.events, "decision.proposed")
  /\ \A r \in s.approvals : SignedApproval(r)
  /\ s.approvals = About(s.events, "decision.reviewed")
  /\ s.artifacts \cap s.omitted = {}
  /\ s.artifacts \cup s.omitted = About(s.events, "artifact.preserved")

\* The files of the archive are the selected artifacts.
VerifyFiles(s, files) ==
  /\ DOMAIN files = s.artifacts
  /\ \A a \in s.artifacts : files[a] = a

\* Mutant: the release is about the same selection, not about the same snapshot.
VerifySelection(x) ==
  /\ x.decision.artifacts = x.snapshot.artifacts
  /\ SignedReceipt(x.receipt)
  /\ x.receipt.decision = x.decision
  /\ ~x.receipt.late

\* The release decision and its receipt are about this snapshot.
VerifyScope(x) ==
  /\ x.decision.artifacts = x.snapshot.artifacts
  /\ x.decision.snapshot = x.snapshot
  /\ SignedReceipt(x.receipt)
  /\ x.receipt.decision = x.decision
  /\ x.receipt.snapshot = x.snapshot
  /\ x.receipt.recipient = x.decision.recipient
  /\ ~x.receipt.late

\* Distinct humans have approved this decision, and the receipt lists them.
VerifyApprovals(x) ==
  /\ \A r \in x.approvals :
       SignedApproval(r) /\ verdict[r[1]][r[2]] = "approve" /\ r[1] = x.decision.id
  /\ x.approvals = x.receipt.approvals
  /\ Matching({r[2] : r \in x.approvals})

VerifyExport(x, pin) ==
  /\ VerifyChain(x.snapshot, pin)
  /\ VerifyFiles(x.snapshot, x.files)
  /\ VerifyRecords(x.snapshot)
  /\ VerifyScope(x)
  /\ VerifyApprovals(x)

\* What else a recipient may be handed: a snapshot with a record dropped or moved to
\* the omissions, or cut back or extended to another length, ...
Altered(s) ==
  {s}
  \cup {[s EXCEPT !.artifacts = @ \ {a}] : a \in s.artifacts}
  \cup {[s EXCEPT !.artifacts = @ \ {a}, !.omitted = @ \cup {a}] : a \in s.artifacts}
  \cup {[s EXCEPT !.omitted = @ \ {a}] : a \in s.omitted}
  \cup {[s EXCEPT !.decisions = @ \ {d}] : d \in s.decisions}
  \cup {[s EXCEPT !.approvals = @ \ {r}] : r \in s.approvals}
  \cup {[s EXCEPT !.events = First(n, log), !.checkpoint = Checkpoint(n)] : n \in kept}

\* ... with the decision, the receipt and the approvals of any release, one of them
\* dropped, and the selected bytes or others in their place.
Archives(s) ==
  {[snapshot |-> s, decision |-> decision[d], approvals |-> Reviews(f) \ dropped,
    receipt |-> Receipt(e), files |-> files] :
     d \in Released, e \in Released, f \in Released,
     dropped \in {{}} \cup {{<<f, h>>} : f \in Released, h \in Human},
     files \in {[a \in s.artifacts |-> a], [a \in s.artifacts |-> None]}}

-----------------------------------------------------------------------------
(* The length that an export binds at its proposal has a retained          *)
(* checkpoint, and the frozen snapshot agrees with it: the pin that the    *)
(* verifier needs can be fetched whenever the release comes                *)
(* (ADMINISTRATION.md:76).                                                 *)
FrozenCanBePinned ==
  \A d \in Proposed :
    LET s == decision[d].snapshot IN
    /\ Len(s.events) \in kept
    /\ VerifyChain(s, Checkpoint(Len(s.events)))
    /\ VerifyRecords(s)

Pinned(d) == Checkpoint(Len(decision[d].snapshot.events))

Downloaded == {d \in Decision : \E h \in Human : <<h, BundleOf(d)>> \in fetched}

(* Whatever else happened to the case since the proposal, a release passes *)
(* the offline verifier under the pin of its snapshot if its receipt was   *)
(* signed in the lifetime of the decision.  The lifetime may end between   *)
(* the last look at the approvals and the signing; the verifier rejects    *)
(* what is then recorded as completed, but nobody can download it: what a  *)
(* recipient has downloaded passes without exception.                      *)
ReleasedIsAccepted ==
  \A d \in Released :
    ~bundle[d].late \/ d \in Downloaded => VerifyExport(Archive(d), Pinned(d))

OnlyReleased ==
  \A d \in Proposed : \A s \in Altered(decision[d].snapshot), n \in kept :
    VerifyChain(s, Checkpoint(n)) /\ VerifyRecords(s) =>
      \A x \in Archives(s) :
        VerifyExport(x, Checkpoint(n)) =>
          \E e \in Released : x = Archive(e) /\ Checkpoint(n) = Pinned(e)

(* Whenever a release adds to what the service has signed: no archive put  *)
(* together from signed parts, and no altered snapshot, passes the         *)
(* verifier under any retained pin, except the releases themselves, each   *)
(* under its own pin.                                                      *)
OnlyReleasedIsAccepted == [][bundle' # bundle => OnlyReleased']_vars
=============================================================================
