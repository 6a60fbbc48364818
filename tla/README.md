# TraceFoundry IR in TLA+

TraceFoundry IR is a local web application and command-line tool for incident
response. Analysts stage evidence in a *case*, propose operations on it (import
logs, build a timeline, ask a model, accept a finding, export, close, ...), and
the service executes an operation only after named humans have approved exactly
that proposal. It has to keep its word under concurrent requests, lost
authority, crashes, failed writes and a remote provider that may or may not
have received a request: *an approval is used once, nothing is done without a
recorded intent, nothing is repeated, and what cannot be known is recorded as
unknown*.

This directory holds specifications of that core, TLC models of them, and TLAPS
proofs. File names below are relative to `src/src/tracefoundry_ir/`.

    tlc -config Identity.cfg MCIdentity.tla     # check a model
    tlapm IdentityProofs.tla                    # check a module's proofs

## 1. Inventory

| Component | State it keeps | Operations | What is hard about it |
|---|---|---|---|
| Ledger store (`store.py` 112-279, `security.py`) | `audit` rows per ledger, `checkpoints/<ledger>.json` and one history file per length, `transaction.lock` | `transaction`, `audit`, `verify_ledger`, `checkpoint` | The SQLite commit and two files are three steps; each can fail or be the last one before a crash; several processes share the lock; an older database may be put back |
| Identity (`store.py` 281-556, `app.py` 114-122, 201-220) | `users` (signed), `sessions` (signed), `login_attempts`, the ledgers `admin-<tenant>` and `authentication` | `add_user`, `change_user`, `change_password`, `login`, `session`, `logout`, `reauthenticate` | Login, a request and a command of the host are several sections under the lock; session rows may be restored; denials may fail to be audited |
| Approval gateway (`service.py` 31-701, 893-1066) | `cases`, `members`, `decisions`, `approvals`, `executions`, the case ledger, `dispatch.lock` | `propose`, `review`, `revoke`, `membership`, `execute` | Authority is checked three times and can be lost in between; two ledgers; the exception handler; the provider call outside any transaction |
| Case workflow (`service.py` 299-347, 703-891, 1081-1256) | `findings`, `artifacts`, `chunks` and the records of challenges, resolutions, reconciliations, gaps, closure | the local tools, `_snapshot`, `_inventory`, `close_case`, `export_case` | Several approved decisions aim at one target; closure must see everything open; the rows are recomputed from the ledger |
| Recovery (`service.py` 1444-1472) | none of its own | `recover` | Runs beside a server; lists first and marks later; several cases in one pass |
| Model provider (`provider.py`) | none | `draft_pack`, `assess` | The request may have left whatever is raised; the timeout is per read |
| Role policy (`tools.py` 90-98) | none | `matching_roles` | One human with several roles must not fill two groups |
| Evidence and vault (`service.py` 145-297, `security.py`) | encrypted artifacts | `stage`, `artifacts`, `chunks` | A file and its row |
| Log import, timeline, candidates (`tools.py`) | none (pure) | `parse_logs`, `timeline`, `candidates` | Fallback between formats, time conversion |
| Research packs (`tools.py`, `service.py`) | `packs` | `validate_pack`, `run_pack`, promotion | Closed rule set, tests shipped with the pack |
| Export and offline verification (`service.py`, `verify.py`) | an archive | `export_case`, `verify_export` | Two programs must agree on what is complete |
| Backup and restore (`maintenance.py` 124-274) | an archive | `create_backup`, `restore_backup` | Consistent snapshot under two locks; old sessions and approvals must not revive |
| Audit paging, doctor (`service.py` 1330-1440, `maintenance.py` 44-121) | none | `audit_view`, `inspect_state` | Pages of a ledger that grows meanwhile |
| HTTP boundary, CLI, console (`app.py`, `cli.py`, `static/`) | cookies | routing, CSRF, limits | No decisions of their own |

`PROJECT.json` says for every component which modules model it and how completely;
section 6 says what is left out.

How they interact: every change of state runs in `Store.transaction(ledger)`,
under one cross-process file lock, and leaves an audit row in that ledger; the
gateway reads accounts from the tenant's ledger and everything else from the
case's. `execute` and `recover` exclude each other through a second file lock,
`dispatch.lock`, which `execute` keeps across the provider call. There are no
callbacks and no messages; the actors are server threads, commands of the host
beside the server, people, time, the installed release, and the disk.

What makes each component correct:

* store - the signed checkpoint never covers rows that are not committed, what a
  caller was told is committed is covered, a ledger whose checkpoint was lost
  never comes back by itself, and one length is never signed with two contents;
* identity - whoever a session is accepted for knew the password in force, an
  ended session never comes back, changes of an account compose, and the limit on
  attempts holds although its audit may fail;
* gateway - independent review by different humans, single use, intent before
  work, honest outcomes, and authority that is final once lost;
* workflow - one effect per target, a clean and frozen closed case, and a case
  whose rows always pass the service's own integrity checks;
* export and audit - what is frozen at the proposal can be pinned, the offline
  verifier accepts what the service releases and nothing else, and pages that are
  read while the ledger grows are pages of one ledger;
* backup and recovery - an emitted backup is whole and stays true, a restored copy
  revives no session and no review, and a recovery misses no abandoned run;
* pure tools - different humans for different groups, no record lost or invented by
  the choice of a format, pages of a timeline that are honest about what they leave
  out, and packs that fire in use as their tests say.

## 2. Modules

| Module | Models | Uses |
|---|---|---|
| `AtomicLedger` | what a ledger promises: a transaction is accepted as a whole or ends the service of its ledger | |
| `CheckpointedLedger` | `Store.transaction` with lock, commit, history file, current file, crashes and errors; `RewindSpec` adds a host that puts older state back | implements `AtomicLedger` |
| `SingleUseExecution` | what the gateway promises of every decision | |
| `Gateway` | propose, review, revoke, membership, accounts, release, expiry, execution of local and remote tools, handler, crash, recovery | implements `SingleUseExecution`; a transaction is one step as in `AtomicLedger` |
| `Workflow` | what executions leave in a case: records, exports, closure, recovery | same abstraction of a transaction |
| `Identity` | accounts, sessions, attempt limits | same abstraction of a transaction |
| `CaseAudit` | the content of a case's ledger, its retained checkpoints, `audit_view` page by page | same abstraction of a transaction |
| `Export` | an export from its frozen snapshot to the download, damaged rows, and `verify_export` | extends `CaseAudit` |
| `Installation` | a state directory with work and recovery, `create_backup`, `restore_backup`, and the copy at work beside the original | same abstraction of a transaction |
| `Tools` | `matching_roles`, `parse_logs`, `bounded_rows`, `validate_pack`, `run_pack` | |
| `MC...` | instances for TLC | |
| `...Proofs` | theorems of `CheckpointedLedger`, `Gateway`, `Identity`, `Workflow`, `Installation`, `Export`, `Tools` | |
| `RolePolicyProofs` | that the gateway and the recursion of `matching_roles` mean the same | `Gateway`, `ToolsProofs` |

**Transactions.** `CheckpointedLedger` has the four steps of a transaction
(begin and verify, commit, history file, current file) and every way out of
them. It is shown to implement `AtomicLedger`, and the other modules build on
that: a transaction of theirs is one step that ends in one of three ways.
*Published*: it took effect and its ledger is in service. *Lost*: it took effect,
its checkpoint is missing, it raised, and its ledger refuses every later
transaction (`trusted = FALSE`, or a member of `broken`). *Published, but its caller
is told it failed*, which happens when the fsync of the directory fails after
`os.replace` (`security.py` 74-79); the constant `LateFsyncError` of `Gateway` and
`Workflow` says whether that may happen. Where the content of a ledger is modelled
(`CaseAudit`, `Export`), it is proved that its steps are those of `AtomicLedger`
(`CaseImplementsLedger`).

**CheckpointedLedger.** A hash chain determines its prefix, so a checkpoint is
modelled as the sequence of events it commits to, and signatures as the fact that
only `WriteHistory` and `ReplaceCurrent` produce checkpoints. `phase` is the
place in `transaction`, `batch` the uncommitted audit rows, `rows` the table,
`current` and `history` the two kinds of file, `torn` the history files that were
created and not completed (`secret_write` creates exclusively). A process that
crashes gives the lock back; nothing else does except the ends of `transaction`.

**Gateway.** One open case. `identity[h].revision` stands for the hash of the
latest identity event of an account; a review remembers it. A review is two
transactions on two ledgers: `Reauthenticate`, then `SubmitReview` or
`AbandonReview`. `Reserve` is the first transaction of `_execute`; `RunLocal` the
second one of a local tool; `Authorize`, `CallProvider`, `ProviderAnswers` /
`ProviderFails`, `Preserve` the rest of a remote one. `WorkFails` and
`PreserveFails` are every refusal or exception of the work; the place "failing"
or "lost" is the `except` clause without or with `remote_started`.
`RecordFailure` writes its verdict without looking at the row, as the code does;
`HandlerFails` is the handler raising in its turn. `Recover` is recovery of one
execution. `expired` abstracts clocks: a decision's lifetime ends at any moment
after its proposal. One release (`build`) stands for policy, registry digest and
provider configuration, which `_current` compares together. Roles are matched by
`Matching`, which says what `matching_roles` decides; its recursion is in `Tools`, and
`RolePolicyProofs` proves that the two agree.

**Workflow.** One case again, without reviews: a decision that is not executed
stands for one that is not approved. Its constant `Offered` lists the tools that may
be proposed, up to all of the registry. `recorded` is the set of decisions whose
record (finding, challenge, resolution, reconciliation, import, gap, pack, closure)
exists, `receipt` the outcome in the latest ledger receipt, against which the code
checks the row (`execution_dict`). Recovery is split as in the code: `ListRunning`,
then `MarkUnknown` row by row.

**Identity.** `Store.lock` *is* `transaction.lock`, a file lock shared by all
processes, and `login` and `reauthenticate` hold it for a whole section. So a
section is one step; `login` has two (`VerifyLogin`, `OpenSession`), a request two
(`Admit` is `session()`, then what it asks for), `change_user` two (`BeginChange`,
`CommitChange`), and `change_password` keeps the lock between its two commits
(`lock`). `Age` and `Expire` abstract clocks. `PutBack` is the host restoring an old
session row, as `tests/test_review_completion.py` does.

**CaseAudit.** Here the events of a ledger matter, so `log` is a sequence of what
was recorded about what, and `kept` the lengths whose checkpoint is retained: a
transaction writes one for the length it ends at, and none in its middle. A prefix of
`log` stands for the hash of its last event. A request for a page appends
`audit.viewed` before it reads, so every page makes the ledger longer; the reader
names a length (`through`), or takes the head of its own first request, and repeats
it with the cursor of the page before.

**Export.** `decision[d].snapshot` is what `_snapshot` froze at the proposal.
Authorisation and signing are two steps (`Authorize`, `Release`) because time passes
between them, though no other transaction does. `verify_export` is `VerifyExport`,
check by check; `Altered` and `Archives` are what else a recipient may be handed:
snapshots with something dropped, moved or cut back, combined with the decisions,
receipts, approvals and files of any release. `Damage` is an artifact whose bytes no
longer are what was preserved; it can hit any artifact at any moment.

**Installation.** A site is a `Database` record and the set of its `broken` ledgers.
The backup holds both locks from its inspection to its last transaction
(`Unlocked`, `DispatchFree`), copies the database and then the checkpoint files, and
may fail after each step; `moved` would be the ledgers that went on in between. The
restoration resets one account after the other in its temporary directory and only
then puts the directory in place; after that the copy runs the same operations as
the original. In every session and review `at` records where it was given; no action
reads it. `ListRunning`, `MarkUnknown`, `RecoveryStops` are the loop of `recover` over
all cases, which ends at the first case out of service.

**Tools.** These functions have no state: an initial state is an input, a behaviour
one call. A source is given by what `strict_json` makes of the whole text and of each
line, in the shapes the code tells apart, with the records it is read as and, should it
be taken as one record, that record (`self`); an event by its fields; a row of evidence by
its time and whether it matches the filters. The recursion of `matching_roles` and the
loop over the lines of a source are recursive functions; the sort of `bounded_rows` is
`Sorted`, some arrangement of the rows in the order of their times.

## 3. What the runs check

| Run | Instance | What it shows |
|---|---|---|
| `ledger_safety` | 2 processes, 2 ledgers, 2 events, length 2, fair | checkpoints neither run ahead of rows nor hide them; acknowledged means covered; a blocked ledger stays blocked; refinement of `AtomicLedger`; `transaction.lock` is always given back |
| `ledger_rewind` | 1 ledger, length 3, older database and current file put back | never two signed contents of one length |
| `gateway_review` | 2 humans; 1 remote decision under a two-person policy or 1 local one under a one-person policy; 2 releases | independent review; lost authority is final; one identity per review; reviews that come after consumption never make state and history disagree |
| `gateway_execution` | 2 processes, 1 local and 1 remote decision, fair | single use, intent first, one owner, honest outcome, refinement of `SingleUseExecution`; `dispatch.lock` is always given back |
| `workflow` | 4 decisions, every tool, any target | row and receipt agree; one effect per target; closure is clean and final; records and completions correspond |
| `identity` | 1 account, 2 processes, 2 passwords, 2 tokens | the identity properties of section 1 |
| `export` | 2 exports, 2 humans, 1 staged artifact, 1 damaged one, a reader with pages of 1 and 3 | frozen snapshots can be pinned; what is released in time and what is downloaded passes the offline verifier, nothing else does; a reading is one prefix, moves on, and stays bound |
| `installation` | 2 cases, 2 accounts, 1 change of each, 1 lost checkpoint | the backup is whole and stays true; nothing is revived; recovery misses nothing |
| `tools` | all small inputs (below) | role matching is Hall's condition; no import hides or invents a record; timeline pages are honest; a validated pack fires as its tests say |
| `ledger_late_fsync`, `workflow_late_fsync`, `workflow_export` | smallest ones | the findings of section 5 |

Each property is an invariant or action property with a comment in its module
that says which behaviour of the code it is about. `PROJECT.json` records for each
one a small change of the model (definitions marked `Mutant`) under which TLC finds
it violated; the changes are the bugs that the property exists for: a lock not
taken, a check done once instead of twice, a commit before its witness, and so on.
The type invariants of the modules with proofs are proved and not listed in the
configurations.

**Bounds, and why they are enough.** Two processes are the least that can
conflict, and a third could only wait: both locks exclude everybody else. Ledgers
do not influence each other except through the lock, so two; a length of three is
enough for a fork that is longer than the state put back. In `Gateway` a decision
never reads another one's state, so the two decisions of `gateway_execution` meet
only at `dispatch.lock`, and in `gateway_review` the constraint `OneProposed` proposes
only one of the two. `gateway_execution` uses a one-person policy (also for its remote
tool) and no account changes, because executions depend on reviews only through
`Approved`, which `gateway_review` exercises with both policies: there two humans
fill a two-person policy with none to spare, or a one-person policy with one to
spare (a spare reviewer can still spoil it). `MaxRevision = 1` lets each account change
once, which outdates every earlier review; the promotions and demotions offered
(`RoleChoices`) let a human gain or lose eligibility. A human has one review request
in flight. `Identity` needs three identity events for a password to change and change
back, and a limit of one instead of five: the limit is only compared with a count. Its
accounts share nothing but the lock, so one is enough. `Workflow` has a target, two
rivals for it and a closure, of every kind.

In `export` the constraint `Bounded` splits one large instance into the cases that
matter: one export with up to three incidents (revocation, expiry, damage, rejection,
failure, download) and a ledger of up to 14 events; a reader who pages through a
shorter ledger; and two undisturbed exports, whose parts can be combined in the
archives the verifier is given. `MaxEvents = 18` is never what stops those. In
`installation` the constraint `OneSiteAtATime` lets the original rest once the copy is
in place: the two share nothing any more, and before that the original does all it
can. `MaxRevision = 1` is one change of each account at either site; with 2 more than
ten million states were searched and no violation found. `MaxBroken = 1`: a second
lost checkpoint stops nothing that the first does not. `Calls` of `tools` are all
policies of up to three groups with up to three humans, all sources of up to three
entries or lines in every shape, three rows of evidence with any times and every
window and limit, and all packs of up to two rules and two tests. What the bounds
leave out, the proofs cover, except for the liveness properties.

**Deadlock** is checked, except where the whole system may rightly stop: when
the ledgers of a small instance are full or out of service (`CHECK_DEADLOCK FALSE`
in the `CheckpointedLedger`, `Workflow`, `Export`, `Installation` and execution
configurations), or after the one call of `Tools`. Whether a *lock* could be kept for
good is the subject of `LockIsReleased` and `DispatchIsReleased`.

**Fairness.** `FairSpec` assumes weak fairness of the steps of a process that is
inside `transaction` or `execute`: such a process runs or dies. Nothing is
assumed of people, of clocks, of recovery or of the environment. For the provider
call this is a real assumption: `urlopen` has a timeout of 45 s per read, so an
answer that trickles in keeps `dispatch.lock` for longer, up to the size limit of
the answer.

## 4. What is proved

The theorems hold for every set of processes, ledgers, events, humans, decisions,
policies, accounts, tokens, artifacts and page sizes, and for every value of the
bounds. The assumptions on constants are named in the modules that declare them;
TLC evaluates them in the runs.

*CheckpointedLedgerProofs.* The inductive invariant relates lock, phase and files:
only the holder of the lock is in a transaction; outside one, a ledger in service
has exactly the rows of its current checkpoint; a torn file lies beyond the current
checkpoint. None of the properties is inductive without it: that an acknowledged
transaction stays covered, for instance, depends on nobody opening a transaction on
a ledger whose rows have outrun its checkpoint. Proved: `TypeCorrect`,
`WitnessSafety`, `AcknowledgementSafety`, `ArchiveSafety`, `TornFilesAreOutOfReach`,
`BlockedStaysBlocked`, `LedgerRefinement` (the refinement of `AtomicLedger`), and
`ForksAreNotSigned` for `RewindSpec`, whose invariant is that intact history files of
one length are equal and that every current checkpoint is among them.

*GatewayProofs.* `IInv` is `TypeOK`, `Control` (a process at work holds
`dispatch.lock`, and its intent is RUNNING), `Progress` (how far each
execution can have come at each place of the code) and `StateMatchesHistory`.
Single use is not inductive by itself: that a process that is about to call the
provider has not called it already follows from `Control`, and that follows from the
lock. `IntentFirst` is an action property: only a process past its reservation begins
work (`OnlyReadyBegins`). From `IInv`: `TypeCorrect`, `SingleUse`, `IntentFirst`, `HistoryAgrees`,
`IndependentReviewers` (by counting: an assignment of different humans to the groups
is an injection; it needs `HumansAreFinite`), `ReviewIdentity`, `LostAuthorityIsFinal`.
Under the assumption `~LateFsyncError`, which section 5 shows to be needed for the
code as it is, a second invariant `Exact` (the recorded state determines what has been
disclosed and done) gives `HonestOutcomes`, `LiveRunsAreOwned` and
`SingleUseRefinement`. `OutOfServiceIsFinal` says what the promise of `AtomicLedger` means
for the gateway: on a ledger out of service nothing is recorded and nobody is authorised;
a request that was authorised before may still leave.

*IdentityProofs.* `IInv` says what a thread in the middle of something knows: an
account seen earlier has lost no event, and if it has gained none it is unchanged
(`SeenBefore`); a session's revision is in force only while the password that opened
it is; the holder of the lock in `change_password` sees the account as it is; and the
rows of `login_attempts` count exactly the answers given. From it: `TypeCorrect`,
`PasswordInForce`, `SerializedSelfService`, `BoundedGuesses`,
`EndedSessionsStayEnded`, `ResetLeavesActivation`.

*WorkflowProofs.* The invariant adds to the properties `Control` (whoever executes has a
row that is RUNNING, or COMPLETED by a transaction whose caller was told it failed, and
recovery sees none but RUNNING rows), `Rows` and `Aimed` (rows appear in the order of the
protocol, and what is reconciled is an execution) and `Closing` (what may still run in a
closed case). From it:
`TypeCorrect`, `RowsAgree`, `OneEffectPerTarget`, `CleanClosure`, `ClosedStaysFrozen`,
and under `~LateFsyncError` both `InventoryIsExact`, which says more than `_inventory`
compares, and `OwnHistoryIsAccepted`, which says what it and `_workflow_records` compare
and which `workflow_late_fsync` refutes without that assumption. `OutOfServiceIsFinal` as in `GatewayProofs`, for everything a case keeps.

*InstallationProofs.* `Work` says that executing and recovering exclude each other and
that an executing process has a RUNNING row; `BackupUnderWay` that while a backup is
under way nothing executes and the copied database is the live one;
`Abandoned` that what the archive shows RUNNING nobody executes any more;
`Dates` that nothing at a site is newer than the site, and that what a copy took over
is older than the identity events its restoration added. That last part is why a
restored session or review is refused for good. From it: `TypeCorrect`,
`ConsistentBackup`, `NoRevival`, `CompleteRecovery`.

*ExportProofs.* `Kept` is that a ledger in service ends at a retained checkpoint, so a
snapshot taken inside a transaction is one that can be pinned. `Recorded` is that the
ledger names exactly the proposals and reviews there are; with `Snapshots` it makes
what a snapshot lists agree with its events for ever. `Agreed` (the reviews of an
export that has begun no longer change) makes the approvals in the archive those that
the verifier finds; `Settled` (an archive in the case belongs to an export that is over
with) makes a late receipt one that nobody has downloaded. `Reading` says what a cursor
means. The lemmas about sequences (`AboutAppended`, `SubSeqConcat`, `RowsAre`) carry
the arithmetic of pages. From it: `TypeCorrect`, `OnePrefix`, `Advance`, `Pinnable`,
`Accepted`, `OnlyAccepted`.

`CaseImplementsLedger` proves that the case's ledger takes only the steps that
`AtomicLedger` allows. It maps to `accepted` what the newest retained checkpoint covers:
events whose checkpoint was lost are in `log` and are not accepted. Only steps are
mapped: `AtomicLedger` begins with an empty ledger, `CaseAudit` with a case that
`create_case` has already recorded.

*ToolsProofs.* The four properties of `Tools`, for policies, sources, rows and packs of
any length. A call has one answer, so the invariant is that the answer is what the call
computes (`AnswersAreComputed`), and the work is in what the definitions compute. No
induction theorem can be used here; instead each induction is an argument by least
counterexample (`Least`, `UpTo`), and the recursive definitions are unfolded by the lemmas
`SucceedsForDef` and `RowsOfLinesDef`.

* `MatchingIsHall`: the recursion of `matching_roles` succeeds exactly when every set of
  groups has at least as many eligible humans. The argument takes one group at a time.
  What goes for the remaining groups without some human goes for one group more with that
  human (`OneMore`). Conversely, sets of groups with just as many eligible humans are
  closed under union (`TightUnion`), so there is a largest (`LargestTight`), and an
  eligible human of the next group whom it does not need can be spared (`CanSpare`).
* `MatchingGivesDifferentHumans`: the same recursion succeeds exactly when different
  eligible humans can be assigned to all groups.
* `NothingIsHidden`: the loop over the lines gives one row for each line that is not
  blank, in order and with its number (`LineRowsStandForLines`), and whichever format is
  chosen, the rows are those of the whole document or of all lines (`ImportedRows`).
* `PagesAreHonest`: any finite set of rows can be sorted (`CanSort`, by ranks), so `Sorted`
  is sorted; its first rows are then the earliest, in order (`FirstSorted`).
* `AcceptedPacksFireAsTested`: what `validate_pack` demands of all tests together says of
  each rule that it fires where its tests want it, and of each test that it is met.

*RolePolicyProofs.* `GatewayDecidesByRecursion`: for every decision and set of humans,
the gateway's `Matching` holds exactly when the recursion in `Tools` succeeds for those
humans with the roles that they have. The independence of reviewers proved of `Gateway`
is thereby about the code's algorithm.

Only model-checked: the two liveness properties, `LockIsReleased` and
`DispatchIsReleased`. They follow from the fairness of steps, which is a statement about
ENABLED, and TLAPS has no support for it here.

## 5. Where the code and its documents disagree

* `ledger_late_fsync` - `store.py` line 1 says "A failed checkpoint blocks further
  operations." When the fsync of the directory fails after the replacement, the
  caller is told that the transaction failed, and the ledger goes on in service.
* `workflow_late_fsync` - the exception handler (`service.py` 1041) writes FAILED over
  whatever is there. After the failure above in the completing transaction of an
  `accept_finding` (the only tool this run offers), a finding stays whose acceptance is
  FAILED. `_inventory` (`service.py` 1219-1230) compares the findings with the completed
  acceptances, so from then on every export and closure of the case raises
  `case_result_inventory_incomplete`: `HistoryIsAccepted`, that the service takes the
  history it wrote itself, is violated.
* `workflow_export` - an export of a closed case can end OUTCOME_UNKNOWN, and then no
  reconciliation can be proposed, although the administration guide says unknown
  outcomes are resolved that way.

Noticed, and in the models as the code has it:

* `recover` stops at the first case that is out of service and leaves the runs of the
  cases after it RUNNING (`service.py` 1457; `RecoveryStops`). It raises, so nobody is
  told that it succeeded, and it can be repeated once the case is back.
* The lifetime of an export can end between the last look at its approvals and the
  time in its receipt. The execution is then recorded as COMPLETED, and the offline
  verifier would reject the archive ("Release outside decision lifetime"); nobody can
  download it (`ReleasedIsAccepted`).
* A JSON object whose `Records` is not an array is read again as a JSON line and
  becomes one record itself, of whatever time and kind it has ("misfit" in `Tools`).
* The test events of a pack keep values that are not strings, while the rows it is run
  on have been made text: a rule that compares with such a value can only fire in the
  tests. `Tools` offers strings only.

## 6. Not modelled

* Cryptography is assumed: signatures are not made by others and hashes do not
  collide. Encryption of the vault and of backups, sizes and formats are data.
* HTTP framing, cookies, CSRF, schema validation, the browser console and the wording of
  results keep no state that the properties are about. The command line dispatches to
  the store and the service; what it changes while a server runs is in `Gateway`,
  `Identity` and `Installation`.
* The content of the provider's request and answer, and what `_local` copies of it into
  a draft.
* The fields that an adapter of `parse_logs` picks, the document nested in `AuditData`,
  and the fixed rules of `candidates`: tables, which tests cover.
* Principals of kind "service", which no command creates, are left out of `Identity`.
  Several tenants would be copies of one.
* Findings, reconciliations and challenges in an export's snapshot. The offline verifier
  covers them by the hash of the snapshot alone (`verify.py` 153); it binds only
  artifacts, decisions and approvals to events of the ledger (`verify.py` 75-137), and
  those are what `Export` has.
