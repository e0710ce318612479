# QMToolV7: a TLA+ model of its workflows, sessions, training and operations

QMToolV7 is a quality-management system. A backend host serves HTTP routes
over modules for documents, registry, users, signatures, incidents and
training, on PostgreSQL and a blob store; command line tools do backup,
restore and update rehearsal. This directory models the parts in which order,
concurrency and failure decide whether the program is right, checks them with
TLC and proves the central properties with TLAPS. File names below are paths
under the repository root; `PROJECT.json` maps every definition to the lines it
models.

## 1. Inventory

| Component | State | Operations | Talks to |
|---|---|---|---|
| Workflow profiles (`modules/documents/workflow_profile_store.py`, `workflow_profiles.json`) | definitions as rows "from status -> to status", four-eyes flag, signature requirements, required roles | validate, resolve, activate | read once by `start_workflow`, copied into the version row |
| Document workflow (`modules/documents/service.py`, `workflow_use_cases.py`, `validation.py`, `signature_guard.py`, `artifact_ops.py`) | one row per version: status, owner, profile, assignments, review and approval evidence, release and archive fields, supersession link, extension count, last event; current artifacts per type | create, import, assign, start, complete editing, accept/reject review and approval, abort, archive, extend, new version, metadata, change request | signature module, artifact store, registry projection, event bus |
| Optimistic locking (`src/backend/documents_routes.py`, `mutate_version_if_current`) | the ETag (last event id) each client holds | GET, every mutating route with If-Match, template upload | document workflow |
| Registry (`modules/registry/service.py`, `scripts/registry_recovery_drill.py`) | one entry per document: active version, register state, findable | apply a version's state, rebuild | written inside a documents transaction, through its own connection |
| Service host (`src/backend/service_host.py`, `request_drain.py`) | life-cycle state, server thread, drain phase and count, ownership of the marker | start, stop, enter/leave a state-changing request | operation lock, host-running marker, rehearsal state |
| Operation lock, maintenance, backup (`qm_platform/runtime/operation_lock.py`, `maintenance.py`, `qm_platform/blob/backup_orchestrator.py`) | lock and marker directories, installed and kept release tree, rehearsal state file, backup sets | backup, restore drill, start and abort of an update rehearsal | host, database, blob store |
| Comments (`modules/documents/comment_service.py`, `comment_sync_service.py`) | rows per version and context: reference number, Word id, text, status, `updated_at` | add in the application, synchronise with the Word file, change status | document workflow (phase, current file), routes (token) |
| Read confirmation (`modules/documents/pdf_read_tracking_service.py`, `public_read_confirmation_service.py`) | reading sessions with page times, read receipts | start, report progress, finalise, confirm directly | event bus -> training progress |
| Users and sessions (`modules/usermanagement/*`) | user rows (role, active, password state), session rows, the steps of requests under way | login, resolve, logout, change and reset password, create user, change access | every route resolves its session here |
| Incidents and CAPA (`modules/incident_management/*`) | incident status, assessment, root cause, CAPA case and approval, actions, inquiries, effectiveness, leadership acknowledgements, management review batches | one per service operation | none; rows are written through separately committed repository calls |
| Training (`modules/training/*`) | tags, scopes, manual assignments, exemptions, snapshots; quiz bindings, replacement log, quiz sessions, attempts, progress | change an input, rebuild, import/bind/replace a quiz, start and submit it | releases and receipts of the documents module |
| Database evolution (`qm_platform/persistence/database_evolution.py`) | version of each SQLite database, backups, migration journal, evolution lock | preflight, migrate, recover, restore command | every program that opens the databases |
| Settings (`qm_platform/settings/*`) | `settings.json`, its residual archive and cutover journal in the application home; technical values, archive hash and cutover status in the SQLite or PostgreSQL store | cut over, resume, seed, attach, change settings, import a snapshot | every program start; database backup before a cutover |
| Document headers, profile definitions over time, signature rendering, licensing, audit, data import, read models, user interfaces | | | listed in `PROJECT.json` with the reason they are not modelled |

What is hard here:

* **Protocol sequences.** A version passes through rejections, aborts,
  restarts, role updates and imports in any order; the evidence that a
  released version carries must survive all of them. The interesting
  violations take seven to ten calls.
* **Profiles are data.** The same engine runs chains with and without review,
  approval and signatures; a check that is right for the bundled long chain
  can be wrong for a short one.
* **Concurrency.** Two clients work on the same version; one route decides
  before it awaits a body and acts after.
* **Partial failure.** The registry commits before the documents transaction.
  Replacing a release tree and recording that it was replaced are two steps.
  An incident operation is up to five commits, a rebuild of the training
  snapshots one per user and document, a migration one per database; each may
  be the last.
* **Time-outs and crashes.** Start and stop of a host have deadlines; lock and
  marker are directories that outlive the process. Migrations and the settings
  cutover keep a journal from which a later start, perhaps of another program,
  goes on.

What makes each part correct: *workflow* - four eyes over all review rounds,
complete release evidence, assignments that keep naming who reviewed and
approved, executable signatures, content released as reviewed, sound
supersession, finality; *locking* - no update is overwritten by a client that
did not see it; *registry* - the active version is the approved one; *host and
maintenance* - a backup sees no writes, one host at a time, only on the release
that is meant to run, nothing locked for ever by a call that ended;
*comments* - numbers unique, one row per Word comment, a decision is made on the
text that was read and survives the next synchronisation; *sessions* - an
administrator always remains, a revoked session stays revoked, no request gets
through before a required password change; *incidents* - a closed incident has
all its evidence, an interrupted operation can be repeated; *training* - a pass
was earned on that version and is kept, snapshots follow from the inputs;
*database evolution* - nothing opens a half-migrated set, and a crash leads
back to a usable one; *settings* - a program serves complete settings taken
from one state of the file, the move happens once, and an interrupted one is
completed.

## 2. Modules

**WorkflowProfiles** - the profiles the store accepts (`ValidDefinition`): a
chain from editing to APPROVED as a function `next`, and the bundled profiles.

**DocumentsWorkflow** - one document, its versions as `versions`, one action
per mutating operation. Each operation runs under the service's mutation lock
in one database transaction, so it is one action. A guard is the conjunction
of route permission, policy (`EvaluateWorkflowAction`), active profile, state
checks (`StateInvariants`) and the partial unique index that allows one
APPROVED row (`UniqueApproved`); an operation that raises changes nothing and is
no step. Signing and the files belong to the action: `Sign`, `WithSourcePdf`
and `WithReleasedPdf` compute the artifacts the operation leaves. Abstractions:
times are set or unset, texts and custom fields are left out, a signed or
released PDF is identified with the content it shows, so that "what was signed"
and "what was released" can be compared.

**DocumentsOptimisticLock** (extends DocumentsWorkflow) - clients that hold an
ETag, one environment that may do any mutation at any time, and the template
upload for a missing version in its three steps outside the lock. The history
variable `lost` records a write over an update its author had not seen. Event
ids are UUIDs that are only compared, so a new one is any id that nobody holds.

**DocumentsRegistry** (extends DocumentsWorkflow) - the registry entry, written
before the documents transaction ends; `Commit`, `Rollback` (crash or failed
commit after the registry wrote) and the recovery drill.

**HostMaintenance** - host processes and operators on one installation: start
and stop step by step, requests that enter and leave, the server thread,
time-outs at any moment, the operation lock and the marker, backup (database
first, files second), restore drill, start and abort of an update rehearsal,
failure of every step, crash of every process. A tree or file whose writing
does not end is `Partial` or `Invalid`. It is independent of the document
modules: they share the database, not control.

**DocumentComments** (extends DocumentsWorkflow) - the comments beside the
version they belong to: adding one, changing its status with the token the
client read, and the synchronisation that matches the comments in the current
Word file with the rows (`Sync`). `updated_at` is the number of the operation
that wrote the row. The comments of an uploaded file are a constant of the
content, so that an upload may renumber them. Its next-state relation contains
that of the workflow: every operation on comments asks the policy and the roles
of the version's current phase.

**IncidentManagement** - incidents from submission to closure and archive, and
the periodic management review. Every service operation is a run of separately
committed writes; an action takes the incident file to any state of its run, so
that an operation may be refused by its second half, or interrupted, with the
first half in place.

**UserSessions** - user and session rows, and requests that hold what they have
read: a login checks the user and later inserts the session; a resolution reads
the session, the user and touches the session in separate statements; an access
change counts the administrators before its transaction and again inside it.

**PdfReading** - receipts and tracked reading of one document's versions. Here and
in the training modules `approved` is the version that is released now, or 0, and
`released` the set of those that ever were: versions are released in any order, a
lower one after a higher one too, and the released one may be archived without a
successor. **AssignmentView** - the abstract specification of the training
snapshots: they disappear only all at once, come back one at a time, and name only
versions that were released, though perhaps no longer are. **TrainingAssignments** -
the inputs (tags, scopes, manual assignments, exemptions, releases) and the rebuild
that deletes all snapshots and writes them one by one from inputs it read at its
start; it implements AssignmentView (`ImplementsAssignmentView`). **TrainingQuiz**
composes PdfReading and AssignmentView with the quizzes: import, binding,
replacement in three transactions, sessions with their sampled questions, attempts,
progress. Users act through several clients; a call commits the receipt or the
attempt, reads the progress row and writes it anew from what it read, three steps
between which other calls come and after each of which it may end (`calls`). The
checks of `start_quiz` and the session it inserts are one step. The module uses the
abstract view, since what the quiz relies on is what the view promises.

**DatabaseEvolution** - programs that start, migrate or restore a set of SQLite
databases: preflight without the lock, lock, backup, journal, one step per
database, verification, undo, removal of the journal; recovery at the next
start; crash of any program at any step; the operator's restore of a backup
set. A database is its version, whether the validators accept it, and the work
recorded in it. History variables: `ledger` (the work recorded and not discarded
by the operator: a restore discards what the chosen set lacks and, while a journal
is pending, what the journal's set lacks, since the next start restores that one)
and `torn` (a restore was broken off, an application was open on files that
another program was replacing, or the operator chose a set saved half migrated or
half replaced); the properties except `torn`, because the code promises nothing
there (section 5).

**SettingsCutover** - the programs of one application home move
`settings.json` into their stores: technical settings into the database,
policies into an archive whose hash the database anchors, progress into a
journal file. One action per write, a crash possible before each; resumption,
the seed of an installation without the file, attaching, changes by the running
program, the hardening of the backend, the copy of a SQLite store into an empty
PostgreSQL one. Desktop programs and the backend share file, journal and
archive but not the store, and each knows only the modules registered when it
attaches; the keys of a module are one value, since a payload must contain all of
them. A file may have values that do not fit the schema of their module: the
classification lets them pass, a later attachment refuses such policies, the import
such settings (`ImportRefused`). A hash is the content it was taken of. Starts happen one at a time and the
file is left alone during one (`Quiet`): the code does not exclude overlapping
starts, and would not withstand them (section 5).

**MCDocumentsWorkflow, MCDocumentsOptimisticLock, MCDocumentsRegistry,
MCDocumentComments, MCIncidentManagement, MCTrainingQuiz, MCDatabaseEvolution,
MCSettingsCutover** give the constants of their modules values; HostMaintenance, UserSessions and
TrainingAssignments need only sets of model values and numbers and are run as
they are.

The theorems are in eight modules. **HostMaintenanceProofs**,
**UserSessionsProofs**, **TrainingAssignmentsProofs**, **TrainingQuizProofs**,
**IncidentManagementProofs**, **DatabaseEvolutionProofs** and
**SettingsCutoverProofs** are about the module they are named after;
**DocumentsProofs** is about DocumentsWorkflow and the modules that extend it,
DocumentsRegistry, DocumentComments and DocumentsOptimisticLock.

Operators whose comment begins with "Mutant" are faulty variants of the
definition below them; they are used only to confirm that the properties
notice such a fault.

## 3. Runs

| Run | Instance | Shows |
|---|---|---|
| `long_release` | 2 versions, a QMB and a delegated user, both can be reviewer and approver, `long_release` | FourEyes, ReleaseEvidence, AssignmentEvidence, SignaturePossible, SupersessionSound, ReleaseIsFinal hold |
| `content` | 1 version, 2 contents with renumbered Word comments, QMB and user, 2 comment rows, 3 comment writes | ReviewedIsReleased: a file imported during review or approval is not what gets released; RefNosUnique, TokenMeansSeen, DecisionsSurviveSync |
| `optimistic_lock` | 1 tracked client, 1 version, template upload in progress | NoLostUpdate |
| `registry` | 2 versions under an approval chain or a direct release, commits, rollbacks, rebuilds | ActiveIsApproved, ArchivedNeverActive |
| `host_maintenance` | 2 hosts, 1 operator, 2 releases, 2 requests per host | QuiescentBackup, OneHost, HostRunsExpectedRelease, AbortIsKept, LockIsReleased, DrainEnds |
| `incidents` | 2 incidents, one of which a QMB works on, six kinds of assessment, 2 users, 2 open inquiries, 1 action, 1 review batch | ClosedEvidence, StatusBackedByRows, InterruptedAssessmentRecoverable, CompletedReviewAcknowledged, AssessmentFixedOnceActedOn |
| `user_sessions` | 2 users, 2 sessions, 2 requests at a time | LastAdminKept, NoContextBeforePasswordChange, RevocationIsFinal |
| `training_assignments` | 1 user, 2 versions released in any order and archived, 1 tag, 1 manual assignment, 2 exemptions, 1 crash | SnapshotsTrue, ImplementsAssignmentView |
| `training_quiz` | 1 user with 2 clients, 1 version, 1 page, 2 quizzes with different questions, 2 bindings, 1 session submitted any number of times, 2 recorded attempts, interruptions anywhere | PassEarned, PassIsKept, OneActiveBinding |
| `database_evolution` | 2 programs, 2 databases, software at version 2, 3 backups, 1 crash, 1 fault | RunsOnWholeSet, HalfMigratedIsJournaled, JournalLeadsBack, AttemptEnds |
| `settings_cutover` | a desktop with 2 modules, a newer one with 3, a backend with the user management alone; a complete, an older and an unacceptable file, one with ill-typed settings and one with ill-typed policies, 2 changes of it, 2 crashes | ServesWholeSettings, TakenFromOneFile, CompletionIsFinal, InterruptedCutoverCompletes |
| `corrections` | 1 version, 2 contents, QMB, administrator, user | CorrectionIsSigned is violated |

Every module states a type invariant, for the reader and as the base of proofs;
all are proved, that of PdfReading as part of TrainingQuiz's. The runs spend their time on the other properties.

`corrections` states what the repository says (`PROJECT.json` quotes the line) and
is violated: at the end of editing the signed PDF of an earlier round is
preferred to the source PDF, so a file corrected after a rejection is neither
signed nor released.

### Bounds

*Users*: two are enough for four eyes to fail (the reviewer approves) and the
assignment sets let both hold both roles; the administrator appears in
`corrections`, where the precedence of QMB over administrator matters. *Versions*: supersession, the
unique approved version and new versions after archive relate two rows; cycles
among more are covered by the theorem. *Contents*: two tell the old file from
the new one. *Events*: the workflow only stores them, one suffices; the
locking run needs one more than the ids that can be held at once. *Clients*:
the tracked client is compared with an environment that does everything, so
more tracked clients add nothing. *Hosts*: two, because the hazards are between
a host that failed or was not stopped and a second one. *Operators*: one, since
the lock admits one operation at a time and a second operator could only be
refused. *MaxRequests*: two, so that a drain passes through a non-zero
decrement. *MaxExtensions* is the code's own limit.

*Comments*: two rows are enough for a number to be given twice; three writes
let a comment be read, synchronised with another text and decided. *Incidents*:
incidents meet only in a review batch, so one that is worked on and one that is
only submitted suffice for a batch that misses an item; the assessments cover
every decision (documentation only, root cause, CAPA by setting or by choice).
*Open inquiries and actions*: the closure check asks whether any is open;
two inquiries let one be closed while the other blocks. *Requests*: the races
are between two requests, two sessions tell the own session from the others of
the user. *Training*: users do not interact except that one rebuild serves all,
so one user suffices; two versions are released in either order and make a rebuild
write one that is no longer released; two exemptions overlap. The quiz run has one
version, because the interleavings of two clients with the administrator already
give 3.2 million states: its questions are about one progress row, and that nothing
of one version counts for another is left to the theorems, which hold for any
number. Two clients read the same row before either writes it; two recorded attempts
fail and pass, and a session is submitted as often as one likes. *Page
threshold*: 1 instead of the code's 10 ticks per page, so that one report reads the
page; that pages begun and not read do not count is again a theorem's
(`ReceiptsAreEarned`). *Databases*: two make a set that can be half
migrated; *programs*: one that migrates and one that starts beside it; three
backups allow one migration, its repetition and the safety copy of a restore.
*Settings*: one program per combination that matters (other store, other set of
modules); two changes of the file take it away and bring it back; two crashes
interrupt a cutover and its resumption.

### Fairness

The document modules state none: every step is a user's decision and all
properties there are safety properties. `HostMaintenance!FairSpec` assumes weak
fairness of (a) what a begun start, stop or operation still does - every wait in
that code has a deadline, and its steps run in one thread - and (b) `Leave`: a
state-changing handler ends. Nobody is assumed to start or stop anything, and
crashes may happen or not. Under (b) a stop that is repeated often enough gets
through; without it only the deadline ends a drain, which is why `DrainEnds`
needs it and `LockIsReleased` does not.

`DatabaseEvolution!Spec` assumes weak fairness of `Advance(p)` for each
program: a started program goes on by itself, and it never waits for the lock
(it gives up), so `AttemptEnds` needs no fairness between programs.

`SettingsCutover!Spec` assumes that a start goes on by itself (weak fairness of
`Step`) and that every program is started again and again (strong fairness of
`Start`, since a start waits for another one to end). The second is a claim about
the users, not the code: InterruptedCutoverCompletes says that restarting is all
that is needed.

Deadlock is checked in the document runs. In HostMaintenance it is not: after
a crash of an operation the lock directory stays and really blocks every start
and operation (no code removes it). In the training runs it is not either: the
bounded numbers of attempts and rebuilds run out.

## 4. Theorems

No property of section 3 is inductive by itself. Each part below therefore rests on
one inductive invariant, which TLC checked on the instance of the run (and, for
databases and settings, on a second one) before it was proved. The
instances bound the number of calls; the theorems hold for every bound.

### The document workflow

In DocumentsProofs, for any sets of users, versions, contents,
events and any profiles that satisfy the named assumptions of
DocumentsWorkflow (`UsersAssumption`, `VersionAssumption`, `ProfileAssumption` -
the store accepts only valid chains of the document's control class -
`DataAssumption`).

| Theorem | Statement |
|---|---|
| `Invariance` | `Spec => []IInv` |
| `TypeCorrect` | rows stay well-formed |
| `SupersessionIsSound` | links start at archived versions, lead to existing ones and form no cycle |
| `FourEyesHolds` | four eyes, if a review phase directly follows editing in every profile |
| `ReleaseEvidenceHolds` | release evidence complete and only on released versions, if a review is followed by an approval in every profile |
| `ReleaseStaysFinal` | no step undoes or rewrites a release |

The two conditions on profiles are necessary: without the second, `accept_review`
leads to APPROVED and leaves the release fields unset (section 5), and the store accepts a chain
IN_PROGRESS -> IN_APPROVAL -> IN_REVIEW, under which the approval comes before
the review.

`IInv` is TypeOK, a predicate `RowInv` for every row, and SupersessionSound.
None of the listed properties is inductive by itself; `RowInv` adds

* `PhaseInv` - a version in a working phase has an active workflow and a profile
  whose chain contains that phase; without it `next[status]` is undefined;
* `EvidenceInv` - before the release there is no release evidence; without it an
  abort or a rejection could start from a half-released row;
* `LinkInv` - only archived versions are superseded, which makes a new link
  point from the end of a chain;
* `FourEyesInv` - from IN_APPROVAL on, the last review is in the reviewers list;
  this is what the approver is compared with.

Most operations write one row; `StoreOne` reduces them to "the written row
satisfies RowInv and keeps its link". The two that write more (approval with
supersession, new version after archive) use `LinksToOneVersion`: when all
changed links point at one version that has none itself, no cycle appears.
`ReleaseStaysFinal` has one lemma per group of operations, over `IInv`.

Three more theorems are about profiles in which editing ends with a signature
(`SignedEditing`), as it does in the bundled `long_release`:

| Theorem | Statement |
|---|---|
| `EvidenceInvariance` | `Spec => [](IInv /\ EInv)` |
| `AssignmentsStayEvidence` | the assignment of a released version names its reviewer and its approver, if the profiles have all phases |
| `SigningNeverStuck` | every phase after editing finds a PDF to sign |
| `ReviewedBecomesReleased` | what was under review is what is released, if a review is followed by an approval |

`EInv` says of every row that after editing the signature flag and a signed PDF are
there and, if the profiles have all phases, that whoever completed the review or the
approval is still assigned to it. The flag is what takes the roles away from
the owner, the signed PDF what the following phases continue from, so the theorems
about content and signatures follow from it. The conditions on the profiles are
necessary: without the signature the owner may rewrite the roles after the release, nothing pins the
content, and an approval finds nothing to sign (section 5).

The theorems treat an operation as atomic, which `mutate_version_if_current`
provides. The template upload of DocumentsOptimisticLock does not go through it
and can write back a stale row, so they do not carry over to `LockSpec`.

### Hosts and maintenance

In HostMaintenanceProofs, for any number of host processes, operators, releases
and concurrent requests, from `ProcessAssumption` (the kinds of identifiers are
distinct) and `BoundAssumption`:

| Theorem | Statement |
|---|---|
| `HostInvariance` | `Spec => []HInv` |
| `HostTypeCorrect` | process states well-formed, request counts never below zero |
| `OneHostHolds` | at most one host has come up and not been stopped |
| `QuiescentBackupHolds` | no write by such a host while a backup reads |
| `ExpectedReleaseHolds` | such a host runs a complete, expected release |
| `AbortIsKeptHolds` | what an abort put back stays until the next candidate is staged |
| `LockHolderIsAtWork` | the lock is never left with a process that has returned from its call |
| `DrainNeverGrows` | a drain admits nothing: its count only falls until the host stops or dies |

`HInv` adds to the types: `LockHeld` (a start before its outcome and an operation
to its end hold the lock - so they exclude each other), `MarkerOwned` (a host that
came up owns the marker), `NoMarker` (past its checks a backup or rehearsal runs
without any marker, because only a start creates one and it would need the
lock), `ReleaseChecked`, `PartialIsBlocked` (a partial tree is only installed
while staged or under a stale lock), `SnapshotKept`, `RestoringInv` and
`AbortInv` (what is kept and installed at each step of a rehearsal). A host step
writes its own record and takes or gives back lock and marker (`HostStep`); a
step of an operation happens while nobody else is between lock and unlock
(`OperationAlone`), so it is reduced to facts about the files
(`OperationStep`). The last two theorems rest on `CallInv` beside `HInv`: the
holder of the lock is in a call, a host that waits for its server admits requests,
and one that drains is in "stopping" - the last is why no later start can reopen the
tracker of a stop that timed out.

### Registry, comments and locking

Also in DocumentsProofs, for any users, versions, profiles, files, numbers
of comments and clients.

| Theorem | Statement |
|---|---|
| `RegistryInvariance`, `RegistryTypeCorrect` | `RegistrySpec => []RInv`, the types |
| `RegistryNamesApproved` | without a rollback that left the entry behind, the entry names the approved version |
| `NoArchivedActive` | no archived version is the active one, rollback or not |
| `CommentsInvariance` | `CommentsSpec => [](IInv /\ CInv)` |
| `CommentNumbersUnique` | no two comments of a kind share a number |
| `FittingTokenWasSeen` | a token that still fits was read with the row as it is |
| `DecisionsAreKept` | a status changes only in a decision about that comment with a fitting token, in no synchronisation, and no comment is renumbered or dropped |
| `LockInvariance`, `LockTypeCorrect` | `LockSpec => []LInv`, the types |
| `NoUpdateIsLost` | no write with a matching If-Match replaces an update its author has not seen |

`RInv` states what the workflow guarantees for the rows that are seen and for the
committed ones, because a rollback brings the latter back; `ArchivedNeverActive`
survives a rollback because no operation takes a version out of ARCHIVED. The
lemmas sort the operations by their effect on statuses (`Effect`): one version
changes, and others only from APPROVED to ARCHIVED when that one is approved.
`CInv` bounds the numbers: a comment added in the application has at most the
number of rows of its context, one from Word at most the highest number so far,
and both grow with every row. Tokens are bounded by the number of writes, so a
written row has a token nobody has read. The synchronisation numbers new comments in
the order of the file; `Nth` says this by counting and not by recursion, so that
it can be proved about.

`LInv` cannot build on `IInv`, which the template upload breaks. What is left is
that the phase of every row, also of the one the upload holds, belongs to its
profile (`PhasesOK`, `UploadOK`), and `ClientOK`: a client whose ETag is the stored
one has loaded the stored row, or that row was superseded. The lemmas show of every
operation that a row it changed carries the new event, differs in the source PDF
only, or is superseded (`Traced`); `WatchingClient` concludes that a client which
did not make the change keeps `ClientOK`. `EventAssumption` says that event ids
do not run out; ids that nobody holds any more may come again.

### Users and sessions

In UserSessionsProofs, for any users, sessions and overlapping requests.

| Theorem | Statement |
|---|---|
| `SessionsInvariance`, `SessionsTypeCorrect` | `Spec => []SInv`, the types |
| `LastAdminRemains` | an active administrator always remains |
| `RevocationStaysFinal` | a revoked session stays revoked, no context is confirmed for it |
| `PasswordChangeComesFirst` | no ordinary request gets through before a required password change |

`SInv` says what a request that has read something may still rely on when it goes
on: its session was issued, the user of the session exists, and a demand to change
the password made after the user was loaded has revoked the session. The count
of administrators before the transaction plays no part in the proof; the one
inside it does all the work.

### Training

In TrainingAssignmentsProofs and TrainingQuizProofs, for any users, versions, tags,
quizzes, sessions and clients, releases and archiving in any order, and any number of
interrupted rebuilds, replacements and calls.

| Theorem | Statement |
|---|---|
| `AssignmentsInvariance` | `Spec => []AInv` |
| `SnapshotsAreTrue` | after a completed rebuild over unchanged inputs the snapshots are right |
| `AssignmentsRefineView` | the projection implements AssignmentView: only versions that were released are ever assigned |
| `QuizInvariance` | `Spec => []QInv` |
| `PassesAreEarned` | a pass has its receipt and its submitted session |
| `AtMostOneBinding` | at most one active quiz for a version |
| `PassesAreKept` | a pass is lost only to a call that had read the row before the pass was written |
| `QuizTypeCorrect` | the types, those of PdfReading included |
| `ReceiptsAreEarned` | a receipt is of a version that was released, or its user had read every page |

`AInv` adds that a rebuild under way only has rows of released versions to write,
and that, while the inputs are unchanged, what is not left to write is written
correctly. The first is what the refinement needs: a row appears only for a
version in `released`, also when the version was archived or superseded, by a lower
one perhaps, after the rebuild had read the catalog. `QInv` adds that a session was
started after reading, that a pass has a submitted session, that between the
transactions of a replacement the version has no active binding, and, of every call
under way (`CallsOK`), that its receipt or its attempt is there and that what it has
read of the row was earned: a row written from an old reading is therefore earned as
well, although it may lose a pass. `ReceiptsAreEarned` has the alternative because a
tracked reading does not ask whether the version is released, and a direct
confirmation asks for nothing else.

### Incidents

In IncidentManagementProofs, for any users, incidents, assessments and batches.

| Theorem | Statement |
|---|---|
| `IncidentsInvariance`, `IncidentsTypeCorrect` | `Spec => []MInv`, the types |
| `ClosedIncidentsKeepEvidence` | a closed incident keeps its evidence |
| `AssessmentCanBeRepeated` | without a stored decision the assessment can be entered again |
| `StatusHasItsRows` | the status never runs ahead of the rows |
| `CompletedReviewsAreAcknowledged` | a completed batch has no open item |
| `DecisionsActedOnAreFixed` | what has been acted on is not decided anew |

The invariant is a predicate of one incident file (`FileOK`): before the decision
nothing that needs one was done, the rows a status stands for exist, and what
closing asked for is still there. An operation leads to one of the states its run
commits, so a lemma per operation shows that *every* state of its run satisfies
the predicate; interruption after any commit is covered by the same lemma.

### Database evolution

In DatabaseEvolutionProofs, for any number of programs, databases, versions,
backups, crashes and faults.

| Theorem | Statement |
|---|---|
| `EvolutionInvariance`, `EvolutionTypeCorrect` | `Spec => []DInv`, the types |
| `HalfMigratedKeepsItsJournal` | a half-migrated set is never without its journal |
| `JournalIsAWayBack` | the set a journal names can be started from |
| `ApplicationsRunOnWholeSets` | an application runs on a whole, current set with all recorded work |
| `AttemptsAdvance` | an attempt goes through its steps in one direction, whatever others do |

`DInv` says for every step of a program what lock, journal and files are
(`StageInv`, `FilesOK`), and that there is always a whole set (`WholeInv`): the one
the journal names, or else the databases themselves, or, during the operator's
restore, the safety backup. The attempt to prove `WholeInv` showed what three
backups do not reach: with a journal pending, an operator's restore of a newer
set is undone by the next start (section 5). `ledger` and `torn` say so now.

### Settings

In SettingsCutoverProofs, for any programs, modules and files, and any number of
crashes and changes of settings.json, from `CutoverConstants` (every program
registers the user management, and files name known modules) and `NoneAssumption`
("no file" is not a file, nor "no journal" a journal).

| Theorem | Statement |
|---|---|
| `SettingsInvariance`, `SettingsTypeCorrect` | `Spec => []SInv`, the types |
| `ServedSettingsAreWhole` | a program that is up has a completed, whole store and the anchored archive |
| `TakenOverFromOneFile` | store and archive come from the one file the journal names |
| `CompletedStaysFinal` | a completed store and the archive are not overwritten |
| `InterruptedCutoversResume` | a resumption passes all checks, and no module is refused at its import, while settings.json is the journaled file and its values fit their schemas |
| `InterruptedCutoversPersist` | an interrupted cutover stays so until its journal is closed or settings.json changes |
| `StartsAdvance` | a start goes through its steps in one direction and handles a module once |

`SInv` is TypeOK, `OneStart` (starts are modelled one at a time), `JournalOK` (no
store is completed before the journal has the hash of the archive, and from then on
the archive is that of the journaled file), `TakenOK` (a completed store has the
settings of that file, and changed ones only once the journal is closed) and
`StageOK` (what journal, archive, anchor, store and the memory of a start are at each
of its steps). `JournalOK` carries the proof: a kill forgets everything `StageOK`
says of a start, and what remains for the next one is what the journal stands
for. `InterruptedCutoversPersist` ends with the closed *journal*, not with the
program's own cutover: when two programs register the same modules, a start of the
one can resume and close the journal of the other.

### Only model-checked

Liveness: `LockIsReleased`, `DrainEnds`, `AttemptEnds` and
`InterruptedCutoverCompletes`, because fairness and ENABLED are beyond the prover. The
safety facts they rest on are proved: `LockHolderIsAtWork`; `DrainNeverGrows`;
`AttemptsAdvance`; `InterruptedCutoversResume`, `InterruptedCutoversPersist` and
`StartsAdvance`. What TLC adds is that somebody takes the next step.

## 5. Observations that are not runs

Documents:

* The approval signature accepts only SIGNED_PDF as input
  (`signature_guard.py:179`); under the bundled profile `fast_path` nothing has
  signed before, so such a version cannot be approved.
* `accept_review` takes the next status from the profile; when that is APPROVED
  (a profile that ends with the review, which the store accepts), release fields,
  RELEASED_PDF and the end of the workflow are missing
  (`workflow_use_cases.py:207`).
* The template upload finds no version, awaits the body, and then writes back a
  row it read outside the lock, without If-Match (`documents_routes.py:1939`);
  NoLostUpdate speaks of clients that present one.
* Register state and findability of the registry follow the version that was
  written last, the active version does not (`modules/registry/service.py:39`):
  a new draft hides the valid version.
* Superseding archives the older version without an event, so its ETag does not
  change; `NoLostUpdate` excepts it, and the status checks refuse what the stale
  client could do.
* Versions approved out of order: an older version can supersede a newer one.
* Profiles without an edit signature let the owner rewrite the approvers after
  the release; AssignmentEvidence is therefore claimed for `long_release` only.
  They also do not pin the content (`Controlled_Short_woSig`), so
  ReviewedIsReleased is not claimed for them either.
* A direct release does not supersede; with an older approved version the
  unique index refuses it.
* `complete_editing` always asks for the signature key
  `IN_PROGRESS->IN_REVIEW`, whatever phase follows.
* An extension signs SIGNED_PDF again and leaves RELEASED_PDF as it was.
* A Word file whose comments are renumbered makes a decision stick to another
  text (a comment that comes back in a later file finds its row by its Word
  id); TokenMeansSeen only says that nobody decides on a text unseen. The model
  gives every operation its own instant; two within one clock tick would share
  a token. A QMB may comment on the PDF outside the phase the comment is for.

Hosts and databases:

* A start that times out after a request was admitted stops the host with one
  second, fails again, and releases the operation lock although no marker was
  made (`service_host.py:320`); a backup then runs beside the request.
  QuiescentBackup is therefore about hosts that have come up.
* The rehearsal state is written in place; a failed write makes it invalid JSON
  and every start, rehearsal and abort is refused from then on. Nothing clears it.
* The handler that puts the release tree back can fail too, and a keyboard
  interrupt skips it; the lock is released in both cases. The model assumes that
  the handler runs and succeeds. Otherwise, with no earlier abort on record, a
  host starts on a partial or unstaged tree. The same holds when the lock of a
  crashed rehearsal is removed by hand; the model never removes it. (Directories
  left by a dead host are removed by hand in the model.)
* `migrate` removes its journal in a `finally`, also when the undo before it
  failed; the half-migrated set has no journal then. The restore command keeps
  no journal, ignores an existing one, and its safety backup may save a
  half-migrated set. With a journal pending, the operator's choice does not last:
  the next start copies the journal's set over it
  (`database_evolution.py:446`, `docs/DATABASE_EVOLUTION_POLICY.md:86`). A start
  reads journal and statuses without the lock, so it can open files that a later
  recovery replaces.

Settings:

* Two starts at once are not excluded. One that read the journal before the
  other closed it resumes, and imports the file over settings that were changed
  since. A cutover also parses the file before the database backup and hashes it
  after, so an edit in between is journaled as the source of what it did not
  write.
* A cutover killed before the archive hash is journaled is refused by every later
  start (`settings_cutover.py:402`). `tests/platform/test_settings_cutover.py`
  wants it so; the migration plan calls the cutover resumable after an abort.
  InterruptedCutoverCompletes begins with the journaled hash.
* A value of `settings.json` with the wrong type passes the classification, and the
  hash of the file is journaled before the value is looked at. Then every start
  fails at it, a policy in `residual_store.py:166`, a technical setting in
  `settings_service.py:240`, and with the value corrected the file is not the
  journaled one any more and is refused as well (`settings_cutover.py:364`): the
  cutover is stuck. InterruptedCutoverCompletes and `InterruptedCutoversResume`
  therefore ask for well-typed values (`WellTyped`); without it TLC shows the
  starts that fail for ever.
* An interrupted seed leaves a journal without a source: later starts ask for a
  `settings.json` that never existed, and one that is put there is imported
  beside the default policies, even into a store already marked completed. A seed
  killed before its journal is refused for ever as a residual without status.
* The backend attaches its settings when only the user management is registered
  (`backend_bootstrap.py:83`), so a cutover by the backend imports no other
  module's technical settings, and its seed has no other policies.
* A release that adds a technical key or a policy does not start on a completed
  store (BucketBIncompleteError, ResidualPolicyMissingError): nothing adds a key
  later. The newer desktop of the run is refused in this way.
* A snapshot of a half cut-over SQLite store makes the PostgreSQL store non-empty
  and never completed, and a second import is refused.

Users, incidents, training:

* A tracked reading that is finalised writes the receipt and publishes
  `domain.documents.read.session.completed.v1`; the training module subscribes
  to `read.confirmed` only (`modules/training/eventing.py:53`), so the progress
  does not say "read" and the quiz stays closed, although
  `docs/TRAINING_MODULE_SPEC.md:621` says that it takes the receipt over.

* A login that checked the user before a deactivation inserts its session after
  the sessions were revoked (`usermanagement/service.py:202`). It is of no use
  while the user is inactive, since every resolution loads the user again.
* An incident without CAPA that has an action, or only a root cause analysis,
  reaches a status from which no operation leads to closure.
* `set_status` of an incident writes back the whole row; the model has one desktop
  process per database file.
* A new reading drops `last_failed_at` and with it the cooldown; quiz sessions may
  be submitted again; a later exemption that has run out cancels a valid earlier
  one; a quiz replaced between start and submit grades against the new one;
  tracked reading does not ask whether the version is released.
* The progress row is read and written in two transactions
  (`quiz_execution_service.py:139` and `:156`, `eventing.py:36` and `:49`). Of two
  calls that overlap the later one writes what the earlier one never saw: a failed
  attempt, or a reading confirmed anew, can erase a pass recorded in between.
  PassIsKept says that nothing else does.
* A rebuild that read the catalog before a version was archived or superseded assigns
  that version nevertheless, until the next rebuild. Two processes
  that bind quizzes, or rebuild, at once are not excluded by the code; the model
  has one.

## 6. Not modelled

* *Document headers*: one compare-and-set under the mutation lock; the fields are
  data to the workflow.
* *Profile definitions over time*: the workflow copies the resolved profile when it
  starts, so later definitions do not reach a running version.
* *Signature rendering and passwords, PDF and DOCX conversion*: computation on
  files; the workflow models what a signature does to a version.
* *Contents of backup sets* (manifest, checksums), the *maintenance flag* (read only
  by readiness answers), the *PostgreSQL schema scripts*.
* *Incident timeline, groups, attachments, reports and deadlines; training comments,
  statistics and exports*: written beside the state, read by no guard.
* *Self-registration, user profile fields, the desktop session file.*
* *Licensing, audit log, event bus, read models, one-off data import of the other
  modules*: verification, append-only, query or copy code. *Key classification
  and revisions of settings*: computation on the data; of the schemas only whether a
  value fits.
* *User interfaces*: the calls they make are the inputs of the actions; widget code
  has no state that outlives a call.

## 7. Plan

Done: every module of section 2, and the proofs of section 4.

*Model next*, if the code around them grows: the store of profile definitions and
the headers, beside DocumentsOptimisticLock.
