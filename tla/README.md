# A TLA+ model of WinGRC

WinGRC is a compliance application: a FastAPI service over PostgreSQL, an object
store for files, a worker that runs scheduled jobs, and a React client. An
organisation works through assessments of a control framework. Products it uses
cover some of the framework's objectives, evidence is collected and linked,
people record judgements, a SPRS score follows, reviewers attest periodically to
who and what is authorised, and an assessor is handed a bundle of all of it.

What is hard in it is not a single algorithm. Every request is a READ COMMITTED
transaction of a session that does not flush on its own
(`SessionLocal(autoflush=False, expire_on_commit=False)`, `backend/app/db.py`),
almost nothing is locked when it is read (the one `FOR UPDATE` of the code is in
`engine.recompute_sprs`), an update writes only the columns whose value differs
from the one read, and several rows of state are derived from each other: the
score from the control states, a responsibility from the contributors, an
archived link from the product that archived it, a cycle's status from its
reviewers, an approval from the change it approves. The models are about those
relations surviving long sequences of requests, interleaved transactions, pages
that stay on a screen, crashes and retries.

Source paths below are relative to `src/`, and to `src/backend/app/` where they
name a Python file alone.

## 1. Inventory

| Component | State | Operations | Hard behaviour | What makes it correct | Here |
|---|---|---|---|---|---|
| Job scheduler (`scheduler.py`, `cli.py` worker) | `job_run` rows, an advisory lock per job on its own connection | `run_due_jobs`, `_is_due`, `_run_one`, `_reconcile_orphan` | the due test and the lock are separate; a worker dies between any two statements; the lock's connection is lost while the work goes on | one executor per job, one row in progress, no outcome rewritten, no orphan for ever | `Scheduler`, `JobLedger`, proved |
| Review cycles (`review_cycles.py`, its router, two jobs) | cycles, reviewers, reminder log, record | open, view, attest, sweep, detach | requests and jobs on the same rows, none locked; mail leaves before the commit | what a close says of people is true; one open cycle; completion and attestations are final; every cycle closes | `ReviewCycles`, proved |
| Scoring and status rules (`assessment.py`) | none | `compute_sprs`, `contributor_added_status`, `resolve_contributor_responsibility` | used by everything below | judged statuses are not overwritten | `Assessment` |
| Assessment engine (`engine.py`, `routers/assessments.py`) | `org_product`, `control_state`, contributors, `evidence_task`, `sprs_score` | start, activate, deactivate, move, patch | long sequences of products joining, leaving, changing claims; concurrent requests | contributors, responsibilities, tasks and score follow from each other | `Coverage` (sequences), `AssessmentTxn` (interleavings), proved but for what is refuted |
| Evidence (`routers/evidence.py`, `evidence_links.py`) | evidence, links | upload, collect, link, detach; archived and restored by the engine | a link has two owners, a person and a product | a detach is final; an archived link waits for its product | `Coverage`, `AssessmentTxn`, `Custody`, proved |
| Documents (`routers/documents.py`, `document_reviews.py`, `document_evidence.py`) | document, versions, tags, approvals, links | save, status, publish, reaffirm, tag, link, move forward, delete, digest | saves from one base; status change against publication; tag removal against link | no save lost, one approved version, what is published is final | `Documents`, proved |
| Lists (`list_library.py`, `list_adoption.py`, `list_evidence.py`) | template and its tags, list, tags, links | import, edit, adopt, update, tag, link, move forward | an update is planned from one version and saved over another; three parties remove tags | nobody's entries are lost, evidence rests on entered rows and on a tag, an import settles | `Lists`, proved |
| Scope and Liongard approval (`repo.py`, `reconcile.py`, `liongard_sync.py`, `routers/scope.py`) | scope rows, sync results and their changes, approvals | edit, workbook import, pull, approve, reject | a change of a superseded result decided late; a dry run applied after the scope moved on | people outrank Liongard, Liongard a workbook; nothing enters undecided | `Scope`, proved |
| Liongard environments (`routers/scope.py`, daily job) | mapping, results, notifications | map, unmap, sync, daily job | the mapping changes while a pull is under way; the job dies before it tells anybody | no organisation sees another's assets; what is pending is announced | `Environments`, proved |
| Sessions and sign-in (`routers/auth.py`, `auth.py`, `routers/users.py`) | one account, password history, backup codes, sessions, state cookies | sign in, enrol, verify, change, reset, lock, invite, deactivate, anonymise | a sign-in outlives the request that began it; flags and counts are cleared by different requests | the cap, a fresh password, a secret where there is an enrolment, no session for who was deactivated | `Accounts`, proved |
| Organisation membership and API tokens (`org_membership.py`, `routers/users.py`, `auth.py`) | memberships, home role, tokens | provision, grant, revoke, change role, mint | two revocations at once; a role kept in two places | an administrator remains, staff reach every organisation, a token gives nothing its owner does not have | `Memberships`, proved |
| Product library (`routers/admin_products.py`, `baseline_import.py`, `seeds/baselines.py`, `importers/`, `web_fetch.py`) | versions, publication, a draft on the screen | dry run, research, documents, apply, publish, seed | what is previewed is decided by other code than what is written; drafts stay on the screen | what customers see was previewed, confirmed and cleared | `Library`, proved; `Coverage` from the customer's side |
| Contacts, RACI, submissions (`routers/contacts.py`, `routers/raci.py`, `sprs_submissions.py`, `engine.py`) | contacts, roles, RACI rows, cycles, one statement, submissions, reminder log | create, edit, import, delete, assign, bulk assign, complete, reopen, file, void, remind | carried forward while contacts are deleted; mails before the mark | holders exist, gaps are filled once, what was filed stands, one reminder a year | `Casework`, proved |
| Files and snapshots (`storage.py`, the upload handlers, `snapshots.py`) | objects, rows that name them, snapshot directories, restore target | upload, delete, snapshot, rotate, restore, verify | no transaction spans database and bucket; a crash between any two calls | no row without its object; a snapshot is whole; the newest are kept; restores do not mix | `Custody`, proved |
| Credentials (`routers/integrations.py`, `crypto.py`, `credential_rotation.py`) | ciphertext, key label, verdict of the last test, configured keys | set, delete, test, rotate, add and drop a key | a rotation writes back what it read | stored credentials stay readable | `Credentials`, proved |
| Bundle export (`bundle_service.py`) | none of its own | fourteen reads, then pages and a ZIP | each read sees what is committed at its own moment | the bundle agrees with itself | `Bundle`, proved; its lock in `AssessmentTxn` |
| Audit log, TLS expiry check, dashboard and read endpoints, web client | | | | | not modelled |

How they interact: a request handler calls the engine, which writes all of its
tables in one session and ends in `recompute_sprs`; evidence, documents and lists
change links that the engine archives and restores; the worker's jobs call
`review_cycles`, the Liongard pull, the digest and the annual reminder while
requests call the same functions; a completed cycle, a published version and a
list are attached as evidence; the bundle reads all of it under the engine's
lock. The process has no other shared memory: everything meets in PostgreSQL and
in the bucket.

`PROJECT.json` lists every component with its status, and under `hazards` each
place where something hard to test can go wrong, with the property that would
catch it.

## 2. Modules

| Module | What it is |
|---|---|
| `Scheduler` | workers, the advisory lock, the run rows, crashes, lost lock connections |
| `JobLedger` | abstract: what `job_run` promises as a record. `Scheduler` implements it |
| `ReviewCycles` | cycles, reviewers, requests and the two jobs, transaction by transaction |
| `Assessment` | the pure functions of `assessment.py` over a catalog |
| `Coverage` | EXTENDS `Assessment`: the engine, evidence and library, one request per action |
| `AssessmentTxn` | EXTENDS `Assessment`: the statements of the engine's requests, interleaved |
| `Documents`, `Lists` | one document; one template and one list of an organisation |
| `Scope`, `Environments` | what feeds the scope; which environment feeds which organisation |
| `Accounts`, `Memberships` | one account through its sign-ins; users, organisations, tokens |
| `Library` | one product's baseline and the drafts of it |
| `Casework` | contacts, RACI, assessment cycles, a statement, submissions and their reminder |
| `Custody` | the bucket, the rows, snapshots, and a restore target |
| `Credentials` | connector rows and the configured keys |
| `Bundle` | one export and what others commit between its reads |
| `MC…` | the instances |
| `SchedulerProofs`, `ReviewCyclesProofs` | theorems about the module each is named for, which it EXTENDS |
| `AssessmentTxnProofs` | theorems about `AssessmentTxn` and `Bundle`: the two users of the assessment's row lock |
| `DocumentsProofs` | theorems about `Documents` and `Lists` |
| `ScopeProofs` | theorems about `Scope` and `Coverage`: what is in scope, and which products cover it |
| `KeepingProofs` | theorems about `Custody`, `Credentials` and `Accounts`: what was entrusted to the application |
| `OrganisationProofs` | theorems about `Memberships`, `Casework`, `Environments` and `Library`: who belongs to an organisation, its papers, whose assets it is shown, what its products claim |
| `SetLemmas` | lemmas about finite sets: least and greatest members, cardinality, sums |

Definitions carry the source's names where they stand for one function
(`recompute_sprs`, `activate_org_product`, …). A definition marked *Mutant* is
not used by any specification: it is the plausible mistake that a property must
catch. Variables and operators of modules that are instantiated together carry a
prefix (`doc`, `sc`, `mem`, `lib`, `cw`, `cu`, `cr`, `bd`, `ev`).

**Requests and overlap.** A request that decides on what it reads and writes it
later is two actions (`…Begin`, then the name of the handler), or more where the
code flushes, locks or counts in between; one that reads and writes in one
statement, or under a lock, is one. A module has a variable `overlap` (with its
prefix) that is chosen initially and never changes: where it is true any request
may be served between the two steps of another, where it is false each is served
alone. Both halves are checked in one run. A part of a property that says
`~ overlap =>` is a promise the code keeps for every sequence of requests but not
for two in flight: what breaks it is listed in section 6. Without that conjunct
TLC refutes the part in the same instance, unless section 6 says otherwise.

### Scheduler

A worker is a program counter over `run_due_jobs` and `_run_one`: `BeginTick`
(time taken once), `NotDue`/`FindDue` (`_is_due` on a session of its own),
`SkipRunningElsewhere`/`Acquire` (`pg_try_advisory_lock`), `ReconcileOrphan`,
`InsertRun`, `FinishBody` (returns or raises), `RecordOutcome` (by row id,
unconditionally), `Unlock`. `Crash` stands for a killed process and for an
exception outside the body's own `try`: the lock goes with the connection, the
row stays. `LoseLockConnection` is the loss of the lock's connection alone; the
worker notices only when it unlocks (`UnlockRaises`). `runs[j]` is the job's
`job_run` rows in creation order. What a body does is in the other modules.

### ReviewCycles

One organisation, days as time. Each operation is split where the code's session
reads, flushes and commits: `OpenCheck`/`OpenFlush`/`OpenCommit`,
`ViewCheck`/`ViewCommit`, `AttestCheck`/`AttestFlush`/`AttestCommit`, and for the
sweep `SweepStart` (the list and the time, once), then for each cycle `SweepRead`,
`SweepClose` or `SweepNotify`, `SweepCommit`. A flush writes the columns the
session changed and waits for rows others have flushed. `mails` counts what left
the building: it survives a rollback. `DetachUnattested` is the CLI's repair.
Abstracted: the frozen scope items, comments and flags, the rendering of the
record, reviewer selection (any set of users), the cadence setting. An assessment
is always in progress, so that a completed cycle has somewhere to be attached.

### Coverage

The engine as its users see it: every action is a whole request. `contributor` is
the version a contributor row's `baseline_control` belongs to, `link` the state of
an evidence link and the product it waits for, `task` the evidence task of an
artifact with the specification that seeded it. `activate_org_product` is the
complete handler: the pin, restored links and tasks, `_run_loop` with the
person's decisions, the fan-out of tasks, the return of regained objectives to
the queue, and `recompute_sprs`; so are `deactivate_org_product` and
`move_org_product_version`. Abstracted: identifiers, statements, history and audit
rows, names and notes; one baseline row per product version and control.

### AssessmentTxn

The same handlers as sequences of statements (`Program`). A statement sees the
committed rows under its own transaction's flushed writes (`View`); a flush
changes only the columns that differ from what was loaded, and waits for the rows
held by others (`Free`, `Take`); inserts of evidence tasks hold `FOR KEY SHARE` on
the assessment (`share`); `Lock` is `SELECT … FOR UPDATE`; a unique constraint
lost to another request, a refused precondition, a check constraint, a deadlock
victim and any failure roll back. The lock does not refresh the assessment the
handler loaded before it: `ScoreAfter` writes `sprs_score` only where the score
differs from the one loaded, while `series`, the newest row of `sprs_snapshot`, is
always inserted. Abstracted: a flush takes all its rows at once;
states and contributors are read in one statement; one upload per objective;
evidence tasks only as the lock they take; one assessment, already started.

### Documents

One document: its version rows, objective tags, approvals, evidence rows and
links, and the outcome of the last digest. A save reads the document, whose current
version it compares with its base, then the highest number, then inserts
(`SaveBegin`, `SaveNumber`, `SaveCommit`); a publication is three steps, because
its flush holds the version's row and takes the slot of the initial approval in a
unique index (`PublishBegin`, `PublishFlush`, `PublishCommit`); status changes,
deletes, tag removals and links read and then write. Foreign keys that restrict a
delete and the unique indexes are guards of the commits. Texts, titles, the diff
and rendering are left out; the cadence, the clock and the digest do not race.

### Lists

The workbook (which sheet it holds now), the template and its tags, and one list
of an organisation, created by hand or adopted. A version's content is its
columns, the columns a person filled in, and whether the example rows are still
there: what `plan_template_update`, `diff_import` and `not_offered_reason` compare.
`create_version` asks for the highest number after the checks are made, so an edit
and an update, of template or list, are three steps (`…Begin`, `Number` or
`TemplateNumber`, `…Commit`), and an import four: the diff, which alone decides
whether an edit is replaced and must be named (`ImportBegin`), the number, the tags
(`ImportTags`), the commit. Removing a tag is two. A hand edit that changes nothing
and tags a person adds to a template are left out; the workbook changes while no
request is in flight.

### Scope

A row is its status, boundary flag, source, what a connector observes (`data`) and
what only people know (`overlay`). The last two are one column, `attributes`:
`Written` stores it whole as soon as either differs from what was read, and every
other column by itself. `Merged` is the precedence of `repo.upsert`,
`Incoming` and `IsNew`/`IsChanged` are `reconcile`, over keys with two spellings of
one entity (`Fold`). A sync reads what is new and which results are pending, and
commits later; a decision reads its change and the row of its key, counts what is
left (`DecideCount`, `_maybe_mark_reviewed`) and commits. A dry run stays on the
screen until the person confirms any part of it (`ImportBegin`); the rows are then
read one after another in any order (`ImportRow`) and written in one commit. A
direct edit reads and writes in one step, as the person's screen is not modelled,
and a row has no identity but its key: one deleted and entered again is taken for
the one a request read, where the code's update would find no row and fail. The
scope category follows the overlay's rule and is left out.

### Environments

The mapping of each organisation, the constraint migration 0050 added where the
data allowed it (a constant of a behaviour), pulls on request and by the daily
job, which goes through a list made once, and the notifications after its commit.

### Accounts

One account, two browsers with the state cookies of a sign-in between its steps.
`LoginBegin` … `Verify`, `EnrollConfirm`, `ChangePassword`, `Reenroll…`,
`SetPassword` are the owner's handlers, each a read and a commit;
`InviteUser`, `PatchUser`, `ResetMfa`, `DeactivateUser`, `AnonymizeUser`,
`UnlockUser`, `ResetPassword` the administrator's. `enforced` says whether the
database role is subject to the row policies. Invitations, locks, cookies and
sessions lapse at any moment.

### Memberships

Three users (one bootstrapped), two organisations, two staff roles and one other.
`ProvisionNewUser` and `ProvisionNewOrg` are computed from what was read;
`InviteBegin`/`InviteUser`, `CreateOrgBegin`/`CreateOrg`, `RevokeBegin`/
`RevokeMembership`, `PatchUserBegin`/`PatchUserRole` are split, grants and tokens
are one step.

### Library

A draft is a list of rows on a reviewer's screen, from a file, from documents read
by an AI provider (any answer of a small set), or merged with web pages.
`Incoming` is what applying does with a draft, `BuildPreview` and `HasChanges`
what the preview says of it; `NeedsVersion`, `Withdraws`, `Taken` and the unique
version number decide what an import or a seed writes. `FetchUrlSafely` follows
redirects and refuses addresses.

### Casework

Contacts with their spellings of an address (rows stored before addresses were
normalised, which `contacts.py:617` still allows for, are left out), documentation
roles, RACI rows,
assessment cycles with what a new one carries forward, one statement, and
submissions. The annual reminder is a process of its own: it reads what is due,
sends to each recipient, marks everything at the end, and may die anywhere.

### Custody

Every handler that touches the bucket, call by call in the code's order; each may
stop after any call (`BreakOff`). A snapshot is the dump, a listing, the copies, the
manifest, the rename and the rotation; `SnapshotCrash` at any step. A restore is
objects, database, end; `RestoreBreaks` and `DropTarget` in between; `VerifyPasses`
is what the command compares.

### Credentials

A row is a secret, the key it is under, the label beside it and the verdict of the
last test. `RotateCredentialKeys` decrypts all rows before it writes one. Keys are
configuration, changed between requests.

### Bundle

One action per statement of the export, in its order: the lock, the score, the
statuses, links, evidence, documents, lists, scope, pending assets, people and
matrix, submissions. In between, others commit anything that does not need the
assessment's row (with `bdOverlap`). The operators of the pages (`DeductedControls`,
`EvidencePath`, `Listings`, `MarkedCurrent`, …) are functions of what was read
(`bdSnap`).

## 3. What the runs show

| Run | Components | Distinct states | Expected |
|---|---|---|---|
| `scheduler_recovery` | `Scheduler`: 1 job, 1 crash, 1 lost lock connection | 834 165 | passes |
| `review_and_scope` | `ReviewCycles`, `Scope` | 839 022 | passes |
| `review_liveness` | `ReviewCycles`: 2 reminders in a window of 3 days, 1 failure | 50 426 | passes |
| `coverage_and_files` | `Coverage`: 2 products of 2 versions, 2 objectives; `Custody` | 356 043 | passes |
| `txn_bundle_environments` | `AssessmentTxn`, `Bundle`, `Environments` | 1 286 753 | passes |
| `records` | `Documents`, `Lists` | 1 770 524 | passes |
| `accounts` | `Accounts`: 2 browsers, 3 passwords | 1 518 075 | passes |
| `estate` | `Scheduler`: 2 workers, 2 jobs, 1 crash; `Memberships`, `Library`, `Casework`, `Credentials` | 506 306 | passes |
| `coverage_two_assessments` | `Coverage`: 1 product, 2 assessments | | violated (section 6) |
| `txn_score` | `AssessmentTxn`: 2 edits | | violated (section 6) |
| `accounts_anonymized` | `Accounts`: 1 browser | | violated (section 6) |
| `bundle_deductions` | `Bundle` | | violated (section 6) |

Where several components share a run they share no rows in what is modelled of
them: `focus` says which of them a behaviour is about, the others rest in their
initial state, and the instances add up instead of multiplying.

What is checked is named by property; most are conjunctions, one part per promise
of the code, each part with a comment of its own in the module.

| Property | Parts | What would be wrong without it |
|---|---|---|
| `MutualExclusion`, `OneRunningRow`, `HistoryIsFinal`, `ImplementsLedger`, `OrphanReconciled` | | two executors of a job, two rows in progress, an outcome rewritten, a job stuck behind a dead worker's row |
| `ClosingIsHonest` | `NonResponseIsHonest`, `UndeliverableIsHonest`, `RecordMatchesCycle` | a record that blames a person nobody reached |
| `CyclesFollowAnswers` | `OneOpenCycle`, `OpenMeansUnanswered`, `FullAttestationCompletes`, `AttachedRecordAttests` | a cycle whose status is not what its reviewers answered |
| `AnswersAreFinal` | `CompletedIsFinal`, `AttestationIsFinal` | an attestation undone by a view or a deadline |
| `RemindersAreTimely`, `EveryCycleCloses` | | a reminder skipped or early; a cycle open for ever |
| `DecisionsAreSound` | `NothingIsStranded`, `DecisionsKeepTheirRow`, `ReviewedMeansDecided`, `OneQueueOneDecision` | an asset that waits where nobody can decide it, or is decided both ways |
| `SourcesKeepTheirRank` | `FeedsKeepHumanFacts`, `ConnectorValueStands`, `NothingEntersUndecided` | a feed that erases what a person knew, or brings in what nobody approved |
| `DerivedRowsFollow` | `ContributorsAreCurrent`, `ResponsibilityIsResolved`, `ScoreIsCurrent` | a coverage claim of a product that left |
| `WorkFollowsProducts` | `ArchivedLinksWaitForTheirProduct`, `LiveTasksServeActiveProducts` | evidence that never comes back, a task for a product that left |
| `PeoplesWorkStands` | `JudgementsAreKept`, `OnlyPeopleRaiseTheScore`, `DetachedStaysDetached` | a judgement replaced by automation |
| `SeriesIsCurrent`, `ScoreWritesAreRight` | `OnlyPeopleRaiseTheSeries`, `WrittenScoreIsCurrent` | a score computed from states another request has replaced |
| `BundleIsConsistent` | `ScoreIsOfItsStatuses`, `DeductedRowsAreDue`, `FilesKeepTheirPath`, `CurrentIsTheLatest` | a printed score of other statuses, a page that names a file the ZIP has elsewhere |
| `BundleIsComplete` | `EvidenceIsAccountedFor`, `InventoryIsComplete`, `HoldersArePersonnel`, `NotesHaveTheirEntry`, `LeftOutOnlyByChoice` | evidence, assets or people in none of the lists |
| `PendingIsAnnounced` | | assets wait for a decision and nobody was told, with the job dead in between |
| `EnvironmentsStayApart` | `NothingIsSharedAnew`, `PullsTheOwnEnvironment` | one customer's assets in another's queue |
| `DocumentsAreSound` | `NewestIsCurrent`, `PublishedOnce`, `EvidenceKeepsItsVersion`, `SavesFollow`, `AtMostOneApproved`, `LiveLinksAreSound` | a lost edit, two approved versions, evidence of a deleted one |
| `PublishedIsFinal` | | a published version back in draft |
| `ListsKeepWork` | `LinkedRowsAreReal`, `LinksKeepTheirTag`, `ServesAPractice`, `UpdatesKeepWork`, `ImportsNameEdits`, `ImportSettles` | example rows as evidence, entries lost to an update, an import that never settles |
| `CredentialsAgree` | `PasswordIsFresh`, `EnrolledMeansSecret`, `EscalationIsEarned` | an account nobody can enter, a reused password |
| `SessionsAreDue` | `SessionCap`, `DeactivationEndsSessions`, `SessionsNeedEnrolment` | a session of who was deactivated between two steps |
| `MembershipsAreSound` | `OrgKeepsAnAdmin`, `StaffReachEveryOrg`, `HomeRoleAgrees`, `TokensCanAuthenticate`, `TokensNeverOutrank` | an organisation nobody can administer, a token stronger than its owner |
| `LibraryIsSound` | `VersionsAreSequential`, `PublishedIsCleared`, `PreviewTells`, `ResearchNeverOverrides`, `ImportedIsConfirmed` | customers shown a claim nobody confirmed |
| `CaseworkIsSound` | `HoldersExist`, `OneContactPerAddress`, `BulkNeverDoubles`, `ApprovedTextWasApproved`, `RemindersAreHonest`, `RemindedOnce` | responsibility held by nobody, a reminder marked and never sent |
| `CompletedWorkStands` | `CarriesTheLastCompleted`, `FiledIsFinal` | a filed score that changes |
| `FilesAreSafe` | `RowsHaveTheirObject`, `SnapshotIsWhole`, `NoMixedRestore`, `VerifiedIsUsable` | a row whose file is gone, a restore of two snapshots that verifies |
| `KeepsTheNewest` | | a crash that costs a snapshot |
| `CredentialsAreSound` | `StoredStaysReadable`, `StoredIsLatest`, `LabelTellsTheKey`, `VerdictIsOfThisCredential` | a credential lost with its key |

The type invariants (`TypeOK`, `BothTypeOK`, `FilesTypeOK`, `TxnTypeOK`,
`RecordsTypeOK`, `EstateTypeOK`) are at most one per run. `TokensNeverOutrank`
says little more than how a token's role is computed, as the lower of two; what it
adds is that neither of the two is read before the other is changed.

Deadlock is checked in `scheduler_recovery`, `coverage_and_files`,
`txn_bundle_environments` and `estate`, where a component whose requests are
counted ends in a step that changes nothing, and the engine, the scheduler and
the transactions must not end. In the others requests are counted or a calendar
ends, and the bound reached, or every cycle closed, really is the end.

**Bounds, and why they are enough.** Two workers, two requests, two browsers are
the actors of every race here: all of them are between a reader and one writer.
Two jobs because a worker walks the registry in order while holding nothing of
the earlier job; two cycles because open and reopen are the cases that differ; two
products on one objective because a responsibility is resolved between claims
that differ; two versions because a move drops, gains and reclassifies
(`MCBaseline` has one of each, and a row of each excluded kind). Three versions of
a document, list or template one request at a time (a version, what supersedes it,
and what reads the wrong one) and two with requests in flight (`DocMaxRaced`,
`MaxRaced`), where the second is the one that is raced for; a save that is lost takes
three (section 6, `DocMaxRaced = 3`). Three keys in `Scope`: two spellings
and another entity; two sync results, one of them superseded; two direct edits
(`MaxEdits`), one where requests overlap (`MaxRaced`). In `Accounts` a history of
two (`Generations`) among three passwords, a cap and a threshold of one,
`MaxIssued` secrets and codes, `MaxOpened` sessions, `MaxRequests` administrators'
requests, `MaxRaced` requests where they overlap. `MemMax`/`MemRaced`,
`CwMax`/`CwRaced`, `LibMax`, `CuMax`, `CrMax`, `BdMax`/`BdRaced`, `EvMax` count
requests; `CwLast` and `Year` the years; `Keep`, `SnapCap`, `MaxSnaps` the
snapshots: one more than is kept. One crash, lost connection or rollback
(`MaxCrashes`, `MaxDrops`, `MaxAborts`, `CwCrashMax`, `CuCrashMax`) at any point.
Clocks (`MaxTime`, `MaxDay`) reach past one interval or response window.

State constraints only leave out mixtures of cases that are explored separately:
`Slice` of `MCReviewCycles` (overlapping transactions on one cycle, serial ones on
two), `BothSlice` (with requests overlapping in `Scope`, a second result to decide
comes neither with a direct edit nor with a dry run on the screen, and changes are
counted apart from the commit only where no row was edited), `Slice` of
`MCAssessmentTxn` (one practice with moves and
detaches, two without), `Slice` of `MCCoverage` (every sequence of joining, moving,
leaving and returning with no upload and no task collected, or with them one
version of each product and nothing put out of scope; and a pinned product stays
published, because publication is read at the first activation only), `ListSlice` (with requests
overlapping, the list is one that was adopted, and a request on the template is not
in flight with one on the list: those on the list read the template in one step,
so their order says all).

**Symmetry** is over workers, users, requests or browsers, which the
specifications never tell apart, and only in runs without liveness.

**Fairness.** `Scheduler!FairSpec`: weak fairness of every worker's steps (the
worker's loop in `cli.py` polls for ever and the container is restarted; a body
returns or raises) and of the clock. Crashes and lost connections are never fair.
`ReviewCycles!FairSpec`: weak fairness of the sweep, which is what the scheduler
runs establish, of transactions once begun, and of days. Nobody has to view,
attest or open anything. There is no fairness in the other modules: what happens
next is a person's choice, and a crash may be the last thing that happens.


## 4. What is proved

Every safety and action property the passing runs check, for every value of the
constants. Where a property has a part without `~ overlap`, the theorem is about
every interleaving of any number of requests; where it has one, about every
sequence of them.

| Module | Theorem | States |
|---|---|---|
| `SchedulerProofs` | `SchedulerInvariant`, `SchedulerTypes` | `Spec => []SchedulerInv`, `TypeOK`, without lost connections |
| | `SchedulerMutualExclusion`, `SchedulerOneRunningRow` | `MutualExclusion`, `OneRunningRow` |
| | `SchedulerHistoryIsFinal`, `SchedulerImplementsLedger` | `HistoryIsFinal`, `ImplementsLedger` |
| `ReviewCyclesProofs` | `RvInvariant`, `RvTypeCorrect` | `RvInv`, `TypeOK` |
| | `ClosesAreHonest`, `RemindersKeepTime`, `StatusFollowsAnswers` | `ClosingIsHonest`, `RemindersAreTimely`, `CyclesFollowAnswers` |
| | `AnswersStay` | `AnswersAreFinal` |
| `AssessmentTxnProofs` | `TxnInvariant`, `TypeCorrect` | `TxnInv`, `TypeOK` |
| | `SeriesFollowsStates`, `OneWriterPerRow` | `SeriesIsCurrent`, `RowsHaveOneWriter` |
| | `ScoreWritesAlwaysRight` | `ScoreWritesAreRight` |
| | `BundleInvariant`, `BundleTypes` | `BundleInv`, `BdTypeOK` |
| | `BundleAlwaysConsistent`, `BundleAlwaysComplete` | `BundleIsConsistent`, `BundleIsComplete` |
| `DocumentsProofs` | `DocInvariant`, `DocTypeCorrect` | `DocInv`, `DocTypeOK` |
| | `DocumentsHangTogether`, `PublishedStays` | `DocumentsAreSound`, `PublishedIsFinal` |
| | `ListsInvariant`, `ListsTypes` | `ListsInv`, `TypeOK` |
| | `ListsAlwaysKeepWork` | `ListsKeepWork` |
| `ScopeProofs` | `ScInvariant`, `ScTypeCorrect` | `ScInv`, `ScTypeOK` |
| | `DecisionsStaySound`, `SourcesKeepRank` | `DecisionsAreSound`, `SourcesKeepTheirRank` |
| | `CoverageTypes`, `DerivedColumnsFollow` | `TypeOK`, `ResponsibilityIsResolved` and `ScoreIsCurrent` |
| | `ScoreIsPeoples`, `DetachedStays` | `OnlyPeopleRaiseTheScore`, `DetachedStaysDetached` |
| | `DerivedAlwaysFollow`, `PeoplesWorkAlwaysStands` | `DerivedRowsFollow`, `PeoplesWorkStands`, with one assessment |
| | `ArchivedLinksAlwaysWait` | `ArchivedLinksWaitForTheirProduct`, with one assessment |
| | `WorkAlwaysFollows` | `WorkFollowsProducts`, with one assessment |
| `KeepingProofs` | `CuInvariant`, `CuTypeCorrect` | `CuInv`, `CuTypeOK` |
| | `FilesStaySafe`, `NewestAreKept` | `FilesAreSafe`, `KeepsTheNewest` |
| | `CrInvariant`, `CrTypeCorrect` | `CrInv`, `CrTypeOK` |
| | `CredentialsStaySound` | `CredentialsAreSound` |
| | `AccountsTypes` | `TypeOK` of `Accounts` |
| | `CredentialsAlwaysAgree`, `SessionsAlwaysDue` | `CredentialsAgree`, `SessionsAreDue` |
| `OrganisationProofs` | `MemInvariant`, `MemTypeCorrect` | `MemInv`, `MemTypeOK` |
| | `MembershipsStaySound` | `MembershipsAreSound` |
| | `CwInvariant`, `CwTypeCorrect` | `CwInv`, `CwTypeOK` |
| | `CaseworkStaysSound`, `CompletedStands` | `CaseworkIsSound`, `CompletedWorkStands` |
| | `EvInvariant`, `EvTypeCorrect` | `EvInv`, `EvTypeOK` |
| | `PendingStaysAnnounced`, `EnvironmentsStayTheirs` | `PendingIsAnnounced`, `EnvironmentsStayApart` |
| | `LibrarySound` | `LibraryIsSound` |

The type invariants of the runs of several components are conjunctions of these
components' own, each of which is a theorem.

No safety property here is inductive as it stands, and for one reason in every
module: a request, a sweep or a worker decides on what it read and writes it
later, and the property says nothing of what it is about to write. Each invariant
therefore says, of every step in flight, what is still true of what it read
whatever the others did, and, where nothing overlaps, that all of it is. The
proofs have one lemma for each action and go by what the action can disturb.

**Scheduler.** All rest on `SchedulerAssumption` (the registry is a sequence of
names, intervals are positive, no worker is `NoWorker`) and on `MaxDrops = 0`,
stated as a hypothesis of each theorem and not as an assumption of the module:
with a lost lock connection `HistoryIsFinal` is false (section 6). Two workers
past the lock are told apart only by who holds it, so `LockInv` says that a worker
under the lock holds its own job's lock and that a holder is at that job, in both
directions: the second is what a release needs. A new row is the only one in
progress only because none is left after the repair, so `RowInv` says that between
`ReconcileOrphan` and `InsertRun` every row of the job is finished, and that an
executing worker's row exists and is running. With these, rows are written by the
lock's holder alone, `SoleHolder` makes it unique, and the three lemmas
`ReconciledRows`, `RecordedRows` and `InsertedRow` say what each write leaves. The
refinement maps the rows to their statuses; a repair is a `Settle` or a stutter
because `OneRunningRow` leaves at most one row to fail.

**ReviewCycles.** The sweep reads a cycle's reviewers, sends, and writes what it
decided some steps later, with any number of views and attestations in between.
What makes a close honest all the same is that a view or an attestation never
touches when a reviewer was notified: `SweepInv` says that what the sweep read of
that is still so, and that a deadline it saw passed has passed. `RowsInv` relates a
row's dates to its log of reminders and `RemindersRise`, that later reminders are
sent no sooner, comes from the assumption that their days are in order
(`REMINDER_DAYS`). `BlankInv` and `TxnInv` keep two requests from
inserting one cycle, which is `open_cycle`'s new primary key and not a lock.
`AloneInv` and `ClosedInv` are the half without overlap: what is read is what is
there, and a closed cycle is never listed again.

**AssessmentTxn.** `ScoreInv` says that a transaction holds the assessment's row
from `Lock` to its commit, and that the score it computed is that of its own
`View`. A commit of control states by another in between would need the same row,
which `RowsHaveOneWriter` excludes; `HeldInv` says that a detachment, the one
request that commits without the lock, has no control state among its writes. So a
commit leaves the states its score was computed from, and that score is the newest
row of the series. None of this says that `sprs_score` is that score: the
assessment was loaded before the lock, and where the score equals the one loaded
nothing is written (section 6). What can be said of `sprs_score` is that a write
of it is right. That only an edit raises the series needs `WriteInv`: no product's
request writes `met` or `inherited`. `ScoreFalls` turns that into points; a sum
over the controls that deduct is taken in the order of `MapThenSumSet`, and
`SumGrows` frees it from that.

**Documents.** `NumberedInv`, `SaveOrder` and `RowsInv` say that versions are
numbered up to the current one, that each started from an earlier one, and that
evidence, links and the initial approval come and go together; `TxnOK` that the
version a request read is still there, and that a publication that has flushed is
the only one of its version, which is the unique index on the initial approval. Of
a save between its two reads it says that its base is not above the number it
found, which is all that holds of it there: that the two are equal is `Fresh`,
what a request alone may rely on.

**Scope.** `RequestsOK` says that a change that was read stays a change of its
result, that a decision which counted itself as the last leaves no other, and that
an import has read each of its rows once or not yet. The boundary and the
decommissioning survive a stale write because they are columns of their own, which
a feed never changes (`Written`); the overlay shares its column with what feeds do
change, so what is said of it needs `IsFresh`.
`FeedAssumption` is about the inputs: workbooks and inventories are lists of rows
as the readers produce them, and a direct edit is one of `routers/scope.py:570`,
which stamps the source `manual`; without that clause a person could enter a row
as Liongard's, and the last promise would be false. What a workbook and a pull do
to a row is proved once of `Merged` (`MergedKeeps`), then of every feed
(`WhoWrites`).

**Custody.** The three parts of the invariant, `StoreInv`, `ShelfInv` and
`TargetInv`, are proved apart: they meet only where a snapshot reads the store.
`StoreInv` has what a request uploaded and has not yet named, and which objects
are out of reach of a deletion in flight; `ShelfInv` that what a snapshot exported
is in the bucket, in its listing, or deleted since, and that each set it will
rotate out has `Keep` newer ones, the one under way included. A crash may happen
between any two calls.

**Credentials.** A rotation skips the rows that carry the primary key's label,
so an old secret must never be beside that label: `ReadOK` says what a write may
find of the label it read, and that a row the rotation skips has nothing under an
older key by the time it ends. `CrAssumption` has `"none"` outside secrets and
labels: the column's NULL is not a ciphertext.

**Memberships.** `MemReadOK` says what survives between the two steps of a request
whatever the others do: an invited user still does not exist, and while nobody's
role was changed the staff that an organisation being created was told still
include the first administrator, whom the new organisation needs. Invitations in
flight are for different users, because each makes a new row (`Fresh`). Alone
(`MemCurrent`), whoever revokes leaves another administrator there. A token
outranks nobody because `ResolveApiToken` takes the lower of two roles
(`TokenRank`), whatever those have become.

**Casework.** Requests in flight are about to create different contacts,
assessments and submissions (`Apart`), and what they create is not there yet. That
addresses are told apart by the constraint needs them to be stored normalised
(`StoredContact`). `CwRemindOK` has the job's arithmetic: a mail about a submission
is marked, about to be marked, or explained by a crash, and what the job is about
is filed, over a year old and not marked. The rows a new assessment takes over are
read, filtered and inserted in three steps; `CwCurrent` says that alone they are
throughout those of the last completed assessment, so the filter removes nothing.
`CwAssumption` has `CwRaced \in 0..CwMax`, as the requests served alone and
overlapping are numbered by one counter.

**Environments.** The daily job owns the organisation it has pulled for until it
told somebody or died, which is all that `PendingIsAnnounced` needs. The unique
constraint is an invariant because the migration adds it only where it holds and a
commit checks it; without it `Holders`, read before the commit, decides, and
`EvCurrent` says that alone it is still empty then.

**Coverage.** There is no overlap here and the responsibility and the score would
be inductive but for the handlers' size. `EngineMoves` is what all of them do to an
assessment: an objective whose contributors changed has its responsibility resolved
from the new ones, or kept where none is left; its status stays, or asks for
evidence or for a person; the score is recomputed. Each handler is shown to be such
a step once, and `ResponsibilityIsResolved`, `ScoreIsCurrent` and
`OnlyPeopleRaiseTheScore` are drawn from `EngineMoves` alone. These and
`DetachedStaysDetached` hold for any number of assessments. What relates rows to
`org_product` (`ContributorsAreCurrent`, `ArchivedLinksWaitForTheirProduct`), and
`JudgementsAreKept`, which needs the former when a version moves, have
`OneAssessment` as hypothesis. With two each is false, as TLC shows with
`Assessments = {a1, a2}`, `Products = {p1}`, `MaxVersion = 2`, `Artifacts = {k1}` and
`Uploads = {e1}`: an organisation's product is pinned once and each assessment's
rows follow only the request that names it (section 6).

**Bundle.** `ReadBefore[s]` is what an export has read when it reaches statement
`s`, and `Truth` what each statement would read now. Without overlap everything
read is `Truth` (`BdReadInv`), and the lists are compared as one set of rows. With
overlap only what the assessment's row guards is (`BdHeldInv`): the score and the
statuses, because whoever would change them waits for the row. That two artifacts
never share a path needs no invariant: a path is a prefix and the number of
artifacts that come before, and of two of them one comes before the other, so the
two numbers are cardinalities of a set and of a strict subset.

**Lists.** `LsTxnOK` says what a request in flight may rely on: versions and link
rows are only added, so what it read is there still, and a number it took is the
next or has been taken, which the unique index refuses. `LinkedRowsAreReal` needs
that, with overlap too. `LsFresh` is the half without: what it read is all there
is. An update then has the plan that would be made now, and `UpdateReplaces` shows
that a plan that touches a person's columns or cells calls itself an edit.
`LsCopyInv`, that only a list that began as a copy takes versions of the template,
gives every update a version to compare with. `RetagServes` is what both
`diff_import` and `take_update` do to tags: the practices they name are tagged and
their own tags on others are gone, so an import settles and a list still serves a
practice.

**Accounts.** The account is one row with a history and sessions. `AcOwner` says
how they agree while nothing overlaps: no password without a history that ends in
it, backup codes only with a second factor, a secret exactly where there is an
enrolment, no session of a deactivated owner. `AcAlone` says that the request under
way has read the account as it is. The cap on sessions is the one part with
overlap: `AcRoom` says that whichever of the sign-ins under way commit, what each
of them will revoke leaves room for their sessions, and one for each of the others.
It is a statement about every subset of the sign-ins, because that is what survives
one of them committing.

**Library.** The preview on a screen stays true of the version it was made against
(`ScreenInv`), so that an import of a draft whose version is still current writes
what was previewed; `TxnInv` has what a request read of the library, and that only
rows validation passed are imported. The unique version number keeps
`VersionsAreSequential` with any overlap; publication needs `AloneInv`.

Before a proof was tried TLC checked each invariant on the instance of its
component in the runs above, of which none leaves a counterexample.

The assumptions are those the modules declare, and each is evaluated in the runs.
They are about inputs and sizes: a bound is a number and there is room for one
version (`ListsAssumption`), a workbook's sheet has a column and tags a practice,
there are finitely many browsers (`AccountsAssumption`), objectives and artifacts
(`BundleAssumption`), the placeholder for "no product" is no product. The
library's induction theorems take an operator as parameter, which the provers
cannot instantiate, so `SetLemmas` argues by a smallest counterexample: a family
of subsets of a finite set has a member that contains no other of it
(`MinimalSubset`), and so a finite set of numbers has a highest and a lowest, and
a sum over a set does not depend on its order.

**Only model-checked.** `OrphanReconciled` and `EveryCycleCloses`, which are under
fairness and so outside what the proof system handles. `compute_sprs` and the rules
of `Assessment` are used by the theorems through the sums of `SetLemmas` and have
no theorem of their own.

## 5. What is left

What the proofs do not reach is named above. What the models leave out:

- `RequiredTasksAreLive`, that the artifacts of active products have a live task, is
  refuted (section 6). It would be worth a theorem if a move carried tasks to the
  new version and a deactivation looked for other products that name the artifact;
  `LiveTasksServeActiveProducts` is the direction the engine keeps.
- The lock cycle of section 6 (`engine.py:1170`) has no property: the database
  breaks it and one request fails.
- Read endpoints, the audit log, the TLS expiry check and the web client decide
  nothing that another part relies on, and are not modelled; migrations are read
  for the constraints that the guards of the commits stand for.

No module declares a RECURSIVE operator, every bound is a named constant, and the
properties are conjunctions of named parts, so that a part that a change of the
code breaks can be found, and its lemma redone, alone.

## 6. Departures

Where a comment, a docstring or a screen's text says more than the code
guarantees. Four are runs. The others come from checking the named part alone in
the instance of its run: without its `~ overlap` where it has one, or with the
constants named here.

**Scheduler.**
- `scheduler.py:30` says `run_due_jobs` is the decision of "what's due, and
  running it exactly once", under "No double-runs" (`:44`). The due test is made
  before the lock and not repeated under it: two workers that both found a job due
  run it one after the other. `NoDoubleRun`, stated in `Scheduler`, fails.
- With the lock's connection lost (`Estate.cfg` with `MaxDrops = 1`) the next
  worker fails the row of a run still in progress, and the first then overwrites
  that outcome: `HistoryIsFinal` fails. `_reconcile_orphan` (`:864`) takes holding
  the lock as "proof nothing else can be running it right now"; `models.py:1973`
  says a row gets its outcome "exactly once".

**Coverage.**
- `models.py:866`: the contributor table "names the CURRENT, live set of
  contributors". `org_product.status` belongs to the organisation, while
  deactivation deletes the rows of one assessment. Run `coverage_two_assessments`.
- In the same instance with an upload, `ArchivedLinksWaitForTheirProduct` fails:
  links archived on one assessment are not restored when the product is activated
  through the other (`models.py:699`).
- `engine.py:543`: "Archived evidence tasks are restored". They are restored by the
  specifications of the pinned version (`:622`), to which a move has not carried the
  task of an artifact it kept: in `CoverageAndFiles.cfg` as it is, and with
  `Baseline <- MCKeptArtifact` and `Products = {p1}` where the second version only
  covers more, `RequiredTasksAreLive` fails after a move, a deactivation and a
  reactivation.
- A task belongs to the product that seeded it and serves every product naming the
  artifact (`engine.py:1325`). With `Baseline <- MCSharedArtifact` and
  `MaxVersion = 1`, deactivating the first archives the task the second still needs:
  `RequiredTasksAreLive` fails.
- `engine.py:1588` leaves a claim that is "IDENTICAL in both versions (same
  classification, same objective-key coverage)" untouched, its row's text being
  "identical" by that definition. The evidence it asks for is not compared
  (`:1848`): with `Baseline <- MCNewArtifact`, `Products = {p1}`, a move to a
  version that asks for another artifact makes no task for it, and
  `RequiredTasksAreLive` fails.

**AssessmentTxn.** Each on `Txn.cfg`'s constants but for what is named.
- `engine.py:118` says of the lock in `recompute_sprs` that "this closes a
  lost-update race across this function's five call sites". It orders the requests,
  but does not refresh the assessment they loaded before it (`engine.py:175`): a
  score that equals the one loaded is not written, and the score another request
  committed in between stays, where `models.py:923` has "assessment.sprs_score only
  ever holds the current value". Run `txn_score`, of two edits.
- `engine.py:535`: "a person approves the change they saw, not a later one". The
  comparison is with states read without a lock: `ApprovedChangesWereShown` fails.
- `ResponsibilityIsResolved`, with `Products = {p1, p2}` and
  `Operations = {"activate"}`: two products joining an objective at once each
  resolve without the other (`engine.py:989`: "EVERY current contributor").
- `ContributorsAreCurrent`, with `Operations = {"activate", "deactivate", "move"}`:
  a move that read the product as active writes contributor rows after the
  deactivation has committed.
- `DetachedStaysDetached`, with `Operations = {"activate", "deactivate", "detach"}`:
  a deactivation that loaded a link as live archives it over a detach committed in
  between, and the next activation restores it (`evidence_links.py:18`).
- `NoLockCycle`, with `Products = {p1, p2}` and `Operations = {"activate"}`: each
  activation's task inserts hold a key-share lock on the assessment that both then
  ask to hold alone (`engine.py:130`). PostgreSQL breaks the cycle; one request
  fails.

**ReviewCycles.**
- `OneOpenCycle`, with `Requests <- TwoRequests`: the check of `open_cycle`
  (`review_cycles.py:147`) and its insert are not atomic and no constraint backs
  them.
- `OpenMeansUnanswered`, with `Requests <- TwoRequests`: the last two reviewers
  each read the other as pending (`scheduler.py:390` says the sweep "only ever
  sees cycles still open because at least one reviewer hasn't responded yet").
- `CompletedIsFinal`: a sweep that listed the cycle as open closes it over a
  completion (`review_cycles.py:425`: "is never touched by this").
- `AttestationIsFinal`: a view that read `requested` is flushed after the
  attestation (`review_cycles.py:183`: "a no-op … if already viewed/attested").
- `RemindersSentOnce`: reminders leave before the cycle's commit, so a rollback
  sends them again (`scheduler.py:383`: "idempotent per reviewer per reminder
  number").
- `UndeliverableMeansNoReview`: a reviewer no mail reached may sign in and attest;
  the deadline then records that no review was attempted
  (`review_cycles.py:328`). This one needs no interleaving.

**Documents and Lists.** Only with requests in flight.
- `routers/documents.py:621`: a save is refused "if the document moved underneath
  it, which returns 409". The current version and the highest number are two
  statements (`:641`, `:642`): with `DocMaxRaced = 3` in `Records.cfg` a save
  committed in between lets version 3 be saved from version 1, and
  `SavesAreSequential` fails.
- `list_library.py:731`: a template with edits is "written only when its exact edit
  is named in `overwrite_edits`". The edits are those of the diff; one committed
  between it and `create_version` (`:786`) is replaced without being named:
  `ImportsKeepEdits` fails.
- `AtMostOneApproved`: a status change that read a draft writes over the
  publication committed in between, and a second publication follows.
  `PublishedIsFinal` falls to the same write (`routers/documents.py:700`).
- `LiveLinksAreSound`, `LinksKeepTheirTag`: a tag is removed between the check of a
  link and its insert, or a link made between the check of a removal and its
  delete (`list_library.py:300`).
- `ServesAPractice`: two removals each leave the tag that the other takes.
- `UpdatesKeepWork`: an update planned before an edit commits replaces what was
  entered without naming it. Of two edits in flight, the later number wins whole.

**Scope and Liongard.**
- `repo.py:38` says of `approve_change`/`reject_change` that they "always resolve a
  change whose scope_entity row doesn't exist yet". Somebody may have entered it
  by hand while it was pending.
- Then a rejection leaves that row in the boundary, because `repo.upsert` keeps an
  existing row's flag (`repo.py:165`), where `liongard_sync.py:424` says "with
  in_boundary=False": `RejectedIsOut` fails without any overlap.
- With requests in flight two decisions leave a result `pending_review` with
  nothing left to decide (`ReviewedMeansDecided`), and one entity may be approved
  and rejected (`OneQueueOneDecision`).
- `domain.py:239`: "An import that never mentions Location must not erase it".
  `repo.upsert` carries forward the overlay it read, in a column it writes whole
  (`repo.py:178`): a feed or a decision that read the row earlier erases what a
  person entered since. `OverlayStands` fails in `ReviewsAndScope.cfg` with
  `Edits <- OverlayEdits`, `MaxRaced = 2` and no constraint.
- `ConnectorValueStands` falls to the same write. `NothingEntersUndecided` falls to a
  dry run that showed an entity as changed and is applied after its row was deleted,
  which enters it. Of `FeedsKeepHumanFacts` the boundary and the decommissioning need
  no condition; the overlay is for one request at a time.

**Accounts.**
- Run `accounts_anonymized`: an enrolment begun before makes an anonymised account
  active again.
- `set_password` (`routers/auth.py:342`) and `sso_callback` (`:170`) read the user
  before `app.current_org` is set, which the comment at `:240` says must come
  first: under the restricted database role no invitation or reset can be redeemed
  (`enforced`).
- `EnrolledMeansSecret`, with requests in flight: a reset of MFA between the read
  and the commit of an enrolment, or two enrolments that both complete.
- `PasswordIsFresh`, `EscalationIsEarned`, `DeactivationEndsSessions` and
  `SessionsNeedEnrolment` fall the same way, to a request served between the two
  steps of another. `SessionCap` is `Cap`, plus one session for each other sign-in
  in flight.
- Not a departure, but worth knowing: a reset of MFA leaves the sessions open, and
  `verify` does not look at the lock again.

**Memberships.**
- `models.py:1758`: "`User.role` is no longer authoritative for anything". It
  decides whom `provision_new_org` provisions, what a token gives
  (`ResolveApiToken`), and a member revoked at home keeps it as the fallback.
- `OrgKeepsAnAdmin` has two conditions: no overlap (two administrators revoke each
  other, `routers/users.py:328`) and no change of role, because `patch_user` has no
  such guard.
- `StaffReachEveryOrg`: an organisation created while a member of staff is invited.
  A staff user bootstrapped later provisions nobody else.
- `HomeRoleAgrees`: revoking and granting again at home leaves `User.role` behind.

**Library.** The preview says "unchanged" of an empty text where the stored one is
absent, or of a control listed twice; applying creates a version all the same.
`PreviewTells` is about every other draft. With requests in flight, a publication
that commits over an import clears a version nobody has seen (`PublishedIsCleared`).

**Casework.** With requests in flight: two completions would stamp `submitted_at`
twice (`engine.py:475`: "never silently overwritten"; here one step); two voidings
leave the later reason (`models.py:2073`: "never changed again"; `FiledIsFinal`);
two bulk assignments give a practice the same letter twice (`BulkNeverDoubles`); a
statement's text and its approval are written by different requests
(`ApprovedTextWasApproved`).

**Custody.** `delete_document` removes the object before the row's delete commits:
a failure in between leaves a row without its file. `RowsHaveTheirObject` excepts
exactly those keys (`cuHalf`).

**Credentials.** With requests in flight: a rotation writes back the secret it
read over one stored in between (`StoredIsLatest`), a label is missing or wrong
after a set and a delete (`LabelTellsTheKey`), the verdict of a test is beside a
credential it was not about (`VerdictIsOfThisCredential`). The command prints
"Applied." (`cli.py:1096`) without looking at what its second pass failed to
rotate.

**Bundle.**
- Run `bundle_deductions`: a control whose objectives do not apply lowers the
  printed score and is in no row of the table of deductions.
- The stamp says "Point-in-time snapshot" (`bundle_service.py:1810`), and the
  inventory "Complete listing … not omitted" (`:2181`). Each statement sees what is
  committed when it runs. With overlap: an asset approved between the two reads of
  the scope is in neither list (`InventoryIsComplete`); a link made between the two
  reads of links has its entry and no file, one detached there is listed twice
  (`EvidenceIsAccountedFor`); a publication between the reads of documents leaves a
  note without its entry (`NotesHaveTheirEntry`); a contact added between personnel
  and matrix is in the matrix only (`HoldersArePersonnel`); with `BdRaced = 3` a
  list that was chosen is printed as not chosen (`LeftOutOnlyByChoice`). The engine's
  lock covers the score and the statuses: `ScoreIsOfItsStatuses` and
  `FilesKeepTheirPath` hold with overlap.
- "Current" is printed beside the newest filing unless it is voided; the older one
  that `get_current_submission` then answers is marked nowhere.

**Environments.** Migration 0050 leaves the constraint out where two organisations
already share one. Without it, two mappings at once share another
(`NothingIsSharedAnew` is about the behaviours with it, and holds there with
overlap). An organisation mapped anew while a pull is under way is given what the
former environment returned (`PullsTheOwnEnvironment`).

## 7. Not modelled

- **Audit log**, **TLS expiry check**, **dashboard, health, catalog and other read
  endpoints**, **web client**: no state that another operation decides on.
- **Review cycles**: the frozen scope items, comments, the rendered record,
  reviewer selection, the cadence setting.
- **Assessment engine**: `backfill_missing_control_states`, history rows;
  completing and reopening (in `Casework`) are one step.
- **Lists**: reference columns, organisation-defined parameters, merges of sheets,
  the log of tag and link events.
- **Scope**: checklist items, the persisted changed and missing rows, the layout
  of a workbook, Liongard's `Enabled` flag, what is pending of a former environment.
- **Accounts**: the rate limit by address, the idle timeout, permanent deletion;
  a browser has one state cookie; administrators' requests are one step.
- **Library**: objective keys, product metadata, prompts, the choice of a provider.
- **Casework**: several organisations in one run of the reminder.
- **Custody**: bytes. Free space is a nondeterministic answer; `verify` compares
  manifest, rows and objects, not the schema's head, row counts or the score.
- **Bundle**: system description, logo, contributors, tasks, findings, the text of
  statements, PDF, hashes.
- Encryption, hashing, TOTP, SMTP, HTTP, text extraction and AI answers are
  external: an answer is any of a small set, or a failure.
