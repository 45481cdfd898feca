# MySkills: models, checks and proofs

MySkills is a registry of agent skills: an API server on Postgres, a command line
program that installs skills under a root on the user's machine, a companion mode of
that program which serves a queue of operations from the API, and adapters (MCP, web).
This directory holds TLA+ models of the parts where requests overlap, processes die,
leases expire and decisions are made on what was read earlier, the TLC configurations
that check them, and proofs for TLAPS.

`PROJECT.json` lists the components, runs, mutants, findings, hazards and theorems, and
maps every definition that models code to its lines. An operator whose comment says
"Faulty" is no part of a model: it is a plausible bug, and put in the place of the
definition after it, it makes a run fail.

## 1. Inventory

| Component | State it keeps | Operations | Interacts with | Hard behaviour | What makes it correct |
|---|---|---|---|---|---|
| target operations (`apps/api/src/target-operations`) | rows of a queue per target, a poll cursor | create a batch, list and claim, advance, complete, cancel, expire | companions (HTTP), sync leases (shared fence), targets, upgrade policies | leases that lapse, late workers, a poll made of many transactions | one executor per target, fences never reused, settled rows final, success backed by evidence, queued rows reached |
| targets (`targets`) | target row: generation, consent, observations | register, consent, revoke, observe, bind | operations, sync | consent and generation change under running work | nothing happens on a revoked target |
| architecture sync runs (`architecture-sync`) | runs with steps and receipts, one lease row per target | preview, approve, apply, recover, rollback | executor, gates, companion queue | overlapping deliveries, death between mutation and record, snapshots gone stale | success is evidenced, each step once per lease, terminal runs stay |
| sync plans and artifacts | plan, artifact intent | plan, approve, roll back | runs | approvals that go stale | what is executed was approved |
| root lock (`cli/src/install-filesystem.ts`) | directory `write.lock`, `owner.json`, `reaping` | take, release, reap | every writing command | several processes, no atomic step larger than one call | one worker per root |
| installation transactions (`cli/src/cli.ts`) | tree, snapshots, registry, journal | install, update, rollback, recover | lock, workspaces | a crash between any two effects | tree and registry agree, nothing lost |
| companion (`cli.ts`, `companion-lease.ts`) | an operation at work, the renewal of its lease | poll, execute, report | queue, installation | lease lost while files change | reports only what was done |
| bootstrap and workspaces (`codex-bootstrap.ts`, `workspace-*.ts`) | managed files, enrollments | enroll, apply, undo | installation | partial file sets | user files survive |
| submissions, drafts (`submissions`, `drafts`) | submissions, versions, draft revisions | submit, review, publish, revoke | artifacts, scans | two reviewers, stale revisions | a published version is immutable and was reviewed |
| sign-in (`auth`, `packages/auth`) | users, sessions, factors, tokens | sign in, challenge, recover, revoke | all services | single-use codes, the last administrator | a used code is used once |
| device login (`auth/device-login`) | grants | start, approve, poll, redeem | CLI | polling races approval and expiry | redeemed once, by whoever started |
| notification outbox (`auth/notification-outbox.ts`) | messages with attempts and leases | enqueue, claim, send, retry | mailer | lost and duplicated sends | every message is sent or given up |
| OAuth (`oauth`) | clients, codes, token families | authorize, exchange, refresh, revoke | sign-in | reuse of a rotated token | one live refresh token per family |
| organizations, teams | members, roles, invitations | invite, change, leave, suspend | sign-in, tenancy | two owners leave at once | an owner is left |
| architectures, grants, pattern migrations | documents, revisions, grants, batches | create, revise, grant, migrate | releases | resumption of a batch | all or nothing per revision |
| libraries (`libraries`) | sources, jobs with leases, cooldowns | subscribe, synchronize, package | GitHub, worker | worker dies, source changes | one worker per job |
| improvements, evaluations, package quality | runs, scan jobs | start, advance, decide | submissions | long state machines | terminal verdicts stay |
| upgrade policies, updates (`packages/core`) | policy rows | decide | queue, CLI | boundaries of windows and versions | never selects a blocked release |
| storage, bundles, discovery, GitHub, audit, repositories | files and rows | read, write once | all | few | content matches digest |
| packages, MCP, web, HTTP server | none that matters | conversions | API | few | out of scope |

## 2. Modules

| Module | Models | Checked by |
|---|---|---|
| `TargetOperations`, `TargetTickets` | the companion queue of one target with the sync lease; what it promises | `targetops_*`, `progress`, proofs |
| `SyncJournal` | the runs of architecture sync on one target | `sync*`, proofs |
| `Companion` | companion processes that claim, execute and report an operation | `sync`, proofs |
| `InstallRootLock` | the lock of an installation root | `rootlock_reapers`, `registry`, `progress`, proofs |
| `InstallTransaction` | install, update, rollback and recovery of one skill | `install_*`, `registry`, `progress`, proofs |
| `Submissions` | the versions of one skill, review, publication, sharing, deletion | `registry`, proofs |
| `ArtifactWrites` | reservation, writing and reconciliation of artifact objects | `progress`, proofs |
| `ScanJobs` | the queue of package scans and their verdicts | `progress`, proofs |
| `AuthorDrafts` | saving and submitting one draft | `registry`, proofs |
| `LibraryChecks` | tracking of a source entry: checks, discovery, edits, renames | `registry`, `progress`, `library_paused`, proofs |
| `LibraryImports` | snapshots, candidates and revisions of a lineage | `registry`, proofs |
| `LibraryAdoptions` | adoption of releases and bindings of targets | `registry`, proofs |
| `ImprovementRuns` | the attempts of one improvement plan and the journals of their events | `registry`, proofs |
| `AccountActions` | password and address of an account and the links that change them | `people`, proofs |
| `AccountAdmin` | administrators and the confirmation of an address | `people`, `accounts_ownerless`, proofs |
| `SignIn` | sign-in with a second factor, and the life of that factor | `people`, proofs |
| `DeviceLogin` | the login of the CLI through a browser | `people`, proofs |
| `NotificationOutbox` | delivery of account mail | `people`, `progress`, proofs |
| `OAuthGrants` | connector requests, codes, refresh tokens and revocation | `people`, proofs |
| `Tenancy`, `TenancyLocks` | organizations, teams, invitations, policy; their row locks | `people`, proofs |

The proofs are in `TargetOperationsProofs`, `SyncJournalProofs` and `CompanionProofs`, each
of which extends the module of its component, and in `PeopleProofs`, `ProgressProofs`,
`RegistryProofs`, `LibraryProofs` and `SyncProofs`, each of which extends the `MC*` module
whose specification its theorems are about. `MCSync` instantiates the first three modules of
proofs instead of the modules they extend, so that `SyncProofs` is a composition: it cites
what is proved of each protocol and repeats none of it.

`MC*` modules instantiate them for TLC. `MCPeople`, `MCRegistry`, `MCProgress` and
`MCSync` are disjoint sums: a variable `part`, chosen by `Init` and never changed, names
the protocol that moves, and the variables `s1, s2, ...` are that protocol's variables.
The protocols of one sum share no row, so nothing is lost by letting one move at a time,
and each state space is the whole one of its module.

Where components meet, the model of one knows the other by what it does to the shared
rows. `TargetOperations` and `SyncJournal` meet in the lease of a target: the queue sees
sync leases as `SyncAcquire`, `SyncRelease` and time, and sync runs see the queue as a
target that denies. `InstallTransaction` runs under the lock that `InstallRootLock`
models, so its commands do not overlap. `Submissions` takes the verdicts that `ScanJobs`
gives as an action of the environment (`Scan`) and the objects that `ArtifactWrites`
stores as bytes that may drift (`Drift`). `AccountActions` is the sender of what
`NotificationOutbox` delivers; `LibraryChecks` makes the snapshots `LibraryImports` reads.

Each transaction of a Postgres store that starts with a row lock (or an advisory lock) is
one action. What a service reads before its transaction is an action of its own, with the
reading kept in a variable of the call, so that everything else may happen in between;
the transaction's own checks are guards on the current rows. A request that is refused
writes nothing and is no action, unless its failure leaves something behind.

### TargetOperations

A row of `ops` is a row of `target_skill_operations` with the columns that matter;
`sync` is the lease row of architecture sync; `cursor` is where the last poll ended;
`polls` are the requests being served; `grants` is what companions were ever told;
`generation`, `consent`, `policy` and `evidence` are what the target row, the policies
and the receipts say. A poll is one transaction that lists a page and one per candidate,
so a poll takes several actions and may die between them (`PollsMayDie`). Leases are the
time they have left and `Tick` is the database clock. `TargetTickets` is the abstract
specification: a holder at a time, a free target between two, and tickets that grow by
one. `HeldBy` and `TopFence` are the refinement mapping.

Left out: more than one skill per target, the service's earlier reads of the conditions
the transactions check again, audit, and the contents of policies (one verdict).
`evidence` is the version named by the newest receipt or observation. A change of the
generation comes from outside.

### SyncJournal

`row` holds persisted runs: state, steps, receipts and the fence stored with the run;
`lease` is the lease row of the target; `target` is what the executor did, step by step,
with the fence it was called under; `calls` are the calls being served, each with its
place in the service method (`pc`) and the snapshot it works on. A call reads the run,
passes the gates and then stores whole snapshots: `Save` is `saveRun`, with the checks of
fences, transitions and receipts in `Storable`, and a snapshot that is refused ends the
call. `FailRun` is the save of a failure that comes before each block, which also checks
the snapshot's own state against the row. `Claim...` is `claimApply`, `ClaimRecovery` is
`claimRecovery`, `EnsureLease` and `AdoptLease` are the two transactions of `ensureLease`.
After `Execute` or `Restore` the executor may have thrown before or after it did
something. `Die` ends a call anywhere, and what it has stored stays.

Abstractions: a receipt's place in the journal stands for its unique id, so prefixes are
compared by length. Digests, timestamps, failure records and audit are dropped;
`claimRecovery` compares those too, so the model lets more recoveries through than the
code. Every baseline is restorable. The gates are asked together with the read that
follows. `assertLease` and the save in `appendReceipt` are one action with the outcomes
of the two. A new generation of the target and a busy companion are "target" denials;
the companion's fences, which only make the next fence larger, are left out. The service
accepts the fixture executor only (`assertFixturePurpose`), so that is the one modelled.

### Companion

`myskills companion run-once`: under the lock of an enrolled root, a process claims an
operation, swaps the trees of one skill, and reports. `cli` is where each process is,
with what it knows of its claim and the renewals it has queued; `calls` are requests on
their way, which the server may take up late, or after their process is gone; `disk` is
tree, registry and journal. A renewal is sent at each checkpoint and by a timer in
between, one after the other (`CompanionLease.renew` chains them). The queue, the root
lock and the transaction have modules of their own and are here an operation, a holder,
and one step for what a command makes durable or the next one recovers. `now` is read by
both sides. There is one renewal of the timer at a time: a request times out after
30 seconds and the timer fires every 60.

An observation: in an enrolled workspace recovery outside a companion run is refused
(`WORKSPACE_RECOVERY_REQUIRED`, `cli.ts:5301`), so a checkpoint refused after the old tree
was moved away leaves the root to an operator, where the comment at `cli.ts:5236-5237`
expects the next command to recover.

### InstallRootLock

`lock` is the directory with its entries, `pc` where each process is, `seen` and `listed`
what it read. One action is one call to the file system, by path, on whatever lock is
there by then. A recursive removal unlinks entries one at a time in any order. Processes
die anywhere; process ids do not come back. An attempt that fails looks whether the
directory is still its own (`UndoLock`) and then removes by path (`RemoveUndone`); the `lstat`
by which it knows its own is taken with `mkdir`.

`raced` is recorded only and no guard reads it: it becomes true when a process starts to
reap while another is reaping. That is where the lock stops being exclusive
(`rootlock_reapers`), so the promise of the lock, `RootHasOneOwner`, is made up to there and
not up to the first death: contenders read a dead owner, make `reaping` in a lock that has
changed hands by then, take it back or die with it, and one of them reaps, all without
taking the lock of a living process.

### InstallTransaction

`active` is the tree at the output path, `snaps` the private snapshots, `registry` the
record with its history, `journal` the transaction journal. One action is one durable
effect with the checks right before it; `Stop` is a crash or a throw between two of them,
in recovery and halfway through a recursive removal too. "install" and "update" are one
action sequence with different checks. A tree is its bytes; equal digests are equal
bytes; two versions may have the same bytes.

Left out: several skills under one root, migration of legacy digests, stages that a crash
orphans (never read again), edits by the user between a check and the rename it guards,
and tampering with private copies.

### Submissions, AuthorDrafts

`skill` is the skill row, `version` the rows of each version with its artifact, verdict
and attestations, `call` what a reviewer's request has prepared: `prepareReview` reads row
and bytes before any transaction (`Prepare`), and `Approve`, `Publish`, `SelfReview` and
`Elevate` repeat the checks on the locked rows. Withdrawal, rejection, release actions,
archiving, restoration and sharing are single transactions. Roles, teams, settings and
the publication guard of libraries may refuse any of them (`Refuse`).

In `AuthorDrafts` a submission of a draft is a replay by its receipt, or a creation whose
transaction calls the two halves of `submissionBinding` on the draft; an answer may be lost
and the request repeated (`Again`). The request's idempotency key is its revision.

### ImprovementRuns

`runs` are the rows of a plan's attempts, `journal` their events, `call` what a request
has read and is about to store under the version it has read, `acked` the events somebody
was answered for. The rules of the stages (`applyImprovementRunEvent`) are `Allowed` and
`Applied`. Events are sent again (`ReplayEvent`), the plan expires or loses its standing
meanwhile, and runs are cancelled. `registry` has the module twice: "improvements" with two
requests and few events, "reports" with one request and all events. Left out: bindings of
digests, disclosure, capabilities, evidence and audit.

### ArtifactWrites

A key is a submission's reservation, object and row. The submission reserves, locks the
reservation, writes the object (the write may be given up and land later, `LatePut`),
inserts the row and commits or fails; compensation and the periodic reconciliation lock
the reservation, look for a row and remove the object. The database transaction and the
object storage fail separately, processes die anywhere. A reservation becomes old by
`Age`, which a submission at work may see too. Left out: a write the storage refuses by
itself and that lands all the same later; only one given up at its timeout does.

### ScanJobs

A job is claimed with a lease and an attempt, the artifact is read and scanned outside
any transaction, and one transaction completes job, run and version. Workers die, leases
lapse under slow workers, artifacts drift; a batch starts with the jobs that exhausted
their attempts. The rules of a scan are one nondeterministic verdict per reading.

### LibraryChecks, LibraryImports, LibraryAdoptions

`LibraryChecks` follows a check through its transactions (claim, prepare, store the
snapshot, finish, each fenced by the lease), next to a discovery without a lease, tracking
edits that carry the revision the curator looked at, renames upstream, and the removal of
the entry. The names and commits of the repository are the environment's.
`LibraryImports` builds candidates over a long time (`Preview`, `TrackLineage`,
`InsertCandidate`) and moves the head of a lineage only in `ImportCandidate`.
`LibraryAdoptions` has the two-step `adopt` and `createBinding`, withdrawals of releases
and removal of entries. Left out: packaging, profiles, subscriptions, notifications of
users and the cooldown of a source.

### AccountActions, AccountAdmin, NotificationOutbox

`AccountActions` is one account: a request reads it, verifies the password outside any
transaction and commits under the lock of the row; links are issued, followed, expire.
`AccountAdmin` are several accounts whose status and roles are changed by requests that
decide on what they read and commit under one advisory lock; the confirmation of an
address does not take that lock. In `NotificationOutbox` a request stores an intent with
its token, workers lease, check the recipient, send and settle. The provider accepts or
refuses a message without any transaction, and a send may outlive its lease or its
process. Left out: text and encryption of messages; sign-in has a module of its own.

### SignIn, DeviceLogin

`SignIn` is one account with its factors, challenges, recovery codes and sessions. Only
disabling a factor is a transaction of several statements; everything else is a row of
single statements, so the reading of a challenge, the use of a code (a conditional update
of the last time step, or of the recovery codes) and the session are steps of their own,
and a request may die after each. Left out: hashing, names of factors, rate limits, and that
a code may fit two factors: the loop over factors ends with the claim of the one it fits.

`DeviceLogin` has the server's requests (created under a cap, decided in the browser,
polled at a pace the server raises, redeemed once) and the CLI's side: a checkpoint in the
keyring, the lock on its entry, processes that are interrupted, die and are resumed, and
polls they gave up that still reach the server. Left out: scopes that differ between
attempts, a corrupt keyring, audit.

### OAuthGrants

Requests for authorization, decisions with the session they were made in, the exchange of
codes with the recheck of authority, refresh rotation with detection of reuse, and every
revocation. The service reads a token before the transaction that rotates it. Left out:
scopes, assurance of second factors, access tokens with an expiry of their own,
registration of clients, and `cleanup` (`postgres-store.ts:251-270`), which deletes rows long
expired or revoked: a token presented after that is unknown rather than misused.

### Tenancy, TenancyLocks

`Tenancy` takes each transaction of the organization and team stores as one action on
members, roles, invitations, teams and the policy of the day. Accounts are disabled and
enabled meanwhile (`SetActive`): an actor needs an active account, but the counts that
protect the last owner ask for the role only, in the code (`activeOwnerCount`, `ownerCount`)
as here. `OwnerRoleIsHeld` therefore promises a member with the role owner and no more; see
section 5. `TenancyLocks` has only the
row locks, in the order of the statements, of nine kinds of transaction; the database's
detection of deadlocks is left out, so a circle is a state. The transaction that adopts a
standalone team locks in the other order and does form a circle with the others; the
database aborts one of the two, and the run leaves that kind out.

## 3. Runs

| Run | Bounds | Shows |
|---|---|---|
| `targetops_safety` | 2 operations, 2 companions, 1 release, 2 generations, companion fences to 2, sync fence 1, lease of 1 tick, three policy verdicts, revocation | exclusion between companions and sync runs, fencing of late workers, claim columns, evidence of a success, settled and revoked rows; the refinement of `TargetTickets` |
| `sync` | one run of 2 steps with duplicates of apply (denied by gate or target) or of rollback (denied by target), or two runs of 1 step; 2 calls at a time, fences to 3; a queue of 2 releases without policies and sync; 2 companions with leases of 2 ticks, 3 ticks, 2 claims, a death or lost answer and an edit | success is evidenced and read back, each step once per lease, settled runs stay, overtaken calls, old fences and old claims change nothing |
| `people` | 2 concurrent requests; 3 links and 3 passwords; 2 administrators; 1 factor, 2 challenges and sessions, 1 later time step; 2 device requests, one at a time, with 2 polls and 2 interruptions; 2 intents of 2 attempts; 2 authorization requests with 3 token pairs; 2 users, 2 teams, a narrow and a wide policy | links match their account, accounts keep an owner, codes and challenges are used once, approvals of devices are honoured, mail is accounted for, authority of connectors is current, groups keep a member with the role owner and grow within policy, no circle of locks |
| `registry` | 2 versions of a skill with a reviewer's call at a time; a draft of 3 revisions; 2 entries with 2 snapshots and 3 candidates; 2 releases; 2 checks with a push, a rename, an edit and a fault, and no pause (`MaxAbsences` is 0); 2 attempts with 2 requests, or one with every event; 3 processes with 2 calls on a root; 5 transactions with 4 stops and an edit | the way of a skill from draft to installation: what is shared was reviewed, what was published stays, lineages and adoptions are chains, improvement runs are what their journals say, one process owns a root until two reap it at once, a root can be recovered |
| `progress` | 2 operations and pages of 1; 2 artifacts; 2 scan jobs of 2 attempts; 2 intents; 2 checks; 3 processes; 3 transactions | verdicts follow evidence, objects are accounted for, and every wait ends |
| `targetops_starvation` (violation) | 2 operations, 2 releases | a poisoned row starves the page |
| `rootlock_reapers` (violation) | 3 processes | two reapers and the lock of a living process |
| `install_torn` (violation) | 2 transactions, 2 stops | a half removed candidate stops recovery |
| `install_reinstall` (violation) | 3 transactions, 2 stops | a rollback onto equal bytes loses its snapshot |
| `sync_duplicates` (violation) | 1 run | a duplicate blocks the winner |
| `accounts_ownerless` (violation) | 3 users, 2 administrators | a confirmation writes back an old status and no active owner is left |
| `library_paused` (violation) | 2 checks, 1 rename, 1 absence | the review mark of a renamed repository ends a pause |

Runs set `CHECK_DEADLOCK FALSE` where budgets run out and the system may rest.

Properties of one kind about several protocols are one property of a run, a conjunct for
each: `SuccessIsEvidenced` of `sync` includes `Companion`'s `SuccessIsReadBack`,
`FencesOrderTheWork` its `MovesUnderNewestClaim` and `RenewalsAreOrdered`,
`WhatWasReviewedStays` of `registry` the history of drafts and `SettledRunsStay` of
improvement runs.

Why the bounds are enough. Each hazard needs a fixed number of actors: a call that read
early, a call that commits in between, and sometimes a third that follows up, and every
instance has them. Exclusion and fencing go wrong between two holders and a later grant,
so three fences over two holders and the sync run reach every order of claim, lapse,
second claim and late report; a page of one with two rows makes the cursor move on and
wrap. The lock needs a dead owner and two contenders. Recovery is checked over chains of
transactions long enough for an install, two updates, a rollback and another update, with
stops in the transaction, in its recovery and in the recovery of that. For sync, two calls
at a time are a winner and a duplicate, or a slow call and its successor; two steps let
the loops be interrupted between steps; three fences let a call be overtaken twice. Two
attempts let a lease lapse under a worker that reports late, and then exhaust. Two
snapshots and three candidates let a lineage go forward and back while another candidate waits.
Three token pairs let a pair be rotated while the one before is replayed. No source is
paused in `registry`: with an absence its checks alone have a million states. Pauses are in
`progress` (one absence, for what must eventually happen), in `library_paused`, and in the
proofs of `LibraryProofs`, which hold for every `MaxAbsences`.

`Max...` constants and `Budget` bound the instances; the code has `MaxFence` (10^9 and
10^12), `MaxAttempts` (3 for scans, 5 for mail), `MaxRevision` (100), `ListLimit` (100),
`PageLimit` (10) and `MaxActive` as limits of its own.

Symmetry is used for calls, companions and twins (users, entries, names), in runs without
liveness properties; none of them is ever compared or ordered.

### Fairness

`progress` states the fairness of each module, for the time its protocol moves:

- queue: companions poll for the current generation (strongly fair, because the same host
  may also poll for an older one), a poll being served goes on, time passes, and a
  companion that holds the current claim ends it with a receipt at some time, if only
  "failed". The CLI polls in a loop; `companionCommand` reports what
  `executeTargetOperation` throws.
- artifacts: a submission goes on until it ends or its process dies, given-up writes land
  or not within bounds, reconciliation runs (at start-up and every fifteen minutes), time
  passes. Deletions are refused a bounded number of times.
- scans and outbox: workers work (timers in `server.ts`), leases lapse, retries become
  due. Deaths are bounded.
- checks: the worker claims what is due and a check goes on; the lease of an orphaned
  check lapses; time passes.
- root: each living process goes on; the code retries in a loop with a deadline, and
  giving up is one of the outcomes.
- install: a command that runs keeps running and the user runs another one. Stops are
  bounded, not fair.

## 4. Proofs

Each theorem holds for every value of the constants its assumptions allow: any number of
users, requests, workers, operations, versions, and any bounds. The assumptions are stated
in the modules that declare the constants, and say no more than that numbers are numbers
(positive where the code's are), that sets counted in the code are finite, and that a mark
for "nobody" is nobody.

| Module | Theorems | Assumptions |
|---|---|---|
| `TargetOperationsProofs` | `TypesCorrect`, `MutualExclusion`, `TopFenceHolds`, `FencesNeverReused`, `StaleWorkersAreFenced`, `ClaimColumnsHold`, `SettledRowsAreFinal`, `RevokedTargetsAreFrozen`, `SuccessesAreSound`, `QueueImplementsTickets` | operations are numbered; the null holder is no companion; bounds |
| `SyncJournalProofs` | `JournalInvariant`, `JournalTypes`, `JournalSuccess`, `JournalExecutesOnce`, `JournalSettles`, `JournalFollowsTheFence`, `JournalFencesTheOvertaken` | plans, budgets and fences are counted |
| `CompanionProofs` | `CompanionInvariant`, `CompanionTypes`, `CompanionReadsBack`, `CompanionMovesUnderItsClaim`, `CompanionRenewsInOrder` | bounds are numbers; nobody is no companion |
| `SyncProofs` | `SyncTypes`, `SyncSuccess`, `SyncAppliesOnce`, `SyncSettles`, `SyncFollowsTheFences` | fences are counted; nobody is no call and no companion |
| `PeopleProofs` | `OwnerRoleStaysHeld`, `GrowthIsGoverned`, `TransactionsNeverWaitInACircle`; `AccountsStayConsistent`, `MessagesAreAccountedFor`, `LateWritersChangeNothing`; `ConnectionsStayCurrent`; `CodesStayUsedOnce`, `ApprovalsStayHonoured`, `PeopleTypes` | users and teams are finite sets, a policy has two limits and three switches; no adoption of teams (the third); an account has an address and a password, an instance an owner; nobody is no process and no user; the first interval is at most the largest; bounds |
| `ProgressProofs` | `ObjectsStayAccountedFor`, `VerdictsStayEvidenced`, `VerdictsStayFinal`, `ProgressTypes` | a reconciliation is none of the other owners of a lock; nobody, no entry and no tree are none of the others; bounds |
| `RegistryProofs` | `SharedSkillsWereReviewed`, `DraftsStaySubmittedOnce`, `RootKeepsOneOwner`, `ReviewedStays`, `AttemptsFollowEachOther`; `InstallationsStayRecoverable`, `RecoveryStaysOnItsSide` | no lock is no directory; versions are numbers; no tree, an edited and a torn one are different and no package; nothing is no entry and no journal; bounds |
| `LibraryProofs` | `LibrariesStayConsistent`, `LibrariesKeepMovingKnowingly`; `ImprovementsStayReplayable`, `RegistryTypes` | a check is not the mark for nobody, for no lease or for a discovery; bounds |

So every invariant and every action property that a run checks is a theorem. Each invariant is proved through an inductive
one (`IInv` in the component's module), which TLC checked first; what it adds is said
there and here.

The proofs about a component in the other sums have one shape: the step of the sum is a step of the
component while its part moves (`...Steps`), the component's first state has `IInv`
(`...Init`, `...Starts`), each action keeps it (one lemma or step per action), and the
theorem takes the conjunct it names.

### The queue

`IInv` adds to the types that the set of grants is finite, and `GrantsBelowFence`: no
grant ever sent carries a fence above the one its row has now. Without it uniqueness is
not inductive, as the grants remember fences that rows have since replaced. Only a claim
and a sync lease give out a fence (`StepFrames`); both happen only while nobody holds the
target and take one more than the maximum of both tables; so a new fence is above all
rows, all grants and the sync lease, and the new holder is the only one. For stale
workers, a step that moves a claimed row is a report by the current claim or a new claim
(`ReportsAreFenced`), and a claim raises the fence.

The properties of single rows rest on `RowSteps`, the list of everything a step can do to
a row, and on `ColumnsInv`, which adds that a row without a claim has no lease: that keeps
the clock from changing a settled row.

`QueueImplementsTickets` is the refinement: the initial state maps to a free target with
ticket 0, a claim and a sync lease map to `Take`, the end or lapse of a holder to `Leave`,
and every other step to a stutter. The mapping is a function of the state because of
`OneExecutor` and `HolderHasTopFence`.

### Architecture sync

The invariant of `SyncJournal` says of every call what each point has made sure of
(`CallFits`) and how it stands to what others may have changed meanwhile (`CallAgrees`).
Three things keep stale calls harmless, each for another reason. A call that does not know
every receipt of the row is refused, and what its snapshot says of states matters only
while it knows them all; then it is not ahead of the row, since moves go up in one order
(`Rank`) except in a recovery, which leaves a receipt. A call with a claim that knows
every receipt has a fence at least as new as all evidence in the row, so what it stores
comes in the order of fences. And what a call takes for done is on the target while the
run is open: a run is rolled back only from states that do not come back (`Open`), so a
call that is wrong about the target is wrong about a run it cannot change any more.

That the executor gets a step once under one lease is a matter of points: `Unexecuted`
is what a call has still to do, nothing of it is on the target under the call's fence, and
`ClaimsDiffer` says that no two calls execute under one fence, since a claim takes a new one.
`LeaseFits` gives each fence to one run. Success is evidenced because a run becomes
`succeeded` only with every step succeeded, and a step that has succeeded in a snapshot has
a receipt of the readback in the row, or is the one whose receipt is about to be stored.

Every save is `Save`, so `SaveKeeps` is proved once for any snapshot and any receipts that
satisfy `SaveFits` (what a save needs to keep the invariant); each action then shows what
its own save has. `TurnKeeps` does the same for calls that only go on, and
`AgreesOnward` is what carries a call over the steps of all others.

### Companions at work

The hard part of `Companion` is the queue of renewals: a timer and a command renew the same
claim, and a renewal that was sent may be served after the next has been asked for.
`QueueFits` says what can be in a queue (two at most, one of the timer, the other one the
command waits for, and a change to `verifying` last), and `RenewalAgrees` that the one
request on its way under the newest claim is the head of that queue, in the state that
was sent last; so the server, which takes the states in order, grants it. A second
request of an operation under a newer claim makes the older ones worthless, which is why
all of it is said of the newest claim only.

A tree moves under the newest claim because whoever is past a checkpoint has the lock, and
`CliAgrees` says that the companion with the lock has the newest claim: the next claim
needs the lock first. A success was read back since the receipt is asked for at points
that come after the readback (`ReadBackSeen`), and a receipt on its way keeps its fence.

### A target as a whole

`SyncProofs` puts the three together: one of five protocols moves, each is in the invariant
of its module (`IInv`), and a step of the sum is a step of the one that moves. The constants
that `MCSync` gives to the modules satisfy their assumptions (`OneFits`, ..., `WorkFits`);
`Calls` and `MaxFence` stay what they are, any set and any number.

### Organizations, teams and their locks

A transaction that takes an owner away has counted the members with that role under the
lock of the group and found another (`LosingLeavesAnOwner`), whose account may be disabled;
`FoundersComeFirst` adds that nobody belongs to a team before it is founded. Growth is governed because each transaction that adds compares
the count of the same state with the policy of that state (`Limits`).

For the locks, `IInv` says that a transaction holds the first of its locks in their order
and that two never hold the same row. The kinds of transaction do not lock in one linear
order of tables; what they share is weaker (`Ordered`): the team comes first, rows of a
team come under its lock, rows of an organization under its lock, before the organization
only rows of the team are locked, and after a user only rows under such a lock. A circle
of waiting transactions would need one that waits for the organization or the team while
holding a row under it (`OrderedLocksMakeNoCircle`). Adopting a standalone team locks team,
member and user before the organization and does not fit, so the theorem excludes it, as
the run does.

### Accounts, mail, connections

`AccountActions` needs nothing beyond its two properties and its types: a link is issued
for the state it is valid in, and each change of that state ends the others. In
`AccountAdmin`, `DeletedIsLeftDeleted` adds that a request which has read a deleted account
leaves it deleted, so only an older reading brings it back; the decision about the last owner
is made on rows read under the advisory lock, so it still holds at the commit.

In the outbox, `NoTwoOnTheirWay` is the uniqueness of the active intent, and
`DeliveriesWereAccepted` carries what the provider answered from the send to the
transaction that stores it; a late worker finds its lease gone.

For connectors, `NewestTokenIsUnused` says that the pairs of a connection are used in
their order, from which one unused token follows by counting, and `RotationsAreOfPairs`
that what a request is about to rotate was found in the connection. Authority is current
because a revocation and a consent meet at the account's row: the later one sees the
earlier.

### Signing in

`ProofsAreSpent` says that whatever proof a request or a session holds is not accepted any
more: its time step has passed for the factor in the factor's present life, or its
recovery code is used or gone. `ProofsAreApart` says that no two requests, and no request
and session, hold the same. A proof is accepted by one conditional update only
(`ProofIsAccepted`), and a proof that is spent stays so (`SpentStays`), even when the
factor is disabled and confirmed again.

For device logins, one process at a time works on the entry of the keyring, and
`PacesAreKept` says of what it knows, and of what the keyring keeps for the next process,
that the next poll is not early and no later than the interval the server wants.
`PollsAreWaitedFor` ties each answer to the process that waits for it; polls of processes
that are gone are answered for nobody. A request is redeemed by a conditional update of
an approved row, so it has one token.

### Objects and verdicts

`LocksAreHonoured`, `WriteHasIntent` and `GivenUpWriteIsFresh` say what each holder of an
intent's lock may rely on: the writer's intent is there, a removal looked for the row
under the lock so that no commit comes between, and a write that may still arrive keeps
its intent fresh. Then no committed object is removed and no other is forgotten. The
freshness is an assumption about time (`Age`): a write that was given up has arrived or
been dropped when its reservation counts as old.

For scans, a running job has the run of its current attempt (`JobsHaveTheirRun`), and a
job that is still at work has no verdict (`OpenJobsAreUnjudged`), so the transaction that
completes a job never finds one to replace.

The queue, the outbox, checks, the root lock and installations move in `progress` as in the
other sums, for other constants. `ProgressProofs` takes their invariants from there: it
instantiates `PeopleProofs` and `LibraryProofs` for the constants of `MCProgress`, shows that their
assumptions hold (`PeopleFit`, `RegistryFits`) and that a step here is a step there
(`MailIs`, `CheckIs`, `RootIs`, `InstallIs`). `ProgressTypes` adds that what a reconciliation has left
are keys (`TodoFits`).

### From draft to installation

`NoneWaitsInAShared` closes `SharedIsReviewed`: a self-reviewed version is not even waiting
in a shared skill unless it was elevated, so sharing and publishing need not see each
other. `PublishesTheApproved` says that a request which is about to publish goes on with
the digest its reviewer approved, and the transaction compares it with the row.

`RequestsAreOfRevisions` says what a repeated submission of a draft carries, so the receipt
on the revision answers it with the submission it was made into, never with a second one.

The root lock is exclusive until two have reaped the lock of one dead owner at the same
time. Up to then whoever is between making the directory and removing it is the one who
made it, or alone reaps what a dead process made (`TurnsAreTaken`), so each change of the
lock beyond `reaping` is made when there is none, by its living maker or by its only reaper
(`RootTouches`), and `TurnsKeep` shows that such a change disturbs nobody else's turn: no
reaper has a living maker's lock in mind, as the dead stay dead. The owner a contender has
in mind was dead when it read it (`OwnersAreKnown`, races or not). The run
`rootlock_reapers` shows that after such a race the lock is no longer exclusive.

For improvement runs, rows and journals agree (`HistoriesAgree`), whoever finds the
version it has read still there has the next number (`ReadingsAreBehind`), and whoever
finds its attempt free has seen all the others stopped (`AttemptsAreKnown`).

That a row is its journal replayed (`ImprovementsStayReplayable`) needs an induction over the
journal. `Replay` is a recursive function, and the one fact about it that an append
needs, that replaying one event more applies it to what the others came to
(`ReplayOfOneMore`), is proved from a least length at which two replays would differ
(`HasLeast`, from the well-ordering of the naturals). `HistoryInv` adds to the property what
a request that has read a row may rely on while others append: the row it read is told by
the events it read with it (`CallTells`), a prefix of the journal now.
`ImprovementsStayReplayable` stands in `LibraryProofs`, with `RegistryTypes`, which collects
the types of the seven protocols.

`InstallTransaction` is proved in the three questions recovery asks of the disk. Which
side is the registry on? `PlanIsSound` says it is on one of two, the entry the journal
keeps or the candidate, and `InOrder` that the versions of an entry's history grow, so
the two differ in version and `candidateCommitted` is decided by the registry alone
(`SideIs`). Are the trees of that side there? `BothSidesHold` says so after a stop at any
point, with all of history: an update takes its snapshot under an id no entry has yet
(`SnapshotIsNew`), a rollback drops two ids which the new history is without
(`CandidateIs`). Where is the command? `PointsFit` and `TreesFit` say what each point has
made sure of, the first whatever the user edits. Versions may have equal bytes, and then the
active tree does not tell the sides apart; the registry still does. The one assumption on behaviour is
that a version is not installed over itself (`Reinstalls` is `FALSE` in `MCRegistry`):
with it two entries have one version and the property fails, which is the run
`install_reinstall`. What is said of trees is said while the user has edited none;
`RecoveryKeepsItsSide` says what becomes of edits.

### Libraries

A snapshot is imported from a candidate that was built earlier, from a head that may have
moved since. `NumbersFit` counts revisions and `OrdersAreCurrent` says that a candidate, or
one still being built, shows its order against the present head exactly when it carries
the present revision number; so the import, which compares that number, needs an
acknowledgement for the same commits an import decided now would. `CountsOnce` is what the
unique index on snapshots gives.

For adoptions, `AdoptionsGoOn` says that the chain of an entry ends in its current one and
points backwards, so what a new one replaces nothing else has replaced; `PinsFit` that a
binding has no pin while its entry is curated.

For checks the hard case is a check whose lease has lapsed and been taken by another, both
still at work. `CallFits` says what each point of a check has made sure of, from the
commit it compares with to the announced transition; `LeaseFits` that whoever has the
lease has read the last result of any check, as another could only have replaced it by
holding the lease; and `ViewFits` that a curator who looked at the present revision of an
entry has seen the name that is pending, since every change of that name raises the
revision. Results are stored in a sequence that only grows, so what a check knows of a
stored snapshot stays true.

### Only model-checked

- All liveness (`WaitsEnd`): fairness and `ENABLED` are beyond the prover.
- The violations of section 5, each a counterexample.
## 5. What disagrees with the code's own words

Details and quotes are in `PROJECT.json`, "findings".

1. `targetops_starvation`: a claimed row with a lapsed lease and a changed source makes
   each claim throw; the rest of the page is never tried.
2. `rootlock_reapers`: the directory that lets one contender reap is removed together
   with the lock, possibly first; a second reaper then removes the lock of a living owner.
3. `install_torn`: a removal that stops halfway leaves a tree recovery refuses.
4. `install_reinstall`: a version installed over itself, rolled back and stopped before
   anything moves, is taken for committed and its snapshot is deleted while the registry
   still names it.
5. `sync_duplicates`: the checks before `claimApply` let a duplicate delivery block the
   run and release the winner's lease.
6. `accounts_ownerless`: `confirmEmailVerification` writes back the status it read with
   the link, over what administrators have decided meanwhile.
7. `library_paused`: `markIdentityChange` replaces the pause of a source without curators,
   and a later check puts it back on its schedule.

Seen as well, without a run of its own: `activeOwnerCount`
(`postgres-organization-store.ts:931-941`) counts memberships with the role owner and
ignores `users.status`. When the other owner's account is disabled, the only owner who can
act may leave or give up the role, and nobody is left who can act as owner, where the error says
"At least one active organization owner is required." (`:471`) and a test is named "member
administration preserves the last active owner" (`organization-service.test.ts:159`). The
other way round, disabling an account does not look at the groups it owns. Teams count
likewise (`ownerCount`, `postgres-team-store.ts:832`), but their error asks only for "At least
one team owner".

## 6. Plan

Written so far, in this order: the queue (the most contended state, shared by two
subsystems), the lock and the transactions of the installation, the sync journal, then
submissions with their artifacts and scans, drafts, libraries, accounts with their mail,
connectors, organizations and teams, the companion process, sign-in, device login and
improvement runs.

Every invariant and action property of the runs is proved; new theorems come with new modules.

Next modules:

1. Architectures with their revisions, grants and pattern migrations.
2. Targets and their generations; artifacts of sync runs; bootstrap.
3. An installation as an atomic register with history, implemented by
   `InstallTransaction` with recovery as a stutter.
4. Pure algorithms against references: selection of updates, upgrade policies and
   windows, semantic versions.

## 7. Not modelled

Not modelled, and not planned: validation and canonical forms of documents, archives,
text rules of scans, ranking, HTTP routing, the web application, the MCP adapter,
deployment (conversions and input/output without state that actors share), and the
in-memory stores, which mirror the Postgres stores for tests. Most of the source lines
are of that kind: the web application and the route table of `app.ts` alone are eleven
thousand lines without state that two actors share.
