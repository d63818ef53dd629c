# OntoloHub: TLA+ models

OntoloHub is a workbench for ontologies: a FastAPI server (`src/apps/api`) over SQLite (or
PostgreSQL), a React client and a small CLI. Its logic of record is the server: about seventy
Python files whose endpoints move rows through lifecycles, in short transactions that
interleave, and a few background tasks that go on after the response.

This directory holds TLA+ modules of that logic, TLC configurations that check them on small
instances, and proofs that TLAPS checks for every instance. `PROJECT.json` lists the components, the
runs, the mutants (one for every property: a plausible bug it must notice), the source lines each
definition stands for, the hazards and the theorems.

## Inventory

| Component | State | Operations | Status |
|---|---|---|---|
| Sessions (`db/connection.py`, `api/auth.py`) | what a request has read and will write, the writer lock | read, flush, commit, rollback, stop | modelled for SQLite, proved, without engine and pool |
| Change requests (`api/release.py`) | CR row, reviewer rows, comments | create, patch, submit, approve, reject, close, merge, delete; assign, remove, vote; comment, erase | modelled, proved |
| Release line (`api/release_line.py`) | branches, default flag, protection, heads, merges, tags | 10 endpoints and the lazy creation of `main` | modelled, proved |
| Workflows (`api/workflow.py`, `runtime/`) | definition and counters, executions, step results | update, delete, execute (sync, async, trigger), steps with handlers and retries | modelled, proved (but for liveness), without `create_workflow` and the steps' data |
| Triggers, actions, cron (`api/webhooks.py`, `api/action.py`, `services/webhook_dispatcher.py`, `api/main.py`) | trigger counters and status, runs, tasks in memory, the cron loop | configure, inbound webhook, schedule, run, cancel, background execution, stop | modelled, proved, but for `create_action_type`, `update_action_type` |
| Releases and outbound webhooks (`api/release.py`, `api/webhooks.py`, `services/webhook_dispatcher.py`) | releases, deployments, reports, webhook configurations, dispatch tasks | create, edit, download, preflight, publish, deploy, roll back; dispatch, record, deliver | modelled, proved |
| Ontologies (`api/ontologies.py`) | ontology, classes, properties, relations, constraints, versions | edit content, publish, fork, draft, replace, publish a version | modelled, proved |
| Objects and links (`api/objects.py`) | rows with `identity_key`, links | upsert, bulk upsert, soft and hard delete, link | modelled, proved |
| Audit chain, project members (`api/auth.py`, `api/audit.py`, `api/members.py`) | events with `prev_hash`, `entry_hash`; memberships, users | record, verify; invite, change role, remove | modelled, proved; users' administration is not |
| Workspaces and SSO (`api/workspace.py`, `api/sso.py`) | workspaces, members, identity providers, logins | create, list, delete, invite, change role, leave; configure, log in, call back | modelled, proved, but for plans, quotas, SAML |
| Sources, evidence, candidates, proposals (`api/sources.py`, `api/candidates.py`, `services/candidates.py`, `api/proposals.py`) | sources, evidence, profiling runs, proposals, decisions | upload, align, reject, bulk; generate; decide, batch review, edit, delete | modelled, proved, but for the classification of fields |
| Connectors (`api/connectors.py`, `core/secrets.py`) | config with sealed fields, list of secrets, status | create, edit, delete, test, snapshot | modelled, proved |
| Validation and SHACL, mappings, catalog, projects, cache, sandbox, drivers, migrations, web, CLI | rows without a lifecycle, or I/O | CRUD, parsing, delegation | not modelled (see the end) |

How they interact: every endpoint gets an `AsyncSession` from `get_session`, which commits after
the handler has returned and rolls back on an exception. Endpoints call `record_audit` in their own
transaction, or in a second one after a commit of their own, and create `dispatch_webhook` tasks
before they commit. Triggers (inbound webhooks and the cron loop) create action runs and workflow
executions and start tasks for them. The workflow executor works in the caller's session or in one
it owns, and calls the sandbox, HTTP endpoints and the object tables. Decisions about proposals
write to the evidence of the sources and to the audit chain.

What is hard: requests interleave at every `await`; the ORM writes only changed columns, without a
version check, so what a handler checked may be stale when its writes arrive; background tasks
outlive their request and may start before it commits; some of them flush and never commit; a stop
of the process loses all of them; SQLite is opened without foreign keys. `PROJECT.json` lists each
such place under `hazards`.

What makes each component correct:

- *Change requests*: nothing merged without approval, nothing approved unsubmitted; a round of
  review starts from nothing; an objection blocks; the quorum approves; what is asked of the reviewers and
  who they are is settled in time; a merged CR is frozen; no orphan rows.
- *Release line*: one default branch; protected branches stay, and move only by recorded merges.
- *Workflows*: the verdict is the one the error handlers call for; results are stored whole or not
  at all; executions end; what was started is run; counters never exceed what happened.
- *Triggers and actions*: a trigger's counter is the number of its runs; an action is performed at most
  once, and for a stored run; the schedule does not serve a minute twice; a run that ended says how.
- *Releases*: nobody hears of a publication that is still under way; a failed delivery is repeated; the
  checksum is that of the released text.
- *Ontologies*: the head version is a published one; drafts start from it; a fork copies one state
  of its source; nothing is attached to what is gone.
- *Objects*: the ends of a link exist. *Audit chain*: `verify_chain` accepts what the program
  itself wrote. *Members*: the newest entry about a member tells the truth. *Workspaces*: an owner
  keeps the owner's role. *Proposals*: a decision stands, and the evidence it confirmed can be
  traced. *Connectors*: a secret is never stored in clear.

## Sessions and deployments

`get_session` (`db/connection.py:105-113`) and the ORM determine the grain of the models. A request
reads the committed rows, checks them and plans what it will write; a commit applies the plan to the rows
*as they are then*. An attribute set to the value it was loaded with is not written. A flush that would
update or refresh a vanished row fails, as does one that breaks a unique index; then only a rollback
remains. A rollback also stands for lock timeouts, lost connections and a stop of the server, and so is
always possible. SELECTs of one handler are taken as one read unless a hazard lies between them
(`publish_ontology`, `fork_ontology`, SSO callbacks, decisions, the workflow executor).

`DatabaseSession` has this once for all components of the server: `session[r].plan` holds the rows to
insert, update and delete, `session[r].job` what the handler does next; `Set` keeps the columns whose value
differs, `Flush` takes the writer lock, `Commit` and `Rollback` release it, `Stop` loses every open
transaction. The older modules `ChangeRequest` (`tx[c]`), `ReleaseLine` and `WorkflowExecution`
(`run[e]`) have the same two steps, with their own variables, so that they can be proved about.

- *SQLite* has one writer. An endpoint that authenticates first updates the user's `last_login_at`
  and so holds the writer lock before it reads (`BeginLocked`): such requests are serial among
  themselves. Endpoints of change requests, ontologies, releases and proposals need no login, so they read without a
  lock (`Begin`) and interleave on SQLite as well. There is no `PRAGMA foreign_keys`, so the database cascades
  nothing (`ForeignKeys = FALSE`); what the ORM's relationships delete is part of the plan.
- *PostgreSQL*, which `docker-compose.yml` uses, lets requests of different users interleave and
  enforces foreign keys. At this commit the engine for it cannot even be built
  (`db/connection.py:33-36` passes `pool_size` with a `NullPool`); `ChangeRequest`, `ReleaseLine` and
  `WorkflowExecution` describe what the code does once that is repaired, `Automation` and `Server` are about SQLite.

## Modules

| Module | Models | Actions and the code |
|---|---|---|
| `ChangeRequest` | one CR under concurrent requests | one action per endpoint of `cr_router` (`Begin` opens its session); `CommitWrites`, `CommitDelete`, `Rollback` end it. `cr` is the row (a timestamp column is in `stamps` once set), `votes` the reviewer rows, `thread` the comments |
| `ReviewLifecycle` | abstract: the review state machine, each decision atomic | what the endpoints keep of `ChangeRequestStatus` and the docstrings: the documented machine but for `AmendLate` (the quorum is changed after submission) and `Resubmit` (a CR that was sent back does not pass through DRAFT) |
| `ChangeRequestProofs` | theorems of `ChangeRequest`: however requests overlap; one at a time, with the refinement | |
| `ReleaseLine` | branches, default, protection, merges, tags of one ontology | one action per endpoint; `EnsureDefaultBranch` is the write inside `GET /branches`; `Commit`, `Rollback` |
| `ReleaseLineProofs` | theorems of `ReleaseLine` | |
| `WorkflowExecution` | the executions of one workflow | `ExecuteSync`, `ExecuteAsync`, `FireTrigger` start one; `Load`, `SkipStep`, `StepSucceeds`, `AttemptFails`, `StepFails`, `Commit`, `Raise` are `execute_workflow`; `NotFound`, `WorkflowGone` its early ends; `ServerStop`, `UpdateWorkflow`, `DeleteWorkflow` what goes on around it |
| `WorkflowExecutionProofs` | theorems of `WorkflowExecution` | |
| `Automation` | triggers, action runs and their tasks, the cron loop | requests are single steps, as they hold the writer lock, but for `RunAction`, which starts the task before `CommitRunAction`. `CronScan`, `CronSkip`, `CronFire`, `CronAborts`, `CronSleeps` are an iteration of the loop; `StartTask`, `TaskDies`, `Act`, `Fail`, `FinishTask` the background task; `Mark` what it stores: nothing |
| `AutomationProofs` | theorems of `Automation` | |
| `DatabaseSession` | sessions, plans, the writer lock | see above |
| `OntologyVersions` | ontologies, content, versions, forks | one action per endpoint; `PublishReadsClasses`, `PublishReadsRest`, `ForkFlushes`, `ForkCopiesClasses`, `ForkCopiesRest` are the later statements of two of them |
| `Releases` | releases, deployments, webhooks, dispatch tasks | one action per endpoint; `FlushAndAnnounce` is the flush and the `create_task` before the commit; `DispatchReads`, `DispatchRecords`, `DispatchFails`, `Deliver` are the task |
| `AuditedMembers` | project members, the chain | one action per endpoint; `CommitThenAudit`, `RecordAudit` for handlers that commit first; `CreatedAt` is `_now_utc`, `LatestEntry` the search for the newest hash, `ChainIsIntact` is `verify_chain` |
| `Objects` | objects and links | one action per endpoint |
| `Workspaces` | workspaces, members, identity providers, logins | one action per endpoint; `CallbackFlushes`, `CallbackProvisions` end a callback |
| `EvidenceReview` | sources, evidence, proposals, decisions | one action per endpoint; `DecisionFlushes`, `DecisionConfirms` end a decision; `Matched` is the evidence it takes |
| `Connectors` | connectors | one action per endpoint; `Seal`, `Unseal` are the encryption of the listed fields |
| `Server` | the composition of the eight modules above | `Request(r)`: a handler starts; `Step(r)`: it goes on; `Commit`, `Rollback`, `DispatchStep`, `ServerStops`. `Tables(uses)` are the tables a group writes, `Columns(table)` the columns its rows have |
| `ServerProofs` | theorems of `Server`: plans, identifiers, locks, for all groups of endpoints | |
| `TypeProofs` | theorems of `Server`: the types of rows, and what subscribers hear | |
| `ConsistencyProofs` | theorems of `Server`: what rows say of each other, the head of an ontology among it | |
| `SerialProofs` | theorems of `Server`: requests one at a time; forks, however requests overlap | |
| `MC...` | instances | |

In the components of `Server`, `...Request(r)` is the disjunction of the endpoints and `...Step(r)` of what
they do later. They share `db` (a function from identifiers to rows), the sessions, the lock and the
audit chain. A behaviour serves the requests of one group of endpoints (`scenario.uses`), of which it
makes a bounded number, overlapping or not: the groups touch disjoint tables but for the chain,
users and evidence, and a state space of all of them at once would be out of reach.

`ChangeRequest!ImplementsLifecycle` instantiates `ReviewLifecycle` with the approvals and objections
computed from `votes` and states that every behaviour of the two-step model is one of the atomic
lifecycle as it is served. The two places where that differs from the documented one are actions with a name
(see *Documents that say otherwise*). CRs share no state, nor do the release lines of different ontologies, so each of those modules
holds one. Operators called "wrong" in the modules are the mutants; no specification uses them.

Deliberate abstractions: texts, names and times are left out (a time is "set" or not; in `Server` an
identifier serves as the time of what it identifies, and the hash of an audit entry). The exception is the time of an
audit entry, by which the chain is ordered. It is computed from two readings of the clock, so an entry made while a
second ends (its identifier is in `scenario.straddles`) is dated one `Second` too early; no two entries get the same
time. Besides,
`approved_by` and `close_reason` are not modelled; authorisation is only where a property is about
roles (`Workspaces`). In `WorkflowExecution` a step is its number of attempts and its error handler,
a dispatch returns, raises, or leaves the session unusable (`Raise`); the executor's re-validation
of steps cannot fail on steps the API has accepted and is left out; a retry counts attempts, not delays.
In `Automation` the clock counts half minutes within one hour and `Date` fixes the rest, so that cron
fields of every form are evaluated. In `Server` what an external system answers, which fields a file
has and which user an identity provider names are open choices.

## Runs

| Run | Instance | States | Shows |
|---|---|---|---|
| `cr_serial` | 1 client, 2 reviewers, 2 comments, 2 texts, quorum 0..2, no foreign keys | 80 thousand | `ObjectionBlocks`, `NoOrphans`, `QuorumApproves`, `MergedIsFrozen`, `ImplementsLifecycle` |
| `cr_concurrent` | 2 clients, 2 reviewers, 1 comment, quorum 0..2, foreign keys | 336 thousand | `TypeOK`, `ApprovedBeforeMerged`, `DraftPristine`, `NoOrphans` under every overlap of two requests |
| `cr_quorum_race` | 2 clients, 2 reviewers | violation | two overlapping votes reach the quorum and leave the CR SUBMITTED |
| `rl_serial` | 1 user, 3 branches, 1 tag, 2 versions | 328 thousand | `TypeOK`, `OneDefaultBranch`, `ProtectedHeadsMoveByMerge`, `ProtectedBranchesStay` |
| `workflow` | 26 step lists with 1 execution, 2 short ones with 2, no foreign keys | 170 thousand | `TypeOK`, `VerdictFollowsHandlers`, `JumpsSkipExactly`, `AllOrNothing`, `StatisticsNeverOvercount`, and the liveness properties `ExecutionsEnd` and `TriggeredExecutionsSettle` |
| `wf_async_lost` | 1 execution | violation | an `async_run` execution that stays PENDING with nobody to run it |
| `automation` | an inbound and a scheduled trigger, 2 runs, 3 half minutes, 1 edit, 1 stop | 949 thousand | `TypeOK`, `TotalRunsCountsRows`, `TriggeredActsHaveRows`, `ActsAtMostOnce`, `OncePerMinute` |
| `automation_run_lost` | the same | violation | a run that has been executed is still PENDING |
| `server` | 14 scenarios, 2 requests open at a time | 1.4 million | `TypeOK` and 12 properties of the components of `Server`, below |
| `audit_chain_broken` | 2 requests on evidence and proposals, one after the other | violation | a decision leaves a chain that does not verify |
| `audit_clock` | 3 requests on members, the second entry made while a second ends | violation | an entry is dated before the one it extends, and the chain does not verify |
| `delivery_not_retried` | 2 requests on releases, one after the other | violation | a receiver that failed does not get its second attempt |

`server` checks at once, since the components share one state machine: `HeadIsPublished`,
`NoDanglingLinks`, `ForkIsWhole`, `DraftsStartAtHead` (ontologies); `HeardAfterTheFact`,
`ReleasedMatchesChecksum` (releases); `ChainVerifies`,
`MembersMatchAudit` (members and every audited group); `LinkEndsExist` (objects);
`OwnersKeepTheirRole` (workspaces, SSO); `DecisionsStand` (evidence); `ConnectorColumnsAgree`.
Its scenarios, as group and number of requests (overlapping / one after the other):

| Group | Overlapping | Serial | In the database at the start |
|---|---|---|---|
| content | 2 | 2 | an ontology with a class, a property, a constraint, a published version and a draft |
| versions | 4 | 4 | the same |
| releases | 3 | 3 | a draft release, a subscriber with two attempts |
| members | 4; 3 with an entry made while a second ends | | a user who is the owner, and the entry about that |
| objects | 3 | 3 | an object with a key, one without, a link |
| workspaces | 3 | | a workspace, its owner, an administrator, a provider, a login under way |
| evidence | 2 | 3 | a source with a field, evidence of that field and of none, a proposal from profiling |
| connectors | 2 | | a connector with a secret, and the entry about it |

*Why these bounds.* Two reviewers and a quorum of up to two are the least that separates a shared review from a
single one; quorum 0 is the special case of `_maybe_auto_merge`. Two open sessions are enough for a
stale read, and a CR goes through any number of rounds, since nothing counts them. Three branches
allow a source, a target and a default that is neither; two versions allow heads that differ. Step
lists of three steps allow jumps backwards, onto the step itself, forwards over a step, and to a
step that does not exist; two attempts are the least that is a retry. Those variables are finite by
nature, so nothing is cut off: the counters of a workflow are bounded by the executions. `workflow` bounds the product of
lists, edits and overlap (`Small` in `MCWorkflowExecution`): the short lists have two executions and are edited into each other, the
others have one execution and can be edited only into one of `RetriedLists`; no step of an execution is cut off by that, so
fairness keeps its meaning. It runs without foreign keys; with them a deletion of the workflow also takes the rows of its executions,
which `wf_async_lost` and the theorems cover.

In `automation` two runs are the least for a count that could be lost, a minute served twice
or a task that changes another one's trigger. The clock covers both halves of a minute and the next
one, so the loop wakes in a minute it has served and after it; one edit pauses or deletes a trigger, or
deletes its target, in the middle of an iteration; one stop separates two lives of the server. In `server` every
property can be broken within its scenario's number of requests: its mutant is. A new draft and two
publications are the least that can disagree about the head; download, edit and publication of a
release the least for a stale checksum; to invite, remove, invite again and demote a member takes 4
requests, to remove an owner, invite him and log him in 3. A second is two moments long, just enough for an entry to be
dated before its predecessor. A client makes proposals with a known source, with one that is no identifier and with none,
in a project or not, with a field and a class or without, which are all the cases that the search for evidence
distinguishes; one field is enough, since evidence has it or none. Two open requests are what a stale read
takes. Starting from rows that are there, rather than from an empty database, is what
makes such small numbers enough; every such set of rows is one the endpoints produce.

`CHECK_DEADLOCK FALSE`: a merged or deleted CR, a deleted workflow whose executions have ended, a
clock at its end and a scenario whose requests have been served have nothing left to do. The
release line never stops and is checked for deadlock. Symmetry (reviewers, runs, request slots) is used only in
runs without liveness or refinement properties.

*Fairness.* `ChangeRequest`, `ReleaseLine`, `Automation` and `Server` state safety only: nobody has
to send a request, and what a background task owes its run it does not store in any case.
`WorkflowExecution` assumes weak fairness of `CloseRequest(e)` and `Proceed(e)` for each execution:
the event loop resumes every task whose `await` is over, and every `await` of a step has a time limit
(sandbox and HTTP timeouts, bounded delays). Which outcome a step has is not fair: a
step may fail on every attempt, and an execution may always end by raising.

*What the violations say.* Five of them are errors of the code:

- Votes are counted on the rows of the voter's own session (`api/release.py:1089`), against the docstring at lines
  1062-1063 (`cr_quorum_race`).
- The task of `async_run` is created before its row is committed (`api/workflow.py:496`); the trigger path commits first,
  which is why `TriggeredExecutionsSettle` holds (`wf_async_lost`).
- The task of an action run marks its status in sessions that are flushed and closed (`api/action.py:449`), against the
  lifecycle in that module's docstring. The ERROR of a trigger whose run failed is lost in the same way (`automation_run_lost`).
- `_now_utc` takes the seconds of an audit entry from one reading of the clock and the microseconds from the next
  (`api/auth.py:375`). At the end of a second the entry is dated before the one it extends; the chain is walked and
  continued by `created_at`, so it does not verify from then on (`audit_clock`). `ChainVerifies` therefore speaks of the states in
  which the times rise.
- The record of a delivery is rolled back with its session (`services/webhook_dispatcher.py:174-187`), so the loop of
  attempts finds none after the first one and gives up (`:210`), against the "automatic retry" and the "exponential-backoff
  retry" of lines 3 and 198 and the retry configuration of `db/webhook.py:120` (`delivery_not_retried`).

In the last one code and document disagree:

- A decision adds audit events without hashes (`api/proposals.py:399`), against `docs/DEVELOPMENT.md:73`
  (`audit_chain_broken`).

*What holds only without overlap.* With two clients `MergedIsFrozen`, `ObjectionBlocks` and the
refinement fail (a close or a vote commits after a merge): the code has no lock and no version column,
and no document promises otherwise, so the runs state them for serial requests. The same goes for
`NoDanglingLinks` (a property is created on a class that is being deleted), `DraftsStartAtHead` (two
publications commit in the other order than they took their times), `ReleasedMatchesChecksum` (an
edit commits after the publication), `DecisionsStand` (two reviewers decide one proposal), and for `ChainVerifies` as
far as objects are concerned, whose entries are written by a second transaction. `NoOrphans` needs
foreign keys or serial requests. `StatisticsNeverOvercount` says that counters are never too high; they may
be too low, because overlapping executions overwrite each other's increments.

*One process.* The server is modelled as one process, as `Dockerfile` and `start_api.sh` start it. `docs/DEVELOPMENT.md:2731`
also speaks of several workers: each would run a cron loop of its own (`api/main.py`, in the lifespan), and a trigger would
fire once in each, so `OncePerMinute` is about one of them.

## Behaviour worth knowing

### Documents that say otherwise

Besides the violations above, the models follow the code against a document here:

- `required_approvers` can be patched after submission, and when the CR is approved, which the docstring at
  `api/release.py:667-668` excludes (the check at line 677 is for MERGED alone). It is `ReviewLifecycle!AmendLate`. An approved CR may
  so ask for more approvals than it has.
- A CR with requested changes is submitted directly (`api/release.py:707-713`, `ReviewLifecycle!Resubmit`). `db/release.py:55` says
  "loop back to DRAFT on re-submit"; `docs/DEVELOPMENT.md:652-653` agrees with the code. With that loop `DraftPristine` would be
  false, and a reviewed CR could be deleted.
- An approved CR can get reviewers: `assign_reviewer` refuses MERGED and CLOSED (`api/release.py:1020`), its docstring (1015-1016) also
  APPROVED.
- A failed step that is continued after is recorded FAILED (`runtime/workflow_executor.py:263`, `StepFails`); SKIPPED according to the
  docstring at line 15, and `docs/DEVELOPMENT.md:2665` says that the failure is skipped. `JumpsSkipExactly` is about steps that are
  jumped over and not called.
- `db/release_line.py:59-62` says that a partial unique index enforces one default branch; migration 0009 (lines 19-21) says that
  there is none, and creates none. At this commit the default stays unique all the same: every endpoint of the release line
  authenticates, so it stores the last login (`api/auth.py:237-241`) and holds SQLite's writer lock before it looks the
  default up. On PostgreSQL, once its engine can be built, two overlapping requests could both make a branch the default;
  `OneDefaultBranch` is therefore about one request at a time.
- The docstring of `fork_ontology` (`api/ontologies.py:1973-1976`) says that IRIs are rewritten to the new namespace. Those of the
  rows are; the parents of the classes, and everything in the snapshot, keep the IRIs of the source.

### Behaviour no document speaks of

- `test_webhook` waits for its own dispatch while it holds the writer lock that the delivery record
  needs: with a subscriber it ends in "database is locked" (`DispatchFails`).
- A receiver may hear of a publication that is rolled back afterwards.
- A decision about a proposal whose source is not an identifier confirms evidence by field name in all sources of all
  projects, and without a field name all evidence of the proposal's project; `create_proposal` takes such proposals
  (`Matched`). Without a source nothing is confirmed.
- A scheduled action does not count in `total_runs`; a scheduled workflow does (`CronFire`). After a
  slow iteration of the cron loop a minute may be skipped.
- The webhooks `object.*` are never sent: building the payload fails, and the error is swallowed.
- `publish_ontology` reads classes and the rest in separate statements and takes its lock last, so its
  snapshot may mix two states of the content; a fork, which flushes first, does not.
- `update_version_content` that overlaps `publish_version` changes a published version.
- A bulk upsert with the same key twice makes two objects, after which upserts of that key fail.
- A workspace member who was removed cannot be invited again: `_membership` finds active rows only, and the
  unique index refuses a second one. A user with two memberships cannot list his workspaces.
- A field taken off a connector's list of secrets keeps its ciphertext and cannot be read again.

## Proofs

Every theorem holds for every value of the constants that keeps the assumptions below: any clients, requests,
rows at the start, plans, webhooks, and no bound but those the constants name. Each property was
model-checked first, and so was each inductive invariant that is harder than its property.

| Module | Theorem | Property | For |
|---|---|---|---|
| `ChangeRequestProofs` | `TypeCorrect`, `ApprovalPrecedesMerge`, `DraftsArePristine` | `TypeOK`, `ApprovedBeforeMerged`, `DraftPristine` | every overlap |
| | `LifecycleImplemented` | `ImplementsLifecycle` (as served) | one request at a time |
| | `ObjectionsBlock`, `QuorumIsHonoured`, `MergedStays` | `ObjectionBlocks`, `QuorumApproves`, `MergedIsFrozen` | one request at a time |
| | `NothingOrphaned` | `NoOrphans` | foreign keys, or one request at a time |
| `ReleaseLineProofs` | `TypeCorrect` | `TypeOK` | every overlap |
| | `DefaultIsUnique`, `ProtectedAreKept`, `MergesMoveProtectedHeads` | `OneDefaultBranch`, `ProtectedBranchesStay`, `ProtectedHeadsMoveByMerge` | one request at a time |
| `WorkflowExecutionProofs` | `TypeCorrect`, `ResultsAreWhole`, `VerdictIsDue`, `SkipsAreExact`, `StatisticsLag` | `TypeOK`, `AllOrNothing`, `VerdictFollowsHandlers`, `JumpsSkipExactly`, `StatisticsNeverOvercount` | every overlap, all step lists |
| `AutomationProofs` | `TypeCorrect`, `CountersAreExact`, `EffectsHappenOnce`, `EffectsAreExplained`, `ScheduleFiresOnce` | all five of its run | every overlap |
| `ServerProofs` | `DatabaseIsSound` | `DatabaseTypeOK`, the first part of `TypeOK` | all groups |
| `TypeProofs` | `TypesAreKept` | `TypeOK` of `Server`, all of it | every overlap |
| | `HeardAfterwards` | `HeardAfterTheFact` | every overlap |
| `ConsistencyProofs` | `ChainKeepsVerifying`, `MembersAreAudited`, `LinksHaveTheirEnds`, `ConnectorsAgree` | `ChainVerifies`, `MembersMatchAudit`, `LinkEndsExist`, `ConnectorColumnsAgree` | every overlap, from a sound database; the chain in states whose entries have rising times |
| | `OwnersStayOwners` | `OwnersKeepTheirRole` | the same, with the unique index on memberships |
| | `HeadsArePublished` | `HeadIsPublished` | every overlap, from headed ontologies |
| `SerialProofs` | `PublishedAsChecked`, `NothingDangles`, `DecisionsAreFinal` | `ReleasedMatchesChecksum`, `NoDanglingLinks`, `DecisionsStand` | requests one after the other, from rows that agree |
| | `DraftsStartFromHead` | `DraftsStartAtHead` | requests one after the other, from versions dated by their publication |
| | `ForksAreWhole` | `ForkIsWhole` | every overlap, from content of ontologies that have been made |

So every safety property that a run expects to hold is the statement of a theorem. `StaysConsistent`, `RequestsAgree`,
`RowsKeepTypes`, `Plans`, `Announcements` and the theorems called `Invariance` are the inductive invariants behind them.

### Assumptions

- `ChangeRequest`: `Keep` differs from every value a column may have, there is a text, the bound of the quorum is a
  natural number, there are finitely many reviewers (the rows of a table), `ForeignKeys` is a Boolean.
- `ReleaseLine`: `Main` is a branch name, `Nil` neither a version nor a merge. `WorkflowExecution`: there is a step list, a step has at
  least one attempt (the executor takes the larger of 1 and `max_attempts`), a handler is `stop`, `continue` or a `goto`.
- `Automation`: `None` is neither a trigger nor a run, a target is an action or a workflow, the runs are finitely
  many, the bounds are natural numbers.
- `Server`: `None` is neither a request nor a number; a scenario has a group, a Boolean and a number of requests;
  a second has at least one moment; a source has finitely many fields, and a name that is no identifier is none; the bound of `retry_count` (10 in the code) is not 0;
  the database starts with rows of the group's tables, with those tables' columns and types, that keep the
  unique indexes (`InitialRowsAssumption`). TLC evaluates all of these on every run.
- `OneAtATime`, a hypothesis of the theorems so marked, says that there is one client: requests do not
  overlap. Without it these properties are false, as *What holds only without overlap* and `cr_quorum_race` say.
- `Sound(db)`, a hypothesis about the first state only: the chain verifies, the members have their entries, links have their
  ends, every workspace has a membership of its owner, and so on. An empty database is sound, and so are
  the rows `MCServer` starts from.
- `Headed(db)`, again about the first state: every version belongs to an ontology, and one with a published version
  has the label of a published version as its head. So it is with no versions at all, and in `MCServer`.
- `Agreed(db)`, of the first state: a released release has the checksum of its text; what is attached is attached to
  content of its ontology; a decision that settles its proposal gave it its status and is the last, and evidence
  and decisions name each other. `Placed(db)`: classes, properties and the rest belong to identifiers that have been given out. `Dated(db, made)`:
  a published version has a time that has passed, and of each ontology the one published last has the head as its label.
- These five hypotheses are about the first state alone, hold of an empty database (lemma `EmptyDatabase`), and of every first
  state of the run `server`. They are needed: rows that nobody has written could say anything.
- `Indexed`: the migration's unique index on the workspace and user of a membership is among `UniqueKeys`, and `NULL`
  is neither a workspace nor a user.

### Arguments

*Change requests, overlapping.* `ApprovedBeforeMerged` is not inductive: a request that read APPROVED commits
MERGED on whatever the row has become. The invariant `IInv` therefore speaks of the open sessions too. `Evidence(s)`
is the set of timestamps a row in status `s` must have; `TxEvidence(t)` says that the status a session will write
has its evidence among the timestamps on the row and the one it brings along. Timestamps only
accumulate, so what a session saw stays true however late it commits.

*Change requests, serial.* `Serial` classifies the plan of the open session as one of eight (`WillSubmit`,
`WillDecide`, `WillBack`, ...), each with what the row was when it was read, which with one client is
what it still is. Each kind of commit is then a step of `ReviewLifecycle` under the mapping of votes to approvals and
objections, all other steps stutter, and `ObjectionBlocks` follows from the abstract steps alone.
`NothingOrphaned` is two proofs: the foreign key, or the absence of overlap.

*Release line.* `Line` says that the rows are well formed and so would they be after the commit of what is
under way; `Harmless` adds that such a commit deletes no protected branch and moves no protected head but by the merge
it stores.

*Workflows.* `Traces` explains what an executor has recorded so far: each skipped step by a failed one
that jumped over it, each failure by its handler, and each verdict. Records only grow at the end,
and lemmas on the operators of the executor (`Record`, `Handled`, `Reached`) say that one more result explains the
earlier ones no differently. A stored row is the local state of its executor at its commit. `Counted`, for the statistics, compares
stale reads with what is stored now: rows are never unstored while the workflow lives.

*Automation.* `IInv` has four parts. `Types` is `TypeOK` with the type of `request`. `Counts` adds that a trigger that does not exist yet
has started nothing and is not in the list the loop is working on. `Tasks` says when a task may have acted, that
the row of a triggered task is there, and that what a request is about to commit has no row. `Schedule` relates rows to the loop: what was
served in this life is of an earlier minute than the one in which the loop wakes up (`wake \div 2`), and for the
triggers still on the list of an iteration earlier than now; a minute's sleep is just enough for that.

*Plans.* `Base` holds for every group of endpoints: a plan inserts rows of the group's tables under identifiers that no
row and no other plan has, and updates and deletes rows that were made; the unique indexes hold; the writer has
an open session. One lemma per handler shows that its plan is such a plan (`Good`); opening, continuing,
flushing, committing, rolling back and stopping keep the plans of the others good.

*Types.* The columns of a row must stay those of its table although a plan may update rows that are no longer what they were when it was made.
`AllTyped` therefore says of a plan that each column it sets is one of the table that the row has, with a value of its type, whatever
the rest of the row has become; tables never change, so a late commit keeps types. What a job carries from one
statement to the next (a snapshot, the subjects of a decision, a login's role) is typed with the plan.

*Announcements.* A request that is to announce something has an event that nobody else has (`Waits`). From the creation of
the task to its commit it holds the writer lock (`Holds`), which the task needs for the delivery record it
stores before it posts: so nothing is due to anybody yet. `Task` says that a task names each webhook once, and none it has notified.

*Consistency.* What rows say of each other is established by one handler that reads, plans and
commits. The invariant `Consistent` says of each open request that it is `Exclusive` (it holds the writer lock, or
nothing overlaps) and its plan is `Held`, that is, the database would be sound after it; or that its plan is `Harmless`,
sound on top of any sound database. Nobody else commits while a request is exclusive, so what it read still is. That `BeginLocked`
takes the lock before it reads is what makes plans held; the mutant `BeginUnlocked` is the code without
it. That the chain verifies is asked of states in which the times of the entries rise: a plan was made on top of the entries that
were there, and if the times rise with the new one, they did without it, and the newest by time is the last that was made
(`RisingOrder`). `OwnersKeepTheirRole` needs more to be inductive: that every workspace has a membership of its owner, active or not, so that the index
refuses a second one. An SSO callback plans in parts; `AtCallback` says what it knows between them.

*Heads.* No endpoint of ontologies holds the lock before it writes, so a publication commits on whatever the
ontology has become, and held and harmless plans do not help. `Heads` classifies the plan of each open request by what
it does to heads: it publishes nothing and takes no version from its ontology (`Drafts`), or it promotes one label of one
ontology, in the ontology's row and in that of a version (`Promotes`, `Publishes`; `Between` while the version is not planned yet). The hard
case is a publication that found its label in the row already, and so does not write it: the row may have another head by
the time it commits, but then one that is published too (`Named`). Deletions take the versions with the ontology; and no request plans
a row that another speaks of (`Speaks`), so a commit leaves all the other plans what they were.

*One at a time.* `OneByOne` says that one request is open at most and that its plan, written to the database as it is, would leave what
must agree as it is. Such a condition may speak of the rows the request has read, since nobody changes them before it
commits: only a draft release is edited, and a publication stores the checksum of the text it read; a deletion takes whatever is attached to what it
deletes, also through a class's properties (`WithDependents`), and a proposal's decisions; a decision names a proposal that is
pending and, between its flush and the search for evidence, is half made (`HalfDecided`); evidence is confirmed only by the
decision of the same plan (`Confirms`). Each handler's plan is shown to be such a plan, and a commit to keep the agreement.

*Drafts.* A draft takes the version published last, the ontology shows the head set last; that these are the same
needs the order of times. `Headings` says that each published version was dated by a moment that has passed and that the latest has the head's
label (`Dated`); a plan leaves that alone (`Quiet`: a deletion takes the versions with their ontology, no edit touches the five columns
that matter, an update of the status is not of a version) or dates one version later than all others of any ontology, and makes its label the head
(`Tops`). `publish_ontology` sets the head in its first statement and dates the version in a later one, from which it must
still follow (`HalfPublished`); a draft of a fork is based on an ontology, not on a version, and so is no case.

*Forks.* This one needs no serial requests. `Locks` says which requests are forks that have flushed: each is the writer, so
none but it commits until it has, and what it copies in two statements is one state of the source (`Replicates`, `Snapped`), still the
state at its commit (`Whole`). The property speaks of all rows of the new ontology in the database, so there must be no content
for it but the copies: the identifiers in `Homes`, those that anything stored or planned belongs to, are none of those a plan is about to insert.

### Only model-checked

`ExecutionsEnd` and `TriggeredExecutionsSettle` are liveness under fairness, which is outside what the prover does, and stay with TLC. So do
the six violations, which are counterexamples.

## Not modelled

- *Validation and SHACL*: one-shot rows around a call of `pyshacl`. (`/shacl/validate` caches shapes
  under a constant; this is listed as a hazard. The endpoints of fixtures and saved queries construct rows with
  columns their tables do not have: they always fail.)
- *Mappings, projects, use cases, requirements, catalog, reference ontologies*: CRUD without a
  lifecycle, or static data.
- *Sandbox, connector drivers*: I/O and resource limits, with no protocol of their own. *Cache*: a best-effort
  copy with a time to live; its content never decides a write.
- *Login, JWT, API keys*: stateless tokens; only the write of the last login, which takes the lock, matters
  to the models. *Users' administration*: CRUD.
- *Migrations, web client, CLI*: DDL, presentation and calls of `alembic`.
- The two-step model of requests on PostgreSQL for the components of `Server`, since that engine cannot be built.

## What could come next

No safety property of a passing run is without its theorem. Worth adding, in this order:

- The queries of sessions on PostgreSQL for the components of `Server`, once its engine can be built; the theorems for every overlap hold of
  the writer lock that SQLite gives, and `ConsistencyProofs` would show at once which plans are neither held nor harmless there.
- The three hazards without a property: the lock that `test_webhook` waits for, the key of the cache of shapes, the bulk upsert with one key twice.
- Refinements of single groups of `Server` to abstract lifecycles, as `ReviewLifecycle` is for change requests.
