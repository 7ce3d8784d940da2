# LatentDB: models and proofs

TLA+ models of the LatentDB kernel (`src/crates/kernel` and the parts of
`contracts`, `api`, `modules` and `ai` it works with), TLC runs over small
instances, and proofs checked by TLAPS. `PROJECT.json` maps every definition to
the lines it models.

LatentDB is a multi-tenant, metadata-driven record store behind an HTTP API.
The handlers are async functions on a SQLite pool, and nearly every operation
has one shape: *several separate reads, then one transaction* with the change,
its audit row and its domain event. Nothing is looked at again inside the
transaction. What may happen between the last read and the commit, when a
future is dropped at an `.await`, or when a process ends between two
transactions of one operation is what these models are about.

## 1. Inventory

| Part | Source | State | Operations | Hard parts | Correct when |
|---|---|---|---|---|---|
| Workflow engine | `workflow.rs` `transition.rs` `approval.rs` `task.rs` | `workflows`, `records.workflow_state`, `approvals`, `tasks` | create_workflow, transition_record (direct and gated), decide_approval, create_task, complete_task | checks on rows read before the transaction; redefinition under running handlers; two deciders | every move has the consent it needs; verdicts, tasks and trails agree |
| Records | `record.rs` `rbac.rs` | `records` | create, update, archive, restore, relate, get, list | whole-map write of a stale read; restricted fields | only what is named and permitted changes; required fields are never lost; the log replays |
| Permission decision | `rbac.rs` `contracts/permission.rs` | `roles` (rows are added, never edited) | authorize, grants_for, grants_allow, field_permitted | ownership and conditions are decided on the record as read | see Records, Accounts and Queries |
| Object types | `object.rs` `contracts/field.rs` | `object_types` | create, update | definitions stored one after the other; replaced while others rely on them | references and workflows of a stored type resolve |
| Accounts | `auth.rs` `identity.rs` `api/src/auth.rs` | `users`, `service_accounts`, `sessions`, `api_keys`, `role_assignments` | login, authenticate, logout, set_user_status, create_*, assign_role, cleanup | reads spread over several awaits; disabling in two writes; who may disable depends on roles that clients make | what is accepted was in force; a disabled user keeps no session; someone who manages the users remains |
| Login limiter | `ratelimit.rs` | in-memory windows | is_locked, record_failure, reset, prune | check and record are apart, with the password check between | failures are bounded; a lock ends |
| Migration session | `migration.rs` | `migration_sessions` | start, select, activate, plan, report, logout output | no transaction at all; status written from an earlier read | status, target and report agree; every update is audited |
| Migration plan | `migration.rs` | none (pure) | build_plan, map_fields | matching of fields, counting of conflicts | no conflict is hidden |
| Tenants | `tenant.rs` `api/src/app.rs` | `tenants`, `orgs`, `workspaces` | bootstrap, set status, create workspace | first-run check before the provisioning | one first tenant |
| Builder | `builder.rs` `modules/src/*` | `builder_drafts`, and the tables of the services it calls | save, validate, publish, install template, install modules | one call is many transactions of other services; a draft changes under its publication | marks come after what they say; a validated draft stays valid |
| Lists, reports, relations | `record.rs` `analytics.rs` `contracts/page.rs` | `relations`, `reports` | list_records, run_report, relate, get_relations | pages are separate queries; a bounded scan; values without an order | a walk misses nothing; reports agree with lists; one edge of a relation |
| Audit and events | `audit.rs` `event.rs` | `audit_logs`, `events` | insert_audit, emit, pending_events, mark processed | in the transaction or beside it | rows appear with their change or not at all |
| AI actions | `ai/src/action.rs` | none | dry_run, execute | what was shown is not what is executed on | a dry run is the exact change |
| Usage, retrieval, agents, accel, UI | `usage.rs` `ai` `accel` `ui` | meters | single upserts and reads | little | - |

**Interactions.** Every request passes `authenticate` (Accounts), then one
kernel service. All services call `authorize`, write to the audit log and emit
events in their transaction. `create_record` asks the workflow engine for the
initial state; a gated transition inserts an approval and a task; a decision
moves the record and closes the task; logout asks the migration session for a
report; publishing a draft calls `create_workflow` and `create_object_type` or
`update_object_type`, and installing a template creates sample records, moves
some of them and saves reports; the planner of a migration reads the types and
counts all of these write. An AI action is a create or update by way of
Records. A housekeeping loop deletes dead sessions and prunes the
limiter.

## 2. Modules

| Module | Models |
|---|---|
| `WorkflowEngine` | the whole workflow engine, one action per read that is kept and one per commit |
| `WorkflowPromise` | what the engine promises to a client with one request at a time, without handlers or trails |
| `LoginLimiter` | the limiter as login and housekeeping drive it |
| `Accounts` | credentials of one tenant, from login to housekeeping |
| `Migration` | the migration session of one tenant |
| `Records` | records of one object type under the permission decision |
| `Agents` | extends `Records`: clients that plan an action and execute it |
| `Queries` | pages, reports and relations over records that are being written |
| `Catalog` | the shipped object types, workflows, roles and templates; what a definition must satisfy |
| `MigrationPlan` | extends `Catalog`: `map_fields`, `build_plan` and the reports, as operators |
| `Builder` | extends `MigrationPlan`: every call that stores definitions, and the planner reading them |
| `MC*` | finite instances: constants, symmetry |
| `WorkflowEngine_proofs` | theorems of `WorkflowEngine`, for any interleaving, with one request at a time, and while decisions of an approval do not overlap |
| `LoginLimiter_proofs`, `Accounts_proofs`, `Migration_proofs` | theorems of the module of that name |
| `Records_proofs` | theorems of `Records` and of `Agents` |
| `Collections_proofs` | lemmas about numbers, finite sets, listings of a set, folds and sums, for the next two |
| `Builder_proofs` | theorems of `MigrationPlan` and `Builder`, and what they need of `Catalog` |
| `Queries_proofs` | theorems of `Queries` |

Conventions shared by all of them:

* **Handlers.** `Requests` is a set of slots, each running one call or idle. A
  call is a chain of steps: a step per read whose result is kept (the slot
  remembers it), and a step per transaction or autocommitted write. Other
  slots step in between. With one slot the same specification is the system
  under calls that do not overlap.
* **Cut off calls.** `Abort`/`Abandon` ends a call at any point: a query fails,
  the client disconnects and the future is dropped, or the process ends. What
  was committed stays, nothing else is left. `MaxAborts` bounds how many where
  a run needs it.
* **Rows** of fresh ids (`ids::new_id`) come from a finite pool of ids, each
  used once.
* **Mutants.** A definition marked `Mutant:` in a comment is not part of the
  specification. It is a plausible bug in the definition that follows, kept to
  show that a property notices it.
* **History variables** (`recent`, `seen`, `spared`, `updates`) only record
  what happened, for properties to speak of; no guard reads them except that
  `updates` carries a bound.

### WorkflowEngine
`workflow`, `records`, `approvals`, `tasks`, `audit_logs`, `events` are the
tables, `inflight` what each handler has read. `TransitionRecordLoad` /
`Resolve` / `Move` or `Request` / `Refuse` are `transition_record`;
`DecideApprovalLoad` / `Authorize` / `Approve` or `Reject` are
`decide_approval`. One tenant, one object type; grants are a constant relation
(`Granted`), as no operation edits a role; scopes and conditions of a grant,
which the code compares with the record (`rbac.rs:184`), are left out here and
modelled in `Records`. Transitions of a definition are a set where the code
takes the first match of a list, so that the model may take any match.

### LoginLimiter
Time is the age of each window in ticks and stops at `Window`. `Begin` is
`is_locked` (which also drops an expired window), `Fail` is `login_failure`,
`Succeed` the reset, and `Restart` the loss of the in-memory map.

### Accounts
Logins (`LoginTenant`, `LoginUser`, `LoginCommit`), the four reads of
`authenticate` (`AuthenticateCredential`, `Tenant`, `Principal`, `Roles`) and
the administrative handlers that follow an accepted token. `set_user_status`
is `SetUserStatusCheck`, `SetUserStatusCommit` and, for a disabling,
`RevokeSessions`, a second write outside the transaction. Passwords, tokens
and their hashes are abstracted to ids that are equal or not; the limiter is a
module of its own.

Roles are rows with their grants: `tenant_admin` and those that `CreateRole`
adds. A call may do what the roles grant whose keys it has read (`Allowed`), so
that whoever a client's role lets configure `admin:users` disables users like an
administrator. Keys are assigned without a look at principal or role
(`AssignRole`), as in the code; a key without a role grants nothing. Left out are
platform admins, of whom no grant is asked, and the role `member`, which grants
none of the permissions these handlers ask for.

### Migration
`session` is the row, `call` the calls in flight. Each update, audit row and
event is a step of its own, as in the code. A report is the pair of the system
it is for and the target it was planned against.

### Records
The data map has plain fields, restricted fields and an owner field that stands
for `owner_id`, `assignee_id` and `user_id`. `ApplicableGrants` is the filter
of `grants_for`, `FieldPermitted` that of `field_permitted`, `Valid` the
required-field rule of `validate_against_type` (value types are left out). The
audit log holds the before and after of each write.

A grant has an action, a scope, conditions and a field rule. A condition is a
field of the record and the values its comparison lets pass; a field that is
missing does not stop the grant, as in `conditions_ok`, and without the flag
`enable_advanced_permissions` conditions are ignored. `update_record` decides
with what it read of the record, and the fields conditions look at are among
those updates change. Conditions on the actor have the same answer in each call
of that actor and are settled in `Grants`; org and workspace scopes compare
columns that no operation on records changes, and would be decided as tenant
scope is. Data maps tell a stored null (`Null`) from a field that is not there
(`Missing`): a patch with null takes the field out, a create stores it.

### Agents
`plan` is what a client got of `dry_run` (`DryRunCreate`, `DryRunUpdate`),
`running` the call that executes it. `Execute` is `execute` with its three
refusals, followed by the load of an ordinary create or update of `Records`,
whose commit is a step of `Records`; so an execution interleaves with every
other call. The plan stays with the client afterwards: an answer may be lost
and the action sent again.

### Queries
`rows` are the records in order of creation. `Found` is `list_records` up to
the page (the scan of at most `MAX_SCAN`, who may read by the scopes and
conditions of grants, the search, the clauses, the stable sort and its
reverse), `Page` the clamped cut, `scan_records`, `compute` and `Groups` the
reports, `get_relations` the two directions of an edge. `StartWalk` and
`NextPage` are a client asking for page after page until it has read `total`;
what it remembers (`seen`), what it should meet (`due`) and whether its list
has been undisturbed (`sure`) are kept with the walk. `RelateLoad` and
`RelateCommit` are `relate`.

### Catalog, MigrationPlan, Builder
`Catalog` states the constant definitions of `schema.rs`, `roles.rs` and the
templates of `builder.rs`, reduced to what a check of the code looks at: keys,
types, required, restricted, references, options, workflows with their gates,
and grants. `MigrationPlan` is the planner of `migration.rs`, folds over
sequences; `EveryFieldAccountedFor`, `EveryObstacleReported` and `TotalsAgree`
say what a plan promises without the order in which it is computed.
`Builder` has the tables (a stored definition is the name of its origin) and
one action per transaction of `save_builder_draft`, `publish_builder_draft`,
`install_builder_template`, the install of the modules, `create_object_type`
and `update_object_type`; `call` holds how far each call has come. `PublishBegin`
is two reads, of the draft (`builder.rs:233`) and of the types its validation
looks at (`builder.rs:145`), taken as one. Types only appear, so a validation on
later types refuses no more; the one order left out is that a save replaces the
draft first and a type its former definition needs appears after that. What is
stored then was validated on that type all the same. `PlanBegin`
and `PlanReply` are the two reads of the planner.

## 3. Runs

| Run | Question | Instance |
|---|---|---|
| `workflow_concurrent` | Do the trails replay, has every move its consent, does the last verdict stand and has each approval its task, whatever interleaves and is cut off? | 2 handlers, 2 actors, 1 record, 3 definitions, 5 audit rows |
| `workflow_serial` | With one handler at a time: are decisions final, do approvals, moves and tasks match, is the log a chain, and is `WorkflowPromise` kept? | 1 handler, 2 approvals and tasks, 6 audit rows |
| `limiter` | How far can failures go past the limit, and does a lock end? | 2 logins, 2 keys, limit 3, window 3 |
| `accounts_concurrent` | Is what is accepted in force, and which sessions can a disabling miss? | 2 calls, 2 users, 2 sessions, 1 key, 1 cut-off |
| `accounts_serial` | One call at a time, none cut off: no sessions of disabled users, someone active who manages the users remains, every session is deleted in the end | 2 users, 1 service account, 1 session, 2 keys, 1 role of a client's making |
| `migration` | Do status, target and report agree in any order of calls, one of which is cut off, and is only that one missing its audit row? | 1 call, 2 templates, 6 updates |
| `records` | Does the log replay, are required fields kept, is every update permitted on its before, and does an executed plan do what its dry run showed? | 2 calls, 2 records, 4 rows, 1 planner with 3 actions, grants with tenant and own scope, conditions and a restricted field |
| `builder` | Do references and workflows of stored types resolve at every moment, stays a validated draft valid, do marks come after what they say, do roles fit gates, and do plan, report and install agree? | 2 calls at a time, 3 in all, 1 failure or cut-off, the shipped catalog, 5 definitions of clients, the finance template |
| `queries` | Does a walk through the pages meet every record, have lists the order they are sorted by, do reports agree with lists, and is a relation one edge? | 4 records, scan of 3, pages of 2 asked for as 5, 2 changes, 3 filters, 2 relate calls, a reader with conditions |

*Why these bounds.* What can go wrong takes two calls that overlap (a third
adds no new pair of steps on one row), one record, approval, session or key
that both touch, and at most a create, a request and two decisions or updates.
The audit-row bounds are one or two above the longest of those chains. Two
definitions that disagree on a gate and one that validation refuses are enough
for redefinition. In the limiter a limit of 3 with 2 slots separates the limit,
the overshoot and the double window. In `builder` two calls overlap and a third
comes before or after them, which is enough for a definition to be replaced
between a check and a store; the client definitions are a type with a workflow,
an invalid version of it, one that refers to it, and two given directly, of
which one replaces a shipped type. A finance install stores a workflow, four
types, samples, reports and a dashboard, so each kind of step can be the last
one done; `SampleCap` reduces the number of records of each sample to one. In
`accounts_serial` one session is enough for each of its properties; with two
keys the other user and the service account act beside the founder, and a
client's role manages either users or roles, so that a user manager may disable
the only `tenant_admin`. In `records` the clerk has a grant on what it owns
that permits the restricted field while the note is one value, and a grant on
any record that does not permit it, while the restricted field is one value or
missing. The patches change owner, note and restricted field, so each can take
a grant away, or bring one, between the read of an update and its commit, or by
the very patch it decides about. In `queries` four records are one more than
the scan and two more than a page, so that pages shift and a record falls out
of the scan; the clerk reads its own records and those with the number 2, and
one filter asks for desc without a sort. Bounds are conjuncts of the guards
(`MaxAudit`, `MaxCalls`, `MaxRows`, `MaxAborts`, `MaxFaults`, `MaxChanges`,
`MaxRecords`, the id pools), and what clients ask for comes from the sets
`Patches`, `Proposals`, `Definitions`, `Given`, `Filters` and `Limits`. When a
bound is spent the model stutters (`Rest`), so deadlock is checked in every
run. Symmetry is used in safety runs only.

*Runs with one slot.* `workflow_serial`, `accounts_serial` and `migration` ask
what holds when calls do not overlap. They cannot meet a read that another call
makes stale, and say nothing of the hazards that are about one:
`DisabledHasNoSessions` is silent on a login that overlaps a disabling
(`OnlySparedSurvive` is not), `ReportIsCurrent` and `ActivatingKeepsReported` on
migration calls that overlap, which the code gets wrong (below). `PlansComeTrue`
likewise speaks of records that did not change since the dry run; that others
change, or the same action is sent twice, is what the plan cannot show.

*Fairness.* `limiter`: `WF(Tick)`, time passes. `accounts_serial`: each session
expires (time passes) and the hourly housekeeping loop runs. Nothing is assumed
of clients or of running calls. The safety properties of these runs do not
depend on the fairness.

### Disagreements the runs show
Each of these runs checks one statement of the repository and finds a behaviour
of the code that breaks it. `PROJECT.json` quotes the statement.

| Run | Property | What happens |
|---|---|---|
| `workflow_race` | `ApprovalDecidedOnce` | two deciders pass the pending check; the second verdict replaces the first |
| `record_race` | `OnlyPatchedFieldsChange` | an update puts back what another changed meanwhile |
| `builder_race` | `PublishedIsValid` | a save during a publication: the definition marked published is not the one that was validated and stored |

The weaker statement that does hold in each case is checked by a passing run:
`LastDecisionStands` for decisions; `EveryUpdateAuthorised`,
`RestrictedChangedByPermitted` and `LogReplays` for lost updates;
`MarksAreComplete` and `ValidatedStaysValid` for drafts.

Further places where the models follow the code rather than a comment or doc,
visible in the definitions:

* a rejection emits no event, though all branches are said to (`approval.rs:92`,
  `approval.rs:158`): `DecideApprovalReject`;
* the audited before of a move is the state the handler read, which another move
  may have changed (`transition.rs:162`): `AuditChains` holds serially, and
  while the moves of a record do not overlap;
* `set_user_status` writes twice, and a call cut off in between leaves the
  sessions of a disabled user: `Abort` between `SetUserStatusCommit` and
  `RevokeSessions`;
* an approval asked for from a state the record has left since still moves it
  (`approval.rs:141`, no look at the transition again): `DecideApprovalApprove`;
* a login that overlaps a disabling leaves a session (`auth.rs:162`):
  `OnlySparedSurvive` says which;
* `set_active_system` writes a status computed from an earlier read, so with
  calls that overlap it can take a reported session back (`migration.rs:169`);
  `ActivatingKeepsReported` holds with one call at a time;
* an explicit null among numbers is no obstacle to storing a record but makes
  `compare_field` no order (`record.rs:598`): `Sortable` in `Queries`;
* a list without a sort comes newest first whatever `desc` is (`record.rs:349`),
  though `contracts/src/page.rs:79` says that the sort defaults to `created_at`,
  which as a sort puts the oldest first and is reversed by `desc`: `Ordered` and
  the last case of `ListsAreOrdered`;
* whom a role of a client's making lets configure `admin:users` may disable the
  last `tenant_admin` (`identity.rs:331`): `AUserManagerRemains` says what holds;
* `relate` answers with a fresh id also when the edge was there and nothing was
  inserted (`record.rs:411`): `RelateCommit`;
* the dry run of a create shows neither defaults nor a missing permission, and
  that of an update asks for read only: `DryRunCreate`, `DryRunUpdate`;
* selecting or starting again takes a reported session back
  (`MIGRATION_MANUAL.md:77`), and starting again leaves the selected system
  active (`migration.rs:77`): `SelectTargetSystem`, `StartMigration`;
* a migration call that is cut off leaves an update without its audit row
  (`contracts/src/audit.rs:3`): the `aborts` of `UpdatesAreAudited`.

## 4. Proofs

All theorems hold for every value of the constants that satisfies the named
`ASSUME`s of the module.

* **`WorkflowEngine_proofs.TypeCorrect`** (`TypeOK`). A handler uses a row it
  read some steps ago, and `TypeOK` is inductive only if the row is still there
  and complete. The inductive invariant `WellFormed` adds `ApprovalsFilled`
  (an approval that exists has its record, states and requester, and the
  record exists) and `HandlersHoldRows` (the rows a handler holds exist);
  records and approvals are never deleted.
* **`WorkflowEngine_proofs.MovesHaveConsent`** (`EveryMoveAuthorised`). The
  property speaks of audit rows already written. `Consented` adds what leads to
  the next row: the stored workflow is valid and was installed by a row of the
  log, a resolved transition and a stored approval were declared by one, a
  decider has passed the checks. The log only grows, so a declaration found
  once stays. No assumption that handlers run one at a time.
* **Trails** (`WorkflowEngine_proofs`): `TrailsTellTheState` (`TrailsAgree`),
  `LastDeciderIsRecorded` (`LastDecisionStands`) and `WorkListIsComplete`
  (`ApprovalsHaveTheirTask`), for any number of handlers. The properties are
  restated for one record (`Trail`), one approval (`Verdict`) and one task
  (`IsTaskOf`) as relations between rows, so that what a commit does to them is a
  lemma about sequences. `Told` adds to `Consented` what two handlers carry: a
  create holds the initial state of a logged definition, a completion a stored
  task. `StepKinds` reduces the actions to five commits and the rest (`Quiet`).
* **`WorkflowEngine_proofs`, under `OneAtATime`** (one slot for handlers):
  `EngineKeepsPromise` (the refinement `KeepsPromise`), `ApprovalMovesOnce`
  (`ApprovedExactlyWhenMoved`), `TasksShowTheVerdict` (`TaskMirrorsDecision`),
  `MovesAreChained` (`AuditChains`) and `DecisionsAreFinal`
  (`ApprovalDecidedOnce`, which two handlers violate). The key of all five is
  `ReadsAreFresh`: what the one handler has read is still so when it commits.
* **`WorkflowEngine_proofs.DecisionsApartAreFinal`** (`ApprovalDecidedOnce` and
  `ApprovedExactlyWhenMoved`, for any number of handlers). `decide_approval`
  checks that an approval is pending and stores the verdict in a later
  transaction that does not check again. The hypothesis `DecisionsApart` is
  about steps: no verdict is stored while another decision of the same approval
  is under way. What is inductive then is `StillPending`: an approval that is
  being decided is still pending. Requests, tasks, redefinitions and decisions
  about other approvals may overlap as they like.
* **`WorkflowEngine_proofs.MovesApartAreChained`** (`AuditChains`, for any number
  of handlers). A move writes the state it read as the state before it, and its
  transaction does not look again. The hypothesis `MovesApart` is again about
  steps: no record changes its state while another handler than the one that
  moves it holds that state. What is inductive then is `HeldStatesStand`: a
  state a handler holds is still the record's. That creates of one id do not meet
  (`CreatesAlone`) needs no hypothesis.
* **`LoginLimiter_proofs.FailuresStayBounded`** (`FailuresBounded`). A failure
  is recorded for a login let through long ago. `Limited` bounds the count
  together with the logins still under way: their sum is below the limit plus
  the number of slots. The cardinality facts are lemmas of their own.
* **`LoginLimiter_proofs.StretchesStayBounded`** (`TypeOK`, `StretchBounded`).
  `Recorded` splits the failures of a stretch: the one that opened the window
  is as old as the window, `p` came before it, and `p` is below the limit of one
  window because the window before had to expire first. `OldestLeave` shows that
  a tick takes out a prefix.
* **`Accounts_proofs.CredentialsTyped`** (`TypeOK`), inductive as it stands
  because sessions and calls carry their constraints in their types.
* **`Accounts_proofs.AcceptanceJustified`** (`AcceptedWereInForce`). `Checked`
  says at which step of `authenticate` which part of the credential has been
  seen in force; what was seen stays seen while the call runs.
* **`Accounts_proofs.DisablingMissesOnly`** (`OnlySparedSurvive`). Inductive
  with `TypeOK`. Each live session of a disabled user is traced to a step: it
  was live and its user disabled before, or its login overlapped the
  disabling, or the disabling has just begun or was cut off.
* **`Accounts_proofs`, under `OneRequest`** (one slot for calls):
  `UserManagersRemain` (`AUserManagerRemains`), whichever roles clients create and
  assign. `Standing` says of the principal a call has verified that it is still
  active, has a way in and holds the roles the call has read. Roles are only added
  and assigned (`ManagersStay`), so one about to disable someone manages users, is
  not that user, and remains. `DisablingIsComplete`
  (`DisabledHasNoSessions`) also takes that no call is cut off; then no session
  is ever spared, and the rest is `DisablingMissesOnly`.
* **`Migration_proofs.SessionTyped`** (`TypeOK`). The inductive `Formed` adds
  that a call past its first read holds what that read returned and that a
  started session keeps a status.
* **`Migration_proofs.UpdatesAccountedFor`** (`UpdatesAreAudited`), for calls
  that overlap in any number. `Account` counts updates against audit rows, calls
  about to write one and cut-off calls; a step moves one call, so each of these
  numbers changes by at most one.
* **`Migration_proofs`, under `OneCall`** (one slot for calls):
  `StatusAndTarget` (`StatusTellsTarget`), `ReportedPlanIsCurrent`
  (`ReportIsCurrent`) and `ActivationKeepsReports` (`ActivatingKeepsReported`).
  A step writes what an earlier one has read, so `Consistent` adds to `Formed`
  and the two invariants that the status and the target read still hold
  (`ReadsHold`); that is what two overlapping calls would break.
* **`Records_proofs`**: `RecordsTyped` (`TypeOK`), `RequiredFieldsStay`
  (`RequiredFieldsPresent`), `UpdatesArePermitted` (`EveryUpdateAuthorised`),
  `LogTellsRecords` (`LogReplays`), `RestrictedFieldsKept`
  (`RestrictedChangedByPermitted`). None of these is inductive: a commit uses
  what its load decided some steps ago. `IInv` adds what a call carries in
  between: `CallsMayCommit` (its data is valid, it was permitted on the before
  it holds, and some row of the log stored that before), `Alone` (a create has
  its id for itself), and the rows of the log with the same permission
  (`RowsPermitted`), which needs that a creator never changes. Actions are
  brought down to four kinds of step (`Begins`, `Ends`, `Refused`, `Commits`)
  with one lemma each.
* **`Records_proofs.UnnamedFieldsAreAsRead`** and **`PatchesChangeWhatTheyName`**
  (`OnlyPatchedFieldsChange`, which two overlapping updates violate). The first
  holds for any overlap: what an update stores for a field its patch does not
  name is what it read (`CarryUnnamed`), so an overtaken update brings back an
  old value and never an invented one. The second has a hypothesis on steps,
  `UpdatesApart`: no update is stored while another update of the same record is
  under way; then no update is overtaken (`NoneOvertaken`), as creates, archives
  and restores leave the data of a stored record alone.
  **`UpdatingAloneIsSound`** is the case of one slot for calls.
* **Planners** (`Records_proofs`): **`PlannersKeepRecords`** (`RequiredFieldsPresent`,
  `EveryUpdateAuthorised`, `LogReplays` under `AgentsSpec`) and
  **`PlannedIsDone`** (`PlansComeTrue`). An execution is a load of `Records`, so
  `IInv` is kept; `AInv` adds that a plan shows its payload and otherwise what
  was seen, and that the call executing it carries just that payload, until it
  ends.

* **`Builder_proofs`**, for any definitions that clients give:
  `ReferencesAlwaysResolve` (`ReferencesResolve`), `WorkflowsComeFirst`
  (`WorkflowsOfTypesExist`), `ValidatedDraftsAreValid` (`ValidatedStaysValid`)
  and `MarksComeLast` (`MarksAreComplete`). The first part shows of the shipped
  catalog that its lists are in an order in which they can be stored
  (`InOrder`: each definition refers to earlier ones, no two have one key), and
  that each origin defines what the code stores under its name. Nothing is ever
  deleted, so what supports a definition once supports it from then on; `IInv`
  (`TypesAreSupported`) therefore says of each call what it has stored or
  checked so far (`TablesSound`, `Backed`), and each commit turns one step of
  that into a row. `SupportStays`, `ValidStays`, `BackedStays` and the lemmas
  after them carry all of it over steps of other calls.
* **`Builder_proofs.GatesAreDecidable`** (`GatesHaveApprovers`), under
  `GatesAreManaged`: no draft puts a gated workflow on `product`, `warehouse` or
  `inventory_movement`. No role of `roles.rs` manages these three, so a client
  that gates them asks for a decision that only a role of its own can take. That
  no other role may decide needs no hypothesis.
* **`Builder_proofs.PlansLoseNothing`**: what the planner's operators compute,
  for any object types and any template whose keys are their own (`Formed`). A
  `Listing` of a set has each of its members once. Filters, images and
  concatenations of listings are listings, so the mappings of one object list
  its fields (`MapFieldsLists`), those of all objects list all fields
  (`SourcesAccounted`, `TargetsAccounted`), and the conflicts list the obstacles
  (`PlanConflictsList`). The totals are sums over disjoint sets of keys
  (`PlanTotals`).
* **`Builder_proofs.ReportsLoseNothing`** (`ReportsAreComplete`) and
  **`InstallsMatchPlans`** (`InstallDoesWhatThePlanSays`), for any calls side by
  side. Both apply the planner's theorem to what is stored, so what is stored
  has to be `Formed`: the inductive `PInv` (`PlansHaveTheirInputs`) adds to
  `IInv` that each stored type has keys of its own for its fields. For the
  shipped modules and templates that is read off `Catalog`; for a client's
  definition it is what `validate_object_type` checks by counting. `PInv` also
  says that a plan under way holds such types, that counts are natural numbers,
  and that the type an install is about to replace is stored.
* **`Builder_proofs.PublicationsApart`** (`PublishedIsValid`, which a save in
  the middle of a publication violates). Its hypothesis `SavesApart` is about
  steps: no save is stored between the read of its draft by a publication and
  the mark. The inductive `QInv` adds to `PInv` that the draft of such a
  publication is as it was read (`AsRead`) and that published drafts are valid.
  A step reads the draft, goes on with a publication, or has nothing to do with
  one (`PublicationSteps`), and drafts are written by saves and marks only
  (`DraftsMove`). **`PublishingAloneIsSound`** is the case of one slot for
  calls, where `SavesApart` needs no assumption.
* **`Queries_proofs.RelationsAlwaysShowOnce`** (`RelationsShowOnce`).
  `RelationsSound`: no two relations say the same, and relations and audit rows
  say the same; the look and the insert are one statement, so two calls that both
  found nothing still store one edge.
* **`Queries_proofs.ListsAreAlwaysOrdered`** (`ListsAreOrdered`). `SortBy` keeps
  its rows whatever they hold, by induction on the rows inserted so far, so a list
  shows each kept record once in any case. Where the list is `Sortable`, `Less`
  compares a number of each row (`KeysOrder`); as rows come newest first, `SortBy`
  then makes a list that ascends by that number with the newest first among equals
  (`SortLists`).
* **`Queries_proofs.WalksMissNothing`** (`WalkMissesNothing`). The place of a
  record in a list is one more than the number of rows ahead of it
  (`ListsAreOrdered` makes that a set of rows). While rows are only created, no
  row ahead of another is taken away, so places only grow. The inductive
  `NotPassed` says that a record that is due and not yet seen has its place
  behind the offset of the walk; a change makes the walk unsure.
* **`Queries_proofs.ReportsAlwaysMatchLists`** (`ReportsMatchLists`). The groups
  split the sample; counts, sums and minima add up over such a split, by
  induction on the set of keys.

Sorts, folds and sums are recursive functions or operators of the community
modules that expand to one. What they compute for every input is proved by
induction on a number or a finite set; each induction is for one definition, as
the library's induction theorems with an operator for a parameter cannot be
used.

Only model-checked: the liveness properties `LockEnds` and
`SessionsAreDeleted`, as fairness and ENABLED are outside the prover's reach.
Every other property of a passing run is stated by a theorem. The three
properties that a run shows violated each have a theorem that says which overlap
of calls it takes: `DecisionsApartAreFinal`, `PatchesChangeWhatTheyName` and
`PublicationsApart` prove them for every behaviour without that overlap. No module that is
proved about declares a RECURSIVE operator.

The theorems of `Builder` rest on two assumptions, which TLC evaluates.
`BuilderAssumption` keeps clients' definitions apart from templates and modules.
`KeysAssumption` is needed for the planner's theorems only: clients give finitely
many definitions, each with a sequence of fields, and `None` is no template and
no key.

## 5. Not modelled

* **Hashing, tokens, encodings**: hashes and tokens are taken as injective; SQL
  and the pool are the atomicity of one query and of one transaction; JSON and
  HTTP encoding, routing and wording are left out.
* **Value types of fields**: a value is of its type or the request does not get
  that far; no property is about which values are refused.
* **Provisioning of tenants**: tenants share no row. That two first-run calls
  can both find no tenant is listed as a hazard; a model would hold two sets
  that are disjoint by construction. `create_workspace` is one insert.
* **The outbox consumer**: `pending_events` and `mark_event_processed` have no
  caller in the repository, so there are no steps of a consumer to translate.
* **The transition action of the AI planner**: its plan shows a name, and its
  execution is `transition_record` of `WorkflowEngine`.
* **Floating point**: amounts are integers; averages are left to sum and count.
  Vector search, acceleration, text generation of the agents and retrieval keep
  no state and compute on reals.
* **Usage metering and dashboards**: one atomic upsert each, which nothing else
  reads.
* **Reads that keep no state** (`get_*`, other `list_*`) and the UI.
