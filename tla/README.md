# Formal models of zs-config

TLA+ modules for zs-config, the program that manages Zscaler tenants from a
terminal and a web interface with a local SQLite cache. The modules are written
from the code; where a comment, a docstring or the changelog says something the
code does not do, a run shows the difference or section 6 tells it.

## 1. The system

zs-config keeps, for each tenant, a local copy of the tenant's configuration
(ZIA, ZPA, ZCC) and works on it: it shows it, snapshots it, compares it, and
pushes it, or a template or another tenant's, back to the API. Everything runs
in one Python process: a FastAPI server with one thread per background job, an
APScheduler with its own pool, and one SQLite (or SQLCipher) file in WAL mode.
A database session commits as a whole and its reads take no lock. There are no
tests in the repository; the documents are README.md, CHANGELOG.md, SECURITY.md
and the docstrings.

| Component | Code | State | Operations | Hard parts | What makes it correct |
|---|---|---|---|---|---|
| Configuration import | `services/z*_import_service.py` | `zia_resources` rows, N/A list, sync log | fetch each type, upsert, sweep, record outcome | overlapping runs, failing fetches, crashes, edits of the tenant meanwhile | the cache mirrors what was read; nothing else is touched |
| Background jobs | `api/jobs.py`, `api/routers/jobs.py`, `useJobStream.ts` | store of jobs, threads, streams | create, append, complete, fail, cancel, prune, stream | races for a key, late cancels, lost threads, restarts | one thread per key, final outcomes, true and complete streams |
| Push engine | `services/zia_push_service.py` | push records, tenant | classify, push in order over several passes, wipe, roll back | dependencies, failures, cancel half way | a cancelled push leaves the tenant as it was, or says what it could not undo |
| Snapshot and template endpoints | `api/routers/tenants.py`, `zia.py`, `templates.py` | restore points, templates | apply, preview, restore | imports and pushes of one tenant running at once | the result reported is what happened |
| Scheduled sync | `services/scheduled_sync_engine.py` | caches of two tenants, the target, created ids | import, close over references, diff, apply, re-import | stale cache used as truth, references by name, half applied batches | a success is a mirror; nothing points at the wrong object; dependencies are never deleted |
| Task scheduler | `services/scheduled_task_service.py`, `api/routers/scheduled_tasks.py`, the dispatch and history of the sync engine | task rows, APScheduler jobs, run history | create, update, enable, delete, reconcile, run | a stop between the database and the scheduler, overlapping runs and edits | what is enabled is scheduled, as configured; each run tells its own outcome |
| Migration candidates | `services/candidate_service.py`, `candidate_baseline.py` | candidate rows | ingest, review, push, promote | imports meanwhile, retries after part of a push | a proposal never passes for live state, and stays accepted until it is pushed |
| ZPA push | `services/zpa_push_service.py`, `snapshot_service.py` | plan, records, map of synthetic ids | merge, restore, roll back | references between objects that do not exist yet | taken whole, or undone without a trace |
| Accounts and sessions | `services/role_service.py`, `group_service.py`, `sso_service.py`, `api/routers/auth.py`, `admin.py`, `groups.py`, `scim.py`, `sso.py` | users, groups, memberships, grants, tokens, owners of templates | edit, provision, sign in, refresh, assume a role | edits from two sides, tokens that outlive a revocation | an administrator remains; a role taken away expires; what is closed owns nothing |
| Key rotation | `services/encryption_service.py`, `config_service.py`, `lib/crypto.py`, `db/database.py` | ciphertexts, key file, key of the database file, algorithm | rotate, save a secret, start | failures and stops between four stores | every secret can be decrypted and is the one last saved |
| Plugins, certificates, API clients, TUI, web pages | `lib/`, `services/acme_service.py`, `cli/`, `web/` | | | third-party code, HTTP, rendering | |

How they interact: routers build an API client and start a job; the job calls a
service; the service reads and writes the cache through sessions and the tenant
through the client, and reports progress into the job store, from which a
browser's stream reads it. The scheduler calls the sync engine, which calls the
import service for source and target and then writes to the target's API. The
cache rows and the tenant are shared by all of them, with no lock across
sessions.

## 2. Modules

| Module | Models | Extended by |
|---|---|---|
| `ImportCache` | one tenant, its cache rows and any number of import runs | `MCImportCache`, `ImportCacheProofs` |
| `JobService` | what the job store promises: the phases of a job, one running job per key | `JobStore` implements it |
| `JobStore` | the job store, worker threads and event streams | `JobStoreProofs` |
| `PushRun` | one push of a ZIA baseline to a tenant, with others at work on it | `MCPushRun`, `PushRunProofs` |
| `RuleOrder` | the order of the rules of one type through a push | `MCRuleOrder` |
| `TaskSchedule` | task rows, APScheduler's jobs, calls of `run_task` and their history | `MCTaskSchedule`, `TaskScheduleProofs` |
| `SyncRun` | the pipeline of one scheduled sync between two tenants | `MCSyncRun`, `SyncRunProofs` |
| `Candidates` | migration candidates and the ZPA push and restore | `MCCandidates`, `CandidatesProofs` |
| `Accounts` | accounts, groups, SCIM, sign-in, sessions, owners of templates | `MCAccounts`, `AccountsProofs` |
| `KeyRotation` | rotation of the encryption key beside saves and stops | `MCKeyRotation`, `KeyRotationProofs` |

What one module treats as a step, another takes apart: an import is one step in
`PushRun`, `SyncRun` and (read, write) `Candidates`, and its sessions and calls
are `ImportCache`'s; a job's work is one loop in `JobStore` and is `PushRun`'s
in detail; the sync of one target is `EndPart` in `TaskSchedule` and all of
`SyncRun`; rule positions are only in `RuleOrder`.

### ImportCache

`tenant` is the live configuration; `row` the cache row of each id (`stored`,
`cfg` for `config_hash`/`raw_config`, `synced` for `synced_at`, `deleted` for
`is_deleted`, `source`); `disabled` the N/A list; `run` the local variables of
each `ZIAImportService.run` and its SyncLog status. Each API call and each
database session is one action:

| Code | Action |
|---|---|
| `run` up to the loop | `Begin` |
| `_fetch` | `FetchOk`, `FetchError`, `FetchNotEntitled` |
| `_disable_resource_type`, read then write | `FetchNotEntitled`, `Disable` |
| `_upsert`, one session | `Upsert` |
| `_mark_deleted`, query then commit | `SweepRead`, `SweepWrite` |
| outcome, SyncLog, audit entries | `Finish` |
| process stop, or a session that raises | `Die` |
| an administrator, or a push, changing the tenant | `Edit` (external) |
| "Reset N/A Resource Types" | `ClearDisabled` |

The loop order is left open (the code says order does not matter). Two inserts
of the same new row at once violate the unique constraint: one run raises, which
is `Die`. Audit entries of `audit_service` swallow their errors and are left out.
`quiet` is a history variable: the runs begun alone, since which no other run
began and nobody edited the tenant.

### JobService and JobStore

`JobService` knows a job's phase (`running`, `cancelling`, one of three
outcomes, unknown or forgotten) and key, and four actions: `Start`, `Cancel`,
`End`, `Forget`, and the `Stop` of the server. In `JobStore`, `store` is
`_JobStore._jobs`, `worker` the thread of each job, `stream` a browser's
`useJobStream` together with the `generate` loop that serves it. Each action
holds at most one locked method of the store. A worker that pushes polls for a
cancel before each record (`PollCancel`, `Pushed`), re-imports afterwards
(`PushDone`, `Progress`) and completes; imports, previews and pip jobs do not
poll. `Escape` is an exception that no handler turns into `fail()`: a database
error in `record_failure` or `revoke_package`. `Restart` empties the store,
kills the threads and cuts the streams. `Seen` is the refinement mapping: the
phase is read off the entry's status and its recorded outcome.

### PushRun

`tenant` is the target's live configuration, a function from ids to objects; an
object has a name, one value for what it says, the references it needs (`refs`),
the references that limit it (`scope`: locations, groups, segments, instances;
one field stands for the nine of `_SCOPE_CHECKS`) and its state. `cache` holds
the rows an import stored. `Kind` sorts names by the path their type takes
through `_push_one`: singletons, predefined rules, other managed objects, user
objects, ordered rules, types without a delete method, cloud app rules, URL
lists, and types that are only referred to.

| Code | Action |
|---|---|
| `classify_wipe`, `execute_wipe` | `Begin`, `WipeOne`, `WipeDone` |
| `classify_baseline` | `Classify` |
| `_push_one` and the handlers it calls | `PushUpdate`, `PushCreate`, `PushDuplicate`, `PushList` |
| pass 1a and the re-match of one-click rules | `SettingsOver`, `Match`, `MatchOver` |
| pass 1b, the repeated passes, "no progress" | `ManagedOver`, `PassAgain`, `NoProgress`, `GiveUp` |
| the re-import at the end | `PushDone` |
| `_PushCancelled`, `rollback_pushed` | `Stop`, `UndoCreate`, `UndoUpdate`, `UndoNothing`, `UndoDone` |
| `request_cancel`, process stop | `RequestCancel`, `Crash` |
| the tenant and its other users (external) | `Edit`, `Provision`, `OtherImport` |

Every API call has the outcomes its caller tells apart: done, refused for good,
failed for the moment, and done with its answer lost (a timeout; the caller sees
a failure for the moment). `Build` is `_build_payload`: it maps scope references
twice, as `_ref_resolved` and the final walk do, and drops those it does not
know; `Checked` is `_apply_scope_checks`. `noise`, `made` and `before` are
history.

### RuleOrder

The part of the push that PushRun leaves out: positions. A rule's place in the
target is its order. `Queue` is the sorting at the end of `classify_baseline`
(creates stacked on one insertion point, last first, then updates in ascending
order) and `Renumbered` closes the gaps of one-click rules that were not
provisioned. The API's side is external: an insert moves the later rules up, and
an order beyond the end is refused.

### TaskSchedule

`task` is `scheduled_tasks`, `job` APScheduler's job store (the same database,
transactions of its own), `client` what each request has committed and not yet
told APScheduler, `thread` the local variables of each call of `run_task`, `row`
the run history, whose rows go with their task. Ids are rowids and are given out
again, so a late write by id may reach another run's row.

| Code | Action |
|---|---|
| `create_task`, `update_task`, `enable_task`, `disable_task`, `delete_task`: validation and commit | `CreateTask`, `UpdateTask`, `SwitchTask`, `DeleteTask` |
| `_register_job`, `_remove_job` after the commit | `TellScheduler` |
| `start_scheduler`, `_reconcile_jobs` | `StartServer`, `ReconcileAdd`, `ReconcileRemove`, `ReconcileDone` |
| APScheduler's call, the trigger route | `Fire`, `Trigger` |
| `run_task`'s read, the engine's own read | `Dispatch`, `Load` |
| history rows of run, targets | `OpenRun`, `OpenPart`, `EndPart`, `CloseRun` |
| the process stops | `StopServer` |

### SyncRun

`cloud` holds both tenants, `cache` the rows that are not deleted, with the names
their references carry, `run` the local variables of `_execute_sync_pipeline`.
There are four types: services and groups (which a walk replicates), locations
(whose names are only resolved, and which limit a rule) and rules. Steps follow
the comments of the code: `ImportSource`, `ImportTarget`, `CloseMore` and
`CloseDone` (step 6b), `ImportPulled`, `ImportResolved` (6c), `Diff`, `ApplyOne`
per record, `Reimport`, `Report`; `Break` is an exception outside the records
and `Stop` the process. `Match` is the order of the comparison: by content and
name, by content (a rename), by name (an update), or a create. The batch is a set
of records, `left`, and `Turn` the one that `Before` puts first. `Payload` and
`Found` are `_remap_refs` and the created ids of this run. `given`, the names
that renames of the run have taken, is history.

### Candidates

`row` is `zpa_resources` by type and `zpa_id` (live rows and candidates, whose
id is `candidate_key`), `tenant` the objects, `snap` a snapshot, `push` the
plan, records and maps of one push, `import` an import that has read and not
written. `ingest`, `set_status`, `discard`, `promote`, `create_snapshot` are one
transaction each; a push is `classify_merge` or `classify_restore`, then one
action per plan entry (`Skip`, `Execute`), `PushDone`, and either `promote` or
one `RollbackStep` per record. An API call is refused when the tenant would be
inconsistent, fails, or takes effect with its answer lost (`Call`).

### Accounts

One request is one transaction whose first flush takes SQLite's write lock, so
what a request reads after that flush it reads alone, and a request is one
action. Two look for what they change before it and are two actions: the
hand-over of a template, whose checks come before its write (`ChecksOwner`,
`WritesOwner`), and an administrator's closing of an account, whose query for
the account's templates has nothing to flush (`ClosingLooks`, then
`ClosingWrites` or `ClosingFails`). An edit that also sets a role has, and is one
action (`AdminUpdates`); so is SCIM's, which sets the flag before it queries. One
hand-over and one closing are open at a time. Checks whose outdated answer could
only add a row for an account or group just deleted (`add_members`, grants) are
taken with their write. `Administers` is the routes of
`admin.py` and `groups.py`, `Provisions` those of `scim.py`, `SignsIn` those of
`auth.py` and `sso.py`. `session` is what a browser holds; a token is checked by
signature and age, never against the account. `since` counts how long an account
could not have been an administrator, and `late` whether the template became its
owner's when that account was closed or a request was about to close it; both are
history. A request refused, or rolled back by a
constraint, is no step.

### KeyRotation

`secrets` is `client_secret_enc` of each tenant, `keyFile` and `backup` the key
file and its copy, `dbKey` the key of the database file, `setting` the stored
algorithm, `pool` the key the pooled connections were opened with. The steps of
`rotate_key` are `Begin`, `Read`, `Commit`, `save_key`, `Rekey`, `Record`, and
where each may fail `Abort`, `CommitFails`, `PhaseTwoFails`, `RecordFails`; a
save is `Encrypt`, then `Store`. A ciphertext is its value, key and algorithm.
`upset` (something failed, stopped or overlapped), `alone` and `raced` are
history.

## 3. Runs

| Run | Instance and what it shows |
|---|---|
| `import_overlap` | two runs, each full or narrowed to the type without objects; an object and a candidate of the other type, an edit and a reset, from every initial cache: repair, success means the mirror, confinement, candidates, and every run ends |
| `jobs_safe` | two jobs, one key, a stream, two events, a restart: the store implements `JobService`; threads, streams and cancels |
| `push_safe` | delta push of two groups (one new) and a rule that refers to both and is scoped to a location that is there, or not; one edit, another import, any failure of any call, lost answers, cancel, crash |
| `push_kinds` | wipe-first push of a toggle with its one-click rule, a managed object, a URL list and a proxy, onto a tenant with a rule and a group to delete: it ends |
| `order_kept` | every mix of creates, updates, failures and skipped one-click rules among four rules and two of the target's own |
| `tasks_scheduled` | up to three requests, two calls and a stop (three events in all, `MaxEvents`) from every state an earlier server may leave: single and fan-out tasks, edits of kind, source, targets and schedule |
| `sync_run` | two runs, two edits, one fault; sixteen pairs of tenants with shared, swapped, renamed, predefined and unneeded objects of three names |
| `accounts_kept` | five requests over two accounts, a group and a template, access tokens of two ticks |
| `candidates_pushed` | four ids, three names, two acts of the generator or reviewer, one fault or edit, one import, one push |
| `key_rotated` | two rotations, two tenants, four keys, one save, one stop, tenants and rotations symmetric |
| `sync_wide`, `sync_misscoped` | violations: section 6 |

Bounds, and why they are enough. Two import runs give every race the code has,
because a run shares with another only rows, stamps and the N/A list, and each
race involves one read and one write of the other; two types tell a read type
from an unread one. Two jobs are enough for a race for a key, and streams do not
meet: one is enough; two events tell a stream that skips one from one that does
not. A push is a single thread, and what can go wrong with an entry depends on
the entries it refers to and on one disturbance: three entries with a reference
and a scope, two new ids, one edit and one import give every such pair. Entries
of a kind are interchangeable, so one of each is enough for `PushKinds`. Four
rules give a create and an update on both sides of each other. Tasks race in
pairs: a request with a request, with a stop, or with a call, and calls with each
other, which three events cover; six rows are the two parents and four children
that two fan-outs need, so no step is cut off for want of a row. A sync compares
two rows of a type with two, which is what matching by content and by name can
confuse, and the second run is the one that meets what the first left. Five
requests create an account, a group and a membership, and take two things away.
`MaxActs`, `MaxNoise`, `MaxImports`, `MaxPushes`, `MaxEdits`, `MaxResets`,
`MaxOutside`, `MaxEvents`, `MaxRestarts`, `MaxRequests`, `MaxCalls`, `MaxStops`,
`MaxRuns`, `MaxFaults`, `MaxKeys`, `MaxSaves` bound how often something happens;
`MaxTask`, `MaxRow`, `MaxUser`, `MaxNum` the ids. The theorems of section 5 hold
for any value of them.

`CHECK_DEADLOCK FALSE` everywhere: runs, jobs and requests end and the models
start a bounded number of them.

Fairness. `ImportCache!FairSpec`: a run, once begun, takes its next step, since
the API client has timeouts and sessions have a busy timeout.
`JobStore!FairSpec`: threads run, and the event loop resumes every open stream.
`PushRun!FairSpec`: the push thread runs, since every call has a timeout.
`TaskSchedule!FairSpec`: weak fairness of each call's own steps, for the same
reason. Nothing is assumed of people, of APScheduler's clock or of the server:
no fairness on edits, cancels, starts, stops or reconnects. The other
specifications state safety only.

## 4. Properties

- ImportCache: `QuietRunRepairsWhatItReads` (self-healing),
  `SuccessMeansMirror`, `RowsChangeOnlyInFilter`, `CandidatesUntouched`,
  `RunsEnd`.
- JobStore: `OneWorkerPerKey`, `WorkIsVisible`, `StreamTold`,
  `ImplementsService` (what clients see is a behaviour of `JobService`: final
  outcomes, no two jobs of a key), `StreamEnds`, `CancelResolved`.
- PushRun: `UserEntriesReported` (each user entry once, none forgotten),
  `RollbackRestores`, `RollbackDeletesOwn`, `PushNeverWidens` (at no moment is a
  rule left open to everybody that the push did not find so),
  `SuccessConverges`, `PushEnds`. RuleOrder: `OrderKept`.
- TaskSchedule: `EnabledIsScheduled` (with the schedule of the row, whatever a
  stop lost), `NeverOntoItself` (however a task is edited between runs),
  `OutcomeIsOwn`, `ParentTellsChildren`, `CallsEnd`.
- SyncRun: `SuccessMirrors`, `SteadyState` (a run after an undisturbed success
  finds nothing to do), `RefersToNamesakes`, `OnlyWhatRulesNeed`.
- Candidates: `LiveRowsAreReal`, `AcceptedUntilPushed`, `WholePushLands`,
  `RollbackLeavesNoTrace`, `RestoreConverges`.
- Accounts: `AdminsLostOnlyBySso`, `RevokedRolesExpire`, `HandAddedStay`,
  `ClosedOwnNothing`.
- KeyRotation: `KeptReadable`, `SavedSecretsStay`.

Conditions of a property name where the code does not promise more (section 6).
Every property has a mutant of the code, an operator defined beside the one it
replaces and named for the bug, that breaks it.

## 5. Proofs

`ImportCacheProofs` proves the safety properties of ImportCache for every set of
runs, types, ids and configurations. `IInv` is the inductive invariant: a run
works only on types of its filter (`HoldsOwnTypes`), candidates exist nowhere a
run could fetch them from (`CandidatesApart`), no stamp is later than the clock
and the rows a run wrote carry at least its own (`Stamped`), the run that is
quiet has mirrored what it read so far (`Undisturbed`), and an outcome is earned
(`HonestLog`). `Undisturbed` is the heart: it says for each stage of the loop
which rows already mirror the tenant and which the sweep will still take.

`JobStoreProofs` proves the safety properties of JobStore for any number of
jobs, keys and streams. `IInv` says that an entry is held and active exactly
when its thread is alive (`Agrees`), that active keys are unique (`Unique`) and
that a stream was told only what is final (`Streams`). `JobStep` reduces every
step of a worker, a cancel and the passing of time to one argument about one
entry and one thread. `Final` adds that an outcome, once recorded, stays.

It also proves `Refines`: JobStore implements JobService. The
invariant adds `Asked` (a push rolls back only because a cancel was asked for),
without which a worker could end as cancelled what the abstract job never was.
`SeenOf` computes the mapping from an entry; each action then maps to `Start`,
`Cancel`, `End`, `Forget` or `Stop`, or to a stutter.

`KeyRotationProofs` proves `KeptReadable` and `SavedSecretsStay` for any number
of rotations, tenants, keys and stops. What an undisturbed rotation has reached
at each of its steps is `Progress`; `AloneIsAlone` and `CalmIsAlone` say why it
is the only one; `CopyIsFile` and `SaveFits` cover the backup and an open save.
`SavedSecretsStay` needs no calm: `HeldAsTold` says that a rotation holds what
was last saved, `OpenSaveRaced` that a save it overlaps is counted as raced.

`AccountsProofs` proves the four properties of Accounts for any number of
accounts, groups and templates and any life of a token. `AInv` is inductive:
tables and sessions are well formed (`Typed`), and a token that says
administrator was signed while the account could be one, no longer ago than it
has lost the role (`Signed`), and owners and open requests name what they can
(`OwnersTyped`). `RevokedRolesExpire` follows at once. `ClosedOwnNothing` needs
`Given`: besides the property itself, that what a closing did not find to be its
account's has since become so only as `late` tells. `Moves` says which requests may
change the owner, the open hand-over and the open closing; a step that closes an
account takes the template from it, unless the account got it after the look
(`ClosingTakes`), and every other step leaves that as it was (`GivenStays`). The two
others are about steps, and hold of every step
from a state of `AInv`, with one lemma for each group of requests (`AdminRequest`, `Provisions`, `AuthRequest`,
`SsoLogin`, `SsoProvisions`, `Restart`). That a new account takes an unused row
(`NewUserIsNew`) rests on the well-foundedness of the naturals. The weight of
`LastAdmin` is with the requests that do not count administrators: creating,
adding, granting, reactivating and adopting a group must not take one away, and
do not (`AdminKept`).

`TaskScheduleProofs` proves the four safety properties of TaskSchedule for any
number of tasks, rows, requests, calls and stops. What is scheduled is `ToldOf`:
between requests APScheduler has what the tables say, and during one the request
still holds what it must tell, which is why two requests on one task are
excluded (`raced`) and why a start, which reconciles with no request in flight,
mends whatever a stop lost. `NeverOntoItself` needs that every stored task is
sane (`TasksSane`: validation runs on the merged task, `StoredIsSane`,
`MergedIsTask`) and that a call works through what a sane task said (`SaneCall`),
but for a task that changed between its two reads. The history needs the
rowids: an insert takes one that is not in use (`NextIdIsNew`), so a call's rows
are its own for as long as nothing deletes them (`Owns`), and the results a call
carries are those of its parts; `ParentTellsChildren` and `OutcomeIsOwn` follow.

`PushRunProofs` proves the five safety properties of PushRun for any
tenant, baseline, kinds, ids and number of edits and imports. One lemma says what
an entry's turn does, whichever handler takes it (`PushDoes`): it is put on an
object that is there, on a new one, or nowhere, and it is noted or kept for the
next pass (`Puts`). `Once` and `Passes` then give `UserEntriesReported`: an entry
is in one of `todo`, `retry` and `records`, and each pass holds the entries of
its kinds. `Own` says that a record a rollback deletes by names an object this
job created, and that new ids are new, hence `RollbackDeletesOwn`. For
`RollbackRestores` three invariants follow a push that nobody disturbs and whose
records say what to undo (`Clean`): its rows are those of the tenant it found, an
entry to be created has no row there and one to be updated has one
(`RowsKept`), each record names an object that was there, or was not, as its
status says (`Undoes`), and what differs from the tenant that was found is told
by a record (`Restorable`): by any of them while it pushes, by one of those
still to be undone while it rolls back, so by none at the end. The re-import
between the passes changes nothing because a clean push has written nothing by
then (`Preparing`), and a provisioned rule would need a toggle that it has set
(`OthersKept`). `PushNeverWidens` compares the
tenant with the one the push found, across whatever happens in between: `Narrow`
says that until the push ends or rolls back, no object and no row of the cache is
wide that was not found so or added by others, that ids in rows have been given
out, so that none becomes the id of an object the push creates, and that the rows
a rollback starts from are no wider. Edits before the start need a part of their
own, since the push compares with the tenant as it is when it begins.

`SuccessConverges` compares two classifications of a whole baseline, the one the
push worked from and the one made after it, and needs three more invariants of a
push that nobody disturbs (`Calm`). `Names`: an object keeps its name, a name is
there once, and rows and objects with one id have one name. `Maps`: the plan and
`_id_remap` lead to objects of the right name, what has the id it has in the
source is mapped to itself, and what was there at the classification is known.
`Lands`: what was written for a user entry is in the tenant as it would be
written now. The last is kept although `_id_remap` goes on growing because the
API takes a payload only when all it refers to is there: a reference that the map
did not yet resolve would have led nowhere, so no entry that was taken is mapped
otherwise later (`PayloadStays`). At the end each pending user entry has a record
(`Passes`), so it has landed; the next classification finds it by its name
(`FindsLive`), and its map agrees with the push's on all the entry refers to
(`MapsAgain`), so both sides of `_configs_match` come out the same. The proof
supposes that a baseline carries only types that are imported, which is where
baselines come from.

`CandidatesProofs` proves the five properties of Candidates for any types,
names, ids, offers and number of steps. Its invariant is in two halves. `CInv`
is the books of a push: the tenant gives an id to one type and name for good
(`Assigned`), a candidate sits at the key of its name and a live row at an id
the tenant has given (`Sorted`), and the plan, the records and the promotions
they give rise to name what is or was written (`Pushes`). `LiveRowsAreReal` is a
part of it, and a step loses an accepted candidate only where
`AcceptedUntilPushed` allows: `AcceptedStep` finds the record whose promotion
took its key. `Undoable` is about the rollback: until a merge that nobody
disturbs is undone, what the tenant had is still there under its name (`Stays`),
what differs is told by a record still to be undone (`Told`), what a record
created is new and there (`News`), and what refers to that was written by a
later record (`Later`). So from the last record to the first each undo is
accepted, since by then nothing refers to the object to be deleted and the name
to be restored is nobody else's, and it puts back what it replaced
(`UndoPutsBack`); after the first one nothing is told any more. `AllLand` is
about what is left of a whole merge: each reference of an entry to come is to an
object, or the map has it, or an entry before it is going to create what it is
to (`Resolves`); its name is free or will be the object's own (`Free`); and no
two entries are for one object or one name (`Alike`). So the next entry is
accepted (`ReadyAccepts`) and the others stay as they are (`ReadyStays`). It
holds at the start because an order without repetitions places every entry once,
those of earlier types first (`InOrderPlaces`). `AllRestored` is about a restore
whose calls were answered so far. Each object of the tenant that a push handles
is to be deleted, or it is what an object of the snapshot was or an update is
going to make it that; and each object of the snapshot is to be recreated or has
such an object (`Restored`). Ids differ, so objects are compared by what their
ids were made for (`Mirrors`): the id map leads from an id of the snapshot to
one made for the same type and name, and a reference that is not in the map is
sent only if it still exists (`MirrorsSent`). It holds at the start because a
snapshot is of objects the tenant had under those ids (`SnapIs`), which needs
that the row of a candidate promoted under another type is never marked deleted
(`Strays`, `Remains`): where there is one, the cache is not right. That the
plans, which the code gathers type by type, and the promotions, which it folds
over the records, are sequences of the right things rests on `Flattened` and
`Iterates`.

`SyncRunProofs` proves the four safety properties of SyncRun for any two sound
tenants, any selection of types, options and number of runs, edits and faults.
`SuccessMirrors` needs an account of the whole run, in four layers, each
inductive together with those before it:

- `Shaped`: the tenants are sound, the cache has what an import leaves, and the
  batch has at most one record for each place (`Booked`). The last is a fact about
  `Match`: content, then name, pairs each row with at most one of the target's and
  each of these with at most one row (`MatchedSteps`, `Tallied`). Dependencies are
  in the batch only as writes, which gives `OnlyWhatRulesNeed` whatever fails.
- `Predefines`: predefined objects are the same on both tenants, by type and name,
  and no step of a run or of an operator changes that. A reference to one is not
  copied, so it must be found.
- `Reads`: while nobody edits and every fetch succeeds, what the run has read is
  what the tenants hold (`Fresh`) and the walk over references is closed when the
  diff begins (`Closed`). `Walked` says that two steps are enough: rules refer to
  groups and these to services, which refer to nothing.
- `Tracks`: during the apply phase a name that the cache knows is still where it
  was read, or a rename has taken it, and what was created is where nothing was.
  `Found` looks names up in the cache and in the created ids, so `NamesKnown`,
  `FoundNames` and `KeptNames` give `RefersToNamesakes` from this.

`Delivers` then says what is left to do: each row that the run carries has an
equal on the target and no record for its place, or its record is still in
`left`; with deletes, so has each object that the task covers, or it is to be
deleted. A record's turn moves its row from one to the other (`TurnDelivers`) and
disturbs no other (`SameStays`). `left` is empty when the run ends. The order of
the records matters only in that deletes come last. `Levelled` is about the run
after: while `steady` holds, the tenants agree on what is needed and covered, so
each row finds a twin in the comparison by content, no two the same one
(`AllTwins`, `LevelMatches`), and the batch is empty, which is `SteadyState`.
TLC checked these invariants on the instances of `sync_run` and
`sync_misscoped` before they were proved.

The proofs assume the named assumptions on the constants and nothing else: that
values told apart by the code are different values, that a baseline is a finite
table with one entry for each id and name, that what a ZPA push can create it
can delete and update (`CAN_CREATE`, `CAN_UPDATE` and `CAN_DELETE`), that `RTYPE_ORDER` has
a type once, that keys of candidates tell names
apart and are no ids of the tenant, that a ZPA tenant starts out with its names
once per type and its references to what exists, that the same holds of the two
tenants of a sync, which have the same predefined objects and whose operators do
not add or edit those, and that bounds are numbers.

## 6. Where the documents and the code differ

Two differences are shown by runs:

- `sync_wide`. A rule whose whole scope is missing on the target is created
  disabled. The next run finds it different from the source and updates it with
  the source's state, enabled, and still without the scope
  (`services/scheduled_sync_engine.py:1997`). The comment above it and
  CHANGELOG.md:16 say that an update leaves the target's state as it is.
- `sync_misscoped`. References are looked up by the names the target had before
  the run wrote anything (`services/scheduled_sync_engine.py:1723`), and a run
  that renames objects moves those names. Of the source's services a and b the
  target has the contents under the names b and c: the run renames b to a and c
  to b, and a rule that refers to b is then written with the id of a. The run is
  reported as a success. The docstring of `_remap_refs` (`:1746`) describes this
  outcome as the failure the function fixes.

The models also have these behaviours, which no property forbids:

- Push engine. A setting or managed resource whose call fails for the moment is
  dropped without a record and the push is a success
  (`zia_push_service.py:1127`; CHANGELOG.md:1262). A cancel leaves changes whose
  records carry no id (`:1257`; CHANGELOG.md:448). An update of a rule that lost its
  whole scope writes it DISABLED as a create does (`:2191`), although the docstring
  of `_apply_scope_checks` (`:2166`) says that the target's state is left as the
  operator set it, and CHANGELOG.md:16 says so of instance scopes: a rule that an
  operator had enabled is switched off. It is the safe side of the difference that
  `sync_wide` shows for the sync, and `PushNeverWidens` rests on what the code does,
  not on what that docstring says. The rollback of an update
  drops references to types that are never imported and so can widen a rule
  (`:1312`; docstring at `:1249`). A create that is retried lands above the rules
  that should precede it (`:1898`; comment at `:1000`). No rollback brings back
  what a wipe deleted.
- Import. Rows of a type whose fetch failed are swept with the rest
  (`zia_import_service.py:229`; CHANGELOG.md:93). Of two overlapping imports the
  younger may hide rows it has itself just read, because the older restamps
  them.
- Sync. A failed fetch of the source hides its rows, and deletes then remove the
  equal rules of the target. A dependency that is renamed to match is not among
  the created ids (`scheduled_sync_engine.py:2066`), so a rule that refers to it
  loses the reference for that run.
- Tasks. A stop leaves the history rows of a running task running for good. A
  partial edit of a task with several targets is refused, since its row has both
  target fields and validation takes only one
  (`scheduled_task_service.py:229`).
- Accounts. A sign-in through the identity provider writes the account's role
  without counting administrators (`sso_service.py:475`): hence the exception in
  `AdminsLostOnlyBySso`. Seeding at start inserts a second "admin" when the first
  one is closed or demoted, which the unique name refuses, and the server does
  not start (`main.py:56`). An administrator's deactivation or deletion selects the
  account's templates with nothing flushed (`admin.py:169`, `:211`) and takes the
  lock at the flush (`:178`, `:213`): a template the account creates or is handed in
  between stays with it, although template_share_service.py:20 says that a template
  becomes unowned when its owner's account is deleted or deactivated. The same comes
  of a session that outlives its account, whose token is not checked against it.
  After a deletion such a template is the next account's that gets the id. A
  hand-over can make a deactivated account the owner
  of a template, and the deletion of an account with memberships, or by SCIM of a
  group with grants, fails on a constraint.
- Candidates. `promote` looks up the key without the type
  (`candidate_service.py:482`) and may take a namesake of another type. A
  promoted row has no `synced_at` and no import ever marks it deleted. After part
  of a push, references to synthetic ids that never became real are sent as they
  are and refused again at every retry. A restore repeated from one snapshot
  deletes what it recreated, which has another id now, and creates it again. The
  restore job has no handler around it (`api/routers/zpa.py:542`).
- Rotation. With `ZSCALER_SECRET_KEY` set, `load_key` keeps returning that key
  and the first rotation leaves everything unreadable, although the docstring of
  `save_key` promises that the written file is the one read back
  (`lib/crypto.py:146`). After the commit of the columns, a failed `save_key` or
  rekey, or a failed write of the algorithm, leaves rows that the next rotation
  cannot decrypt (`encryption_service.py:124`); the error it raises and
  CHANGELOG.md:296 tell the operator to run it again. Secrets in `app_settings` are not re-encrypted. A save
  that overlaps a rotation is lost or unreadable; rotations that overlap share
  one backup file. A stop between the commit and `save_key` loses every secret;
  one between `save_key` and the rekey leaves a database that does not open.

Conditions that properties state because of this:

- `RollbackRestores` excludes other imports of the tenant during the push, which
  replace the rows an undo restores from, and wipe-first pushes.
- `CancelResolved` promises an end, not a cancellation: jobs that do not poll,
  or have polled for the last time, complete as if nothing had been asked.
  `StreamEnds` and `CancelResolved` exclude a worker lost to an exception that
  nothing turns into `fail()`; its key stays taken until the server restarts.
- `SuccessConverges` excludes entries scoped to others of the same push, entries
  without any of their scope in the target, which are written disabled every
  time, and entries that refer to what PUSH_ORDER has later, whose ids are not
  mapped yet when they are compared (`Early`). It supposes that names are there
  once and that an id of the baseline is not another object's in the target
  (`Apart`): `_id_remap` has no types and `_configs_match`
  (zia_push_service.py:1815) maps the target's own configuration through it as
  well, so that a rule that refers to target id 1 is compared as if it referred
  to whatever the baseline's 1 has become, and is reported as different after
  every push. Nothing is promised of predefined rules: most of them are read and
  put back unchanged and reported as updated (`Write`).
- `PushNeverWidens` is about rules whose scope the baseline names, and not about
  what others add meanwhile; it excuses a rollback to a row of whose scope the push
  knows nothing.
- `ClosedOwnNothing` is about what an account had when the request that closes it
  looked, not about what it is given afterwards (`late`).
- `OrderKept` supposes a push without a second pass and a target that has the
  baseline's rules in order.
- `EnabledIsScheduled` excludes tasks with overlapping requests, and
  `OutcomeIsOwn` and `ParentTellsChildren` runs whose task was deleted meanwhile.
- `LiveRowsAreReal`, for the type of a row, and `AcceptedUntilPushed` exclude
  names that are proposed for two types, which `promote` does not tell apart.
- `WholePushLands` is about candidates that refer to the tenant and, in the order
  of the engine, to each other. `_unresolved_references`
  (`services/candidate_baseline.py:162`) warns of references to candidates that
  stay behind and does not look at the order: a reference to a candidate of the
  same or a later type is sent as it is when both are created, and refused.
- `RefersToNamesakes`, `SuccessMirrors` and `SteadyState` exclude references to
  a name that a rename of the run has taken from an object (`sync_misscoped`),
  and are about runs that fetched everything and met no edit of the tenants.
- `KeptReadable` and `SavedSecretsStay` exclude what `upset` and `raced` record.

## 7. Only model-checked, and not modelled

Only model-checked: `OrderKept` of RuleOrder, whose steps fold over whole lists;
and the liveness properties `RunsEnd`, `StreamEnds`, `CancelResolved`, `PushEnds`
and `CallsEnd`, which depend on fairness and are out of the prover's reach.

Not modelled, and why:

- The rest of the ZIA push engine: the full clone and the remediation push reuse
  `push_classified`, which `PushRun` models; `verify_push`, `execute_deletes` and
  `verify_deleted` are one loop of independent calls each; per-type
  normalisation is data.
- The reordering of rules at the end of a sync, payload slimming per type, and
  cloud app controls, whose types have APIs of their own.
- ZPA and ZCC imports: the same loop, upsert and sweep as `ImportCache`, over
  their own tables.
- WebAuthn and TOTP, the OIDC and SAML exchanges, password rules, SCIM filters:
  protocols of external parties, and checks without lasting state here.
- An `add_job` that raises after the commit: `TellScheduler` always succeeds. In the
  code such a failure is not handled, and the task stays as APScheduler knew it until
  the next request for it or the next start, which reconciles.
- Renames by operators of a ZPA tenant during a push (`EditTenant` deletes, changes
  and detaches objects).
- Contents and shares of templates, previews: reads.
- Plugins and certificates: third-party code and an external protocol; their
  jobs, and the restart that follows a certificate, are in `JobStore`.
- API clients, TUI menus and web pages: HTTP, prompts and rendering over the
  services modelled here. They are more than half of the repository's lines.

Worth adding next: the reorder phase of the sync, and a proof of `OrderKept`.
