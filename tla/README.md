# A verification project for the RM map backend

The backend is a Go server with a GraphQL and an HTTP interface. Couples
("relations" of two users) keep markers on a map, plan schedules and travel
plans, and connect their Google calendar; integrations use API keys. State is
in Postgres (through gorm) and, optionally, Redis; some of it is in memory.
Background goroutines sync calendars, render exports and trim logs.

This directory holds TLA+ modules translated from the source, the
configurations with which TLC checks them, and proofs checked by TLAPS. Paths
below are relative to the repository.

## 1. Inventory

For every part: the state it keeps, what changes it, with whom it shares it,
what is hard about it, and what makes it correct.

### Calendar sync (`service/calendar_sync_*.go`, `calendar_connection_service.go`, `google_calendar_provider.go`)
- State: jobs (`calendar_sync_jobs`: status, attempts, next attempt, unique
  idempotency key), links (`schedule_calendar_sync_links`: status, event id,
  connection), connections (`calendar_provider_connections`: status, tokens),
  and the events in Google's calendar.
- Operations: enqueue on edit and removal; the worker claims a batch, calls the
  provider, marks link and job; manual sync, retry and unsync call the provider
  themselves; connect and disconnect a provider; sync of a whole day through
  the integration API.
- Interactions: every process reads a row, works (often with a network call)
  and saves the whole row it read. Only the claim is a locking transaction.
- Hard: stale whole-row saves, lost answers, retries that outlive an edit,
  crashes after the claim, idempotency keys asked for twice.
- Correct when: a job is tried at most `max_attempts` times, by one worker, and
  decided in the end; a link and its event agree; what is shown as synced is
  the current content; nothing is duplicated.

### Sessions (`auth_state_manager.go`, `auth.go`, `redis_client.go`, `middleware/auth.go`)
- State: the login token in the user's Postgres row, a session record in Redis.
- Operations: Issue, Validate (with backfill), Revoke, in the modes
  `dual-write`, `redis-primary`, `postgres-off`; a rollout moves between modes.
- Hard: two stores with no common transaction, either call may fail, the
  backfill races logout, full-row saves of the user.
- Correct when: a session is valid after a successful login and not after a
  successful logout, in every mode and across the documented rollout.

### API keys (`api_key.go`, `api_key_http.go`, `service_account_admin_http.go`)
- State: keys (active or revoked, rotated from), service accounts.
- Operations: create, revoke, rotate, delete, authenticate, retention job.
- Hard: rotation is three writes with no transaction; whole-row saves.
- Correct when: a revoked key stays revoked; a rotation leaves one active
  successor.

### Markers and schedules (`marker.go`, `schedule.go`, `graph/schema.resolvers.go`, `api_key_http.go`)
- State: a marker's status (empty, scheduled, arrived, cancelled); schedules
  that refer to a marker.
- Operations: create, edit, set status, remove, overwrite a day; edit, remove,
  revoke and delete a marker.
- Hard: the marker's status is derived data kept by hand on each path; two
  schedules may share a marker; whole-row saves.
- Correct when: a marker shown as scheduled or arrived has a schedule to show
  for it; no schedule refers to a deleted marker; an overwritten day holds what
  was asked for.

### Offline export (`offline_export_http.go`)
- State: two maps in memory (jobs, rendered artifacts) under one RW mutex.
- Operations: create, status, download, the rendering goroutine, cleanup.
- Hard: jobs are copied by value but share their artifact slice; cleanup runs
  inside other operations.
- Correct when: a job ends, its status sums up its artifacts, a succeeded
  artifact can be downloaded until the job expires.

### Travel plans (`travel_plan_http.go`, `api_key_http.go`, `docs/travel-plan-soft-delete.md`)
- State: plans and daily items, both soft-deleted; a schedule may be linked to
  an item.
- Hard: plans are loaded outside the transactions that update and delete them.
- Correct when: a deleted plan has no live item, as the document says, and the
  items of a plan are those of one update.

### Reminders (`integration_schedule_reminders.go`, `user_reminder_time.go`)
- State: a dispatch log keyed by user, schedule and local date; the user's
  reminder time.
- Hard: the window past midnight, polling twice in a window, schedules and
  markers that move between polls.
- Correct when: the log says the truth about day and time.

### Hashtag cache (`integration_hashtag_cache.go`)
- State: counts in Redis with a time to live; invalidated by marker changes.
- Hard: computing, storing and invalidating are separate steps; Redis fails.
- Correct when: a wrong count has a known reason and a short life.

### Weather (`weather_planning.go`)
- State: a cache and a fixed-window limiter in memory.
- Hard: requests carry the time of their start; items are shared between the
  cache and answers; degraded answers from expired entries.
- Correct when: an answer is as old as it says, and the provider is not called
  more often than the limiter means.

### Audit logs (`external_api_audit.go`, `api_key.go`, `api_key_cleanup.go`)
- State: two tables with the same retention by age and by a cap.
- Hard: deleting, counting, selecting and trimming are four statements, with
  other workers and new rows in between.
- Correct when: trimming takes enough rows, and none that should stay.

### Admin cleanup (`admin_cleanup_http.go`)
- State: cleanup jobs (recorded, never run), deletions of markers and schedules.

### Pins and marker types (`pin.go`, `marker_type.go`, `type_pin.go`)
- State: pins, types, and an image for each pair, drawn when either changes.
- Hard: no transaction spans commit, listing and drawing; errors are dropped.
- Correct when: every pair has an image, and the image is that of the pair.

### Pin groups (`pin_group.go`, `pin_group_http.go`)
- State: groups with unique names, assignments of pins to groups.
- Hard: one group for each pin is a rule of the program, not of the table.
- Correct when: a pin is shown once, and a deleted group has no pins.

### Release notes (`release_note_admin.go`, `release_note.go`, `server.go`, `scripts/backfill_release_notes.go`)
- State: notes, draft or published, with legacy rows that are neither.
- Hard: listing notes saves them; semantic versions with pre-releases, some
  notes without one.
- Correct when: a decision of an administrator holds, and the latest note has
  the greatest version.

### Train stations (`train_station*.go`, `admin_station_http.go`, `seed`)
- State: stations, their lines (a relation and a derived column), the catalogue
  of lines of each map, maps; seeded at every start.
- Hard: lines are renamed, merged and removed under the stations that have
  them; a removed map may have seeded data.
- Correct when: relation, column and catalogue agree, and nothing is left of a
  removed map.

### Left aside
Generated GraphQL code, model conversions, seeds of fixed data, settings,
scrapers, movie and route services, website previews and file uploads: parsing
and input/output, with no state that another operation depends on.

## 2. Modules and runs

In order of importance; `PROJECT.json` lists the same parts with their status.

| Module | Models | Run by | Proved in |
|---|---|---|---|
| `CalendarSync`, `JobLifecycle` | calendar sync; the queue implements `JobLifecycle` | `MCCalendarSync`, `MCSessions` | `CalendarSyncProofs` |
| `OfflineExport` | job maps, rendering goroutine, polling, download, cleanup, restart | `MCFormats`, `MCLogs` | `OfflineExportProofs` |
| `MarkerSchedule` | marker status kept by schedule operations, overwrite, admin deletion | `MCMarkerSchedule`, `MCNotes`, `MCCatalogue` | `MarkerScheduleProofs` |
| `AuthState` | sessions in two stores, faults, modes and rollout | `MCSessions` | `SessionProofs` |
| `ApiKey` | rotation, revocation, deletion, service accounts | `MCSessions` | `SessionProofs` |
| `TravelPlan` | updates against deletions, row locks, links | `MCSessions` | `SessionProofs` |
| `HashtagCache`, `WeatherCache` | cache-aside with invalidation; cache and limiter | `MCFormats` | `FormatProofs` |
| `AuditLog`, `Reminders` | retention of both logs; due reminders and their log | `MCLogs` | `LogProofs` |
| `ReleaseNotes` | states and versions of notes, legacy rows, the script | `MCNotes` | `NoteProofs` |
| `TypePins` | pins, types, and the images of their pairs | `MCCatalogue` | `CatalogueProofs` |
| `PinGroups` | groups and assignments of pins | `MCCatalogue` | `CatalogueProofs` |
| `Stations` | stations, lines, maps and seeds | `MCCatalogue` | `CatalogueProofs` |

`MCSessions`, `MCFormats`, `MCLogs`, `MCNotes` and `MCCatalogue` each run
several components. Within one of them the components share no state and call
none of each other; interleaving them would multiply states and show nothing
new. So a variable `part`, chosen at the start, says which one is at work in a
behaviour, and the states of the run are the sum of those of its components.
A symmetry set that permutes the requests of one permutes those of all; model
values are shared between components to that end, as the comments in the
modules say. The initial values of the components that rest are fixed.

Some properties are conjunctions of two named parts (`StaleIsBounded`,
`AnswersSayTheAge`, `TrimIsExact`, `LoggedWhenDue`, `RotationHolds`,
`LinesAgree`, `ImagesAgree`, `AssignmentsAgree`); each part has a
mutant of its own. The type invariants of components that are run together are joined in the same way.

A definition below a comment `Mistake:` is not part of a specification: it is
the body of the definition after it with a bug in it, to see that the property
notices.

### Proofs of the runs

Every safety property that a passing run checks is also a theorem, for all
values of the constants that the module's named assumption admits, and under no
other hypothesis than those named below. A module of proofs may hold several
components, as a run does. Its `...Run` lemma (`SessionsRun`, `FormatsRun`,
`LogsRun`, `RacesRun`, `CatalogueRun`) says that a behaviour of the combined
specification is one of each component, which rests, and so carries the theorems
about the components over to the run: `SessionTypes`, `FormatTypes`, `LogTypes`,
`RaceTypes` and `CatalogueTypes` are the combined type invariants.

Only model-checked are the three liveness properties, `JobsSettle`, `JobsEnd`
and `CapHoldsInTheEnd`: what holds under fairness needs `ENABLED`, which the
prover does not treat. The three violations are shown by TLC. Cardinalities
and the lexicographic order of versions are reasoned about with set arguments and
recursive functions; no module reached by a proof has a RECURSIVE operator.

## 3. Calendar sync

### How the model corresponds to the code

`CalendarSync` has one variable per table (`schedule`, `connection`, `link`,
`job`), one for Google's calendars (`event`), one for the jobs a worker has
claimed (`batch`), and for each process a label (`pc`) and its local variables
(`ctx`). A process is a worker (one goroutine per running server process) or an
HTTP request. Each database call and each provider call is a step of its own,
so a process may be interrupted between a read and the save that follows.

| Code | Actions |
|---|---|
| worker: `RunCalendarSyncWorkerBatch`, `processCalendarSyncJob` | `ClaimDueJobs`, `StartJob`, `CallProvider`, `FinishJob`; `FinishFails` when the database refuses `MarkSucceeded` or `MarkFailed`, which is only logged |
| `Mark*` of the link repository | `MarkLink` (read, check the transition), `SaveLink` (save the copy) |
| adapter: `ensureAccessToken`, `doJSONRequest` | `TokenStillValid`, `RefreshToken`, `CreateEvent`, `UpdateEvent`, `DeleteEvent`, `EventMissing`, `Refuse`, `RefuseAuthorization` |
| `EditSchedule` and `enqueueCalendarSyncMutation` | `EditSchedule`, `LoadMutation`, `MarkLink`, `SaveLink`, `InsertJob` |
| `RemoveSchedule` (in its transaction) | `RemoveSchedule` |
| other changes of a schedule | `TouchSchedule` |
| `executeManualCalendarSync`, also for each schedule of a day | `BeginManualSync`, `UpsertLink`, `MarkLink`, `SaveLink`, `LoadSchedule`, `CallProvider` |
| `CalendarDisconnectProviderHandler` | `DisconnectProvider`, `ListLinks`, `NextLink`, `MarkLink`, `SaveLink` |
| OAuth callback | `ConnectProvider` |
| next attempt time | `BackoffElapses` |
| a server process dies | `Crash` |

Abstractions:
- One provider: Google is the only adapter the server registers. A schedule has
  then at most one link and a user one connection, and they are identified by
  schedule and user.
- The content of a schedule is its version (`UpdatedAt`), which is also what
  the idempotency key uses.
- The methods of the connection service are one step each; the long stale copy
  that matters, the one the adapter saves after a token refresh, is modelled. A
  refused refresh is `RefuseAuthorization` (or `Refuse`) after `TokenStillValid`.
- The update of a schedule row is one step; an edit racing a removal on that
  row itself is not modelled.
- A cancelled request context or a timeout shows as `Refuse` or as a lost answer.
- Jobs are claimed in any order that respects the limit: two due times are not
  compared.
- Missing rows (`link_not_found`, `provider_not_found`,
  `connection_not_found`) are unreachable here: rows are never deleted and the
  provider is registered.
- Audit, metrics, error texts and retry times are left out.

`Environment` says what the surroundings may do, so that each property is
checked under everything it should withstand and not only where it is easy.

`JobLifecycle` is the abstract specification: a job is submitted once, tried at
most `Budget` times by one worker at a time, given up only when all tries are
used, and never reopened. `CalendarSync!JobsFollowLifecycle` instantiates it
with `pending` and `failed` mapped to one waiting phase.

### What is checked

Every run of a safety property allows all interleavings of its processes.

| Run | Instance | Shows |
|---|---|---|
| `CalendarFaults` | 1 fair worker, 1 request, errors, refused authorisation, refresh, disconnect, silent edits, 2 attempts | the inductive invariant of the proofs (types, attempts, a synced link names an event and a disconnected one none), refinement of `JobLifecycle`; every job is decided |
| `CalendarReplicas` | 2 workers that may crash or fail to save what became of a job, 2 requests that edit one schedule, errors | a job is never held twice; a decided job stays decided |
| `CalendarOrdered` | 2 users, requests one at a time, removals, errors, lost answers, refused authorisation | once settled, links show current content and a pending link has work |
| `QuietSessions` | 2 schedules, a provider that obeys, removals, a batch limit that makes jobs wait | no event is created twice or forgotten by its link (`EventsHaveLinks`) |
| `CalendarConnectionTable` | the shortest race | see Findings |

`SyncedIsFresh` and `PendingHasWork` are stated under `Sequential` and
`EventsHaveLinks` under `Quiet`: these name the surroundings in which the
design keeps its promise. Outside them the code does not, and TLC shows why:
with a disconnect during a job the late `MarkSynced` shows an old event as
synced; with a refused creation the link is `failed`, a later success cannot
move it to `synced`, the worker drops that error, and the event is forgotten;
an edit that begins while the creation runs asks for a second creation.

Bounds. Two attempts reach both ends of the retry rule (retry and give up).
One edit more than the first gives an old and a new version, which is what
stale content needs; two versions in `CalendarOrdered` let a retry outlive an
edit. Two requests are the smallest number that race; two workers the smallest
that compete. Event ids are handed out once, so their number bounds creations;
a provider out of ids refuses (a quota), which the code treats as any refusal.
Requests and event ids are symmetric; the run with liveness uses no symmetry.
`CalendarFaults` has no crashes and no database errors of the worker, which
`JobsSettle` could not survive; that the invariants it checks outlive both is
part of what is proved.

Fairness. `FairSpec` assumes weak fairness of each worker's steps and of the
passing of a retry delay: the goroutine loops for ever and every provider
request has a client timeout. Nothing is assumed of users or HTTP requests. A
job is stranded in `processing`, where no query looks again, by a worker that
dies after the claim and also, without any crash, by a database error in
`MarkSucceeded` or `MarkFailed` (`calendar_sync_worker.go:109`, `:145`, `:161`),
which the batch only logs (`:34-36`). The model has both (`Crash`, `FinishFails`;
`crash` and `database` in `Environment`). `NoStrandedJob`, which is proved, says
that nothing else does: whatever the provider answers, whoever disconnects,
edits or removes, each way through `processCalendarSyncJob` marks the job.

### What is proved (`CalendarSyncProofs`)

For all finite or infinite sets of schedules, users, workers, requests and
events, any positive `MaxAttempts` and `BatchLimit`, and every `Environment`,
from `CalendarAssumption` alone:

- `TypeCorrect`, `AttemptsBounded`, `ClaimsExclusive`, `LinksNameEvents` and
  `NoneStranded` (invariants), `SettledStay` (action property) and
  `QueueImplementsLifecycle` (refinement).

They rest on `Invariant`: `IInv` is inductive. Alone, `LinkNamesEvent` is not:
a process may be about to save a row it read long ago. `IInv` adds what those
copies satisfy (`LocalsOK`: a process about to mark a link synced has an event;
the copy it saves names a connection), that rows which jobs refer to exist
(`LinkRows`, `JobsHaveLinks`), and that a job held in a batch is in processing
(`ClaimExclusive`). There is one lemma per action; actions that touch only local
variables share `LocalStep` and `ReturnStep`, those that change one link share
`LinkStep`. `LifecycleStep` shows that every step is a step of `JobLifecycle`
or leaves its variables alone.

`NothingForgotten` says that `PendingHasWork` holds for any number of workers
and of users. Alone it is not inductive, since a link may be pending while its
request or its job is in the middle of its steps. `SequentialWork`
(`WorkInvariant`) says who will move it on: a request past its first reads, or an
unsettled job that no worker has already marked the link for. It needs two more
facts: a worker never marks a link pending, so only requests create the debt,
and the version of a schedule that a request has just edited is higher than that
of any job (`KeyIsNew`), so the job it inserts is not an old, settled one. There
the assumption that requests come one at a time is used: of two edits at once,
the later finds the job of its version there and inserts none.

The rest is for requests one at a time.

- `OrderInvariant`, for any number of workers: the queue and the requests keep
  out of each other's way. While a schedule has unsettled work its link is not
  disconnected and no manual sync is at it; and every row and every process
  names only events that were created for its own schedule.
- `SyncsAreFresh` is `SyncedIsFresh`, for one worker, which is what one server
  runs. Its invariant `FreshInv` says of each schedule: while a request or a job
  that nobody has begun is still to come, nothing need be current; otherwise what
  a worker is sending, or has sent, is the present content, and if none is at it
  the event that the link names has it. One worker is necessary: TLC finds, with
  two, that a worker which read the content before an edit sends it after the
  other one has sent the newer, and the link says synced.
- `EventsKeepLinks` is `EventsHaveLinks`, for any number of workers, where the
  provider obeys and one person's calendar is used. `QuietInv` adds that
  everybody agrees with the link on its event: a worker at a job, the row that it
  is about to save, and a manual sync name the event of the link; an unsettled
  job updates an event that is there, or creates one for a link that has none
  only once the provider has run out of ids (`Full`); and an event in the
  calendar that no link names is about to be saved into one (`Accounted`).

These proofs first say once what each action does to rows and to the locals of
its process (the lemmas `...Does` and the predicates `...Done`), so that the
invariants are proved from the shape of a step and not from the whole action.

Only model-checked: `JobsSettle`. Only proved: `AttemptBudget`, `NoStrandedJob`
and `LinkNamesEvent` by themselves (the first and the last are parts of `IInv`).

### Findings

- `ConnectionStatusAsTested`: `calendar_sync_state_test.go:59` says a
  disconnected connection does not become `reauthorization_required`. A token
  refresh saves the status its caller read before the disconnect.

Also visible in the model: removing a schedule never deletes its event.
`RemoveSchedule` asks for the deletion (`schedule.go:216`), the workflow has an
action for it (`calendar_sync_workflow.go:33`) and the worker an arm
(`calendar_sync_worker.go:90-95`), but the mutation looks the schedule up after
the soft delete, does not find it and queues nothing. That is a defect, and no
property asks for it; `EventsHaveLinks` would hold of a program without it too.
Nor does a document say otherwise of the following: `UpsertLink` does not save the changes it makes to an
existing link; paths behind `TouchSchedule` do not enqueue; and a link can go from
`disconnected` straight to `synced`, which the transition table refuses
(`calendar_sync_state_test.go:20`), when a `MarkSynced` read it before the
disconnect and saves it after.

## 4. Offline export

### How the model corresponds to the code

| Variable | Code |
|---|---|
| `seq` | `offlineExportSeq` |
| `job` | `offlineExportJobs`: status, and whether `UpdatedAt` is older than the retention |
| `artifact` | the statuses in a job's artifact slice, which all copies of the job share |
| `payload` | `offlineExportArtifacts`: the formats that have a rendered file |
| `run` | the goroutine of each job: place, formats left, `hasSuccess`, `hasFailure` |
| `metric` | the four counters |
| `client`, `reply` | the handler a client is in, and the last answer it remembers |

Each critical section of the mutex is one action, and so is each read outside
it. Creating a job takes three: `AllocateJob` (the atomic number), `InsertJob`
(cleanup and both maps), `LaunchJob` (counter and goroutine). The goroutine is
`StartRun`, then `MarkArtifact` and `StoreArtifact` for each format, then
`FinishRun`, whose cleanup runs before the ended job is put back. `GetStatus`
copies a job under the lock; `ReadArtifact` then reads its artifacts one by one
without it, and may find a status `torn` while the goroutine is at the write:
a Go string is two words, and the language promises nothing of a race.
`GetArtifact`, `CheckArtifact` and `FetchPayload` are the download: copy,
unlocked read, second lock. `Age` lets a day pass for one job, `Restart` loses
everything but what clients remember.

Abstracted: the snapshot and the rendered bytes (a rendering succeeds, or fails
if the surroundings allow it; no file is empty), the order in which formats are
rendered, authentication and the relation check, which either answers "not
found" or goes on, and requests refused before a number is taken. Once it asks
for something else a client forgets its last answer.

### What is checked

| Run | Instance | Shows |
|---|---|---|
| `FormatsAndCaches` | 1 client, 2 jobs, 2 formats that may fail | a final answer is whole, polls never go back, jobs stay while they are rendered and for the retention, a ready download fails only by expiry |
| `RestartsAndLogs` | 2 clients, 1 job, failures and restarts, fairness | every accepted job ends or is lost with the server |

Bounds. Two jobs let one expire while another is created or ends, which is the
only time cleanup runs. Two formats give every summary, `partial_success`
included. Two clients race for ids and poll what the other downloads. One job
with restarts already gives the same id out twice.

Fairness. `FairSpec` assumes weak fairness of each rendering goroutine and of
each handler once it has begun: the Go scheduler runs both, neither waits for
anything but the mutex, and each critical section ends. Clients, ageing and
restarts have no fairness.

### What is proved (`OfflineExportProofs`)

For any sets of formats and clients, any `MaxJobs` and every `Environment`, from
`ExportAssumption` alone: `ExportTypeCorrect`, `ReadyArtifactsHavePayload`,
`RunningJobsAreKept`, `IdsAreNew`, `FinalAnswersAreWhole` and the action
property `DownloadsFind`. They rest on `ExportInvariant`. `FinalReplies` alone is
not inductive: a handler may be half-way through a slice. `IInv` adds what makes
the unlocked read harmless: a handler that copied an ended job reads artifacts
that are final and that no goroutine writes (`HandlerOK`), because a goroutine
is there only while its job is queued or processing (`RunningIsKept`), its
artifacts match its place (`RunOK`), and no id is launched twice
(`CreationOK`, `NewJobsAreNew`, `FreshIds`). `RunStepKeeps` and `RequestKeeps`
state once what the steps of the goroutine and of the handlers leave alone.

`PollsMoveOn` (`RepliesMoveOn`) and `EndedJobsAreKept` (`EndedIsKept`) are
proved for a server that does not die (`"restart" \notin Environment`), as the
run has it. The first needs `ShownInv`: what a client has been told, or is half
through being told, of a job may still be followed by what the job is now
(`StillTrue`), and no id it has heard of is about to be inserted again. A
restart breaks exactly that, as numbers start again.

Only model-checked: `JobsEnd` (liveness). Only proved: `ReadyHasPayload`, `RunningIsKept` and `NewJobsAreNew`, parts of the
invariant; the prover needed it, no run does.

Limits that the model shows, with no document that says otherwise: an answer
about a job in progress may mix moments (status `queued`, artifact
`succeeded`) or hold a torn status; after a restart numbers start again, so an
old id may name a new job and `RepliesMoveOn` is stated without restarts.

## 5. Markers and schedules

### How the model corresponds to the code

Variables: `marker` and `schedule` are the tables (of one relation), `req` the
request each process is in with the rows it has read. A row is `live`,
`deleted` (`deleted_at` set) or `erased`.

A request that looks at rows before it writes is two steps or more: `Read...`
copies rows into `req`, the action named after the operation writes and ends
the request. What a transaction writes is one step. The database isolates at
the level of statements and no request locks what it reads, so other requests
commit in between. `Saved` and `Commit` are gorm's `Save`: the whole row is
written from the copy, a row deleted in between comes back, an erased one is
inserted again, a marker that hangs on a saved schedule is inserted if it is
missing, and the foreign key refuses a schedule without a marker row.

| Code | Actions |
|---|---|
| `CreateMarker` (mutation and integration) | `CreateMarker` |
| `EditMarker`, `RemoveMarker`, `UpdateMarkerFavourite`, `RevokeMarker`, `IntegrationDeleteMarkerHandler` | `ReadMarker`, then the action of that name (the last shares `RemoveMarker`) |
| `CreateSchedule`, `CreateMovieSchedule`, `IntegrationCreateScheduleHandler` | `ReadMarker`, `CreateSchedule`; `CreateMovieSchedule` without a marker |
| `EditSchedule`, `IntegrationUpdateScheduleHandler` | `ReadSchedule`, `EditSchedule` |
| `RemoveSchedule` with `ResetMarkerBySchedule` | `ReadSchedule`, `RemoveSchedule` |
| `UpdateScheduleStatus`, a list | `ReadEntry` and `WriteEntry` per entry, which see the transaction's own writes, and `UpdateScheduleStatus` to commit |
| `IntegrationOverwriteSchedulesByDateHandler` | `ListDay`, `Overwrite` |
| admin deletion of a marker | `ValidateDeletion`, `DeleteMarker` |
| admin deletion of a schedule, clearing of testing rows | `DeleteSchedule`, `ClearTesting` |
| refusals, errors, `Rollback` | `Fail` |

Abstracted: a time is a date and a slot of the day; a zone is UTC, east or
west of it, where an early or late slot falls on another date in UTC. Labels,
places, weather and route previews are left out; a movie matters only in that
its schedule need not have a marker; linking a schedule to a travel plan item
belongs to travel plans, calendar jobs to section 3. Permission checks end in
`Fail` or let the request go on. A list of status updates may name an entry
twice and reads each entry as it comes. The reads inside `RemoveSchedule` and
`Overwrite` after the first are part of the commit.

### What is checked

| Run | Instance | Shows |
|---|---|---|
| `RacesAndNotes` | 2 concurrent requests, 1 marker, 2 schedules, the operations that decide a status (`PlanOps`) | a shown status has a schedule |
| `Catalogue` | every operation of users and integrations, one at a time, 2 markers, 2 schedules | a shown status has a schedule |
| `MarkerAdmin` | all operations, one at a time, 1 marker, 2 schedules, 2 days, edits of both flags | no schedule loses its marker; an overwrite leaves on its date only what it has created |
| `MarkerDeleteRace`, `MarkerOverwriteEast` | the shortest counterexamples | see Findings |

The runs say under which surroundings the design keeps its promises. With
stale copies of whole rows it keeps the status only among the operations of
`PlanOps`: an edit, a favourite or an overwrite that races them does not. One at
a time, all operations of users and integrations keep it, `PermanentIsOpen`
(proved for `PlanOps`) excepted, for a marker may become permanent while it is
planned; an
administrator's deletion of a schedule leaves its marker as it was.

Bounds. Two schedules at one marker give the case that one is removed or
updated while the other remains; two markers let an overwrite move a day from
one to another; two days (`MarkerAdmin`) give a day that stays. Two requests are the smallest
number that race. Ids are not used twice, so their number bounds creations; in
`MarkerDeleteRace` ids run out and nothing is left to do, which is why that run
alone does not check for deadlock. An overwrite of two items (`MaxItems`, in
`Catalogue`) reaches both markers. Schedules, processes and, where zones agree, markers are
symmetric. No liveness is stated: every request ends at its commit or fails, and
nothing happens on its own.

### What is proved (`MarkerScheduleProofs`)

For any sets of markers, schedules and processes, any dates and any `Ops`, from
`MarkerAssumption` and what is named here:

- `MarkerTypeCorrect`: types, and the copies each kind of request holds.
- `StatusCorrect`, if `Ops \subseteq PlanOps`: `StatusHasSchedule` and
  `PermanentIsOpen` under any interleaving. Neither is inductive, since a commit
  writes what was read long before. `PlanInv` adds that a copy may be stale in
  its status only (`PlanHolds`), that a list of updates is consistent in itself
  with each marker it saves (`ListConsistent`), and that rows stay once created
  (`PlanTables`). `Effect(D, T)` says what a commit may do to the markers `D`
  and schedules `T`; `EffectPlan` shows once that this keeps the invariant, also
  for what other requests hold, and each operation is shown to be an `Effect`.
- `PlannedHasMarkerInOrder`, if `Serial`: `PlannedHasMarker` for all operations.
  `FreshInv` adds that the one open request holds what is still so.
- `OverwriteCorrect`, if every marker lies in UTC: `OverwriteReplaces`, from
  `SameDate`, under any interleaving and for all operations.

- `StatusCorrectInOrder`, if `Serial`, no operation is an administrator's, and
  `"permanent" \notin EditedFlags`: `StatusHasSchedule` and `PermanentIsOpen` for
  every operation of users and integrations. `OrderedInv` adds to the two
  invariants above that what the one open request will save beside a status, or
  reset, is what the tables hold (`UpToDate`): the marker of an edit or a
  favourite, the row of an edited schedule, and for an overwrite every marker that
  a schedule of the day has. The last hypothesis is needed: a marker that becomes
  permanent while it is planned stays shown as scheduled when its schedule is
  cancelled or arrives, since `UpdateScheduleStatus` leaves permanent markers
  alone; TLC finds it if the flag may be edited.

### Findings

- `MarkerDeleteRace`: `admin_cleanup_http.go:274` refuses to delete a marker
  that is planned, but counting and deleting are two statements.
- `MarkerOverwriteEast`: the day to overwrite is cut in UTC, the items' date
  where the marker lies, so a stale schedule survives.

Also visible in the model: an edit that read a marker before its schedule was
removed saves the old status over the reset (`marker.go:301`); removing a
schedule, or updating its status, brings a removed marker back
(`marker.go:365`); an integration may cancel a favourite, which a user may not
(`api_key_http.go:1387`); `CreateSchedule` plans with `testing = false` at a
testing marker (`schema.resolvers.go:522`), and clearing is then refused by the
foreign key until someone removes that schedule.

## 6. Sessions

`AuthState` keeps the token of a user's row (`token`), the record in Redis
(`record`), and for each request its next step and local variables. A login
(`Login`, `Upsert` for OIDC and LDAP), a request with a token or a logout
(`UseToken`) then takes one step for each call of a store, in the order that the
mode decides: `CheckPostgres`, `CheckRedis`, `CheckBackfill`, `ReadUser`,
`WritePostgres`, `WriteRedis`. Each call may fail, a call of Redis also after it
was obeyed. `RestartServer` changes the mode as `README.md:88-92` recommends,
with the way back. What users rely on is kept in two history variables, `open`
and `ended`.

`QuietSessions` (1 user, 2 requests, 3 secrets, failures, expiry, restarts)
shows `LoggedInStaysValid` and `LoggedOutStaysOut`. Both speak of logins and
logouts that no other request of the user overlaps. With overlap the code lets a
session come back: a validation under `redis-primary` that read the row before
the logout writes the record after it (`auth_state_manager.go:259`), and a whole
row saved from a copy restores the token (`:357`). Left out of the two
properties, each at the definition that does it: a logout under `postgres-off`
leaves the token in the row, so a later login takes it over and the way back to
`dual-write` accepts it; a second login under `postgres-off` displaces the first.

`SessionsStayValid` and `LogoutsHold` (in `SessionProofs`) prove both for any
number of users, requests and secrets. The
invariant `AuthIInv` has two halves. `StoresFit` says of a user what the stores
hold: the secret of the open session in the store that the mode believes, that
secret or none in the other one, and in neither a secret that has ended, except
in a row that `postgres-off` does not read; both properties follow from it. It is
not inductive alone, since a request that is in the middle of its writes decides
what the stores hold next: `Fits` says of each request in which modes its next
step can be, that a login carries the secret of the open session if there is
one, that a request about to repair the record has a secret that has not ended,
and, while it is alone, what it has written so far. The argument rests on the
mode not changing while a request is served, and on keys that do not repeat.

Bounds: two secrets are an old and a new session, a third one follows a logout;
two requests are the smallest number that overlap; users share nothing.
Abstracted: a user is found and created in one step inside `Upsert`; a
rollback with Redis disabled, and the OIDC state, are left out.

## 7. API keys

`ApiKey` has the table (`key`), one service account, and for each request of an
administrator its next write and the copy of the row it read. `ReadKey` begins a
revocation, rotation or deletion; `RevokeRotated`, `CreateSuccessor` and
`LinkSuccessor` are the three writes of a rotation; `AuthenticateAPIKey` is a
use, `CleanupKeys` the retention job, `TimePasses` expiry and age.

`QuietSessions` (2 keys, 2 requests, failing database, overlap) shows
`RotationHolds` (a rotated key of a user has a successor, or is about to get one,
and stays revoked) and `RevokedKeysStay` (a revoked, deleted or expired key is
never accepted again). The second, and the first part of the first, speak of
requests that do not overlap; the first part also of a database that does not
refuse a call in the middle of a rotation, which does lose the key.

`RotationsHold` and `RevocationsHold` (in `SessionProofs`) prove both for any
number of keys and of requests. The properties
alone are not inductive: that the link saves a row nobody has revoked since, and
that the first write of a rotation does not overwrite the link of an earlier one,
holds because the request is the only one. So the invariant `KeyIInv` adds that
requests which have not overlapped are one at a time, that the row such a request
has read, or has created, is still so (`CopyCurrent`), and that a request that
writes knows which row (`CopyFits`). For what holds under overlap too, that a
rotated key stays revoked, every save but the link writes a row that is revoked.

Also visible in the model: a service account that is created inactive is stored
active; rotating a key that is revoked makes another successor; when rotation
and revocation overlap, the link saves the successor as it was created, active;
the rotation of a service account's key always fails after it has revoked the
key, which is why `RotationHolds` leaves those out. Scopes, actors and the
hashing of keys are left out.

## 8. Travel plans

`TravelPlan` has the committed rows (`plan`, `item`) and what each transaction
has written (`work`). An update or deletion loads the plan, then `SavePlan` locks
its row; `StartClearing` is the statement that deletes the items as it sees them,
`ClearItems` the moment it has their locks; `AddItem` inserts new ones, and
`CommitUpdate` or `CommitDeletion` ends it. Items are also deleted one by one and
linked to schedules. A statement sees what was committed before it and waits for
rows that another transaction holds (`PlanLocked`, `ItemsLocked`); `RollBack` may
come at any step.

A deletion by an API key that acts for no user (`deleteAsKey`) skips `SavePlan`:
`integrationDeleteTravelPlanFn` (`travel_plan_http.go:91`) saves the plan only if
there is an actor, and `actorUserFromAPIKey` (`:705`) may return none. It deletes
items without the plan's lock (`HoldsPlan`), so an update that commits after its
statement brings items that it does not see, and the plan is deleted with live
items in it, against `docs/travel-plan-soft-delete.md:15`. That is so in the
code and in the model. The history variable `outrun` records exactly these
plans, and `DeletedPlanHasNoItems` excepts them and no others: a key's deletion
that no update outruns, and every deletion by a user, leave none.

`QuietSessions` (1 plan, 3 items, 2 requests) shows `DeletedPlanHasNoItems` and
`ItemsOfOneUpdate`. What keeps them is that the other transactions save the plan
first; an update that loaded the plan before it was deleted saves it too, which
either fails or brings it back, as the library has it, and then its items are
not those of a deleted plan. Three items are those of an update, one of another,
and one more.

`SessionProofs` shows for any numbers of plans, items and requests, from
`PlanAssumption`: `PlanTypeCorrect`, `DeletionComplete`, `UpdatesNotMixed` and
`DeletionOfItemsFinal` (a deleted item never comes back; only proved). The
inductive invariant adds that one transaction at a time holds a plan that it has
saved, and what each transaction that has begun to delete items has seen: all
live items of the plan, unless it has been outrun.

## 9. Caches and limits

`HashtagCache`: one relation and one tag; the two entries differ in whether
markers for testing count. `LookUp`, `Query` and `StoreCounts` are a reader,
`ChangeMarker` and `DropEntry` a writer, `ChangeSilently` the changes that delete
no entry, `TagTick` the time to live. `StaleIsBounded`: a wrong count has one of
the named reasons (`StaleIsExplained`), and is gone after the life of one entry,
counted from the last change or the last time a reader held an older result
(`StaleIsBrief`). Two readers and one writer with two ticks reach a reader that
stores what a writer has just dropped. Redis that is switched off does nothing.

`WeatherCache`: `Ask` reads the clock, `LookUpForecast`, `AskLimiter`, `Fetched`
or `FetchFails`, and `Degrade` follow with that time, each in its own critical
section; `Pass` lets time go by. `AnswersSayTheAge`: data called fresh or stale is
as old as that allows (`AnswersInTime`), and items are marked as stale only when
no later request can be told that they are fresh (`MarkedIsOld`, for requests
that have the viewport to themselves: others do mark items that are still served
as fresh, since they share the array). `MinuteBudget`: never more than two quotas
within a minute. The bounds give two windows, an entry that is fresh, stale and
gone, and requests that overtake each other by one tick. Restarts, which empty
both, are left out; the cache never evicts an entry.

Both belong to `FormatsAndCaches`, which needs no fairness.

`FormatProofs` proves all three for any markers, viewports, requests and times.
`StaleCountsBounded`: `TagInvariant` says since when what a reader holds, and what
is stored, can be wrong: while a reader holds a wrong count the clock of that entry
(`calm`) stands at zero, and an entry that is wrong is at least as old as that
clock shows. `ForecastAgesTold` and
`ProviderBudgetKept` follow from `WeatherInvariant`. For the first, a request that
has a viewport to itself and has missed finds nothing there but what is too old.
For the second the history `calls` records of each call its window and its place in
it: windows do not overlap, a place is given once, and a call is made no later
than `MaxDelay` after its window (`CallsOK`); the calls of a minute then fall in at
most two windows, and are counted by mapping them one to one to their places.

## 10. Logs and reminders

`AuditLog` is both logs (`logKind`). `StartCall` and `WriteEvent` with one retry are
an external call, dated at its start; `CreateAPIKeyAuditLog` is a use of a key,
dated when it is written; `DeleteKeyLogs` goes with a key. A cleaner is
`DeleteExpired`, `CountRows`, `Pluck`, `Trim`, each of which may fail.
`RestartsAndLogs` (2 cleaners, cap 1, 3 rows, 1 failure) shows `TrimIsExact`: a
trim leaves above the cap only rows written since the count (`TrimIsEnough`), and
what it takes is older than `Cap` rows that stay (`NewestKept`, for workers whose
count no other deletion has overtaken; one that was may delete newer rows). And
`CapHoldsInTheEnd`: once rows stop coming the log ends within its cap, under weak
fairness of each cleaner, which its ticker justifies, and because failures are
bounded.

`Reminders`: `ReadReminderTime`, `SelectDue` and `Dispatch` are a poll, one step
for each database call; schedules, markers' places and the reminder time change in
between. `LoggedWhenDue`: a row says on which day and in which window it was sent,
and that is so (`LoggedOnItsDay`, `LoggedInWindow`). A window past midnight
belongs to the day on which it ends, and is reminded of that day's schedules;
polling twice dispatches twice, since the log is written with an upsert and not
asked. Days of three ticks with a window of two reach a window past midnight;
times and zones are two each.

`LogProofs` proves `TrimIsExact` (`TrimsAreExact`) for any cap, rows and workers,
and `LoggedWhenDue` (`RemindersWhenDue`) for any days, windows, users and polls.
`AuditInvariant` says what a worker that has counted or selected rows knows of the
table as it has become since: at most the excess and what was added (`added`) is
left, and while nobody else deletes, each selected row is older than `Cap` rows
that stay. It counts with the cardinalities of finite sets of rows, which ids map
one to one into a range. `ReminderInvariant` says that each item a poll has still
to log was due at the time it was served, and `WindowIsSince` that the window,
which wraps around midnight, is about the time since the reminder time of that day
or the day before. `CapHoldsInTheEnd` is only model-checked.

## 11. Pins, groups, release notes and stations

`TypePins` (in `Catalogue`: 1 pin, 1 type, 2 requests, 4 images): `Create` or
`ReadRow` and `SaveDrawable` commit a row, `ListOthers` lists the other table,
`CreateTypePin` draws one pair at a time, `DrawingFails` ends the loop.
`ImagesAgree`: of two administrators who add a pin and a type at the same time at
least one sees the other's row (`PairsCovered`), and what a request has drawn
undisturbed stays the image of the pair until one of the two is edited
(`SettledIsCurrent`). Pairs that a failed loop left out are excepted: a pin
without an image stops the drawing of every type after it
(`type_pin.go:69`), and groups are refused after the pin is committed.

`PinGroups` (in `Catalogue`: 2 pins, groups, names and requests): assignments check, erase and
add under read committed. `AssignmentsAgree`: a pin is shown in one section
(`ShownOnce`), but for pins assigned twice at the same time, which do end in two
groups; a deleted group has no assignments (`DeletedGroupHasNoPins`), but for
those of requests that had it in hand. The name of a deleted group stays taken.

`ReleaseNotes` (in `RacesAndNotes`: 2 notes, 2 requests): reads and whole-row saves of
administrators, of the listing that publishes legacy rows, and of the script.
`DecisionKept`: no listing or script undoes an administrator's decision, but by a
row saved from a copy that was read before it. `LatestIsGreatest`: for every
order in which the table may be read, `GetLatest` returns the greatest version
by the rules of semantic versioning (`Precedes`, stated independently of the
code's comparison). Ids are used again for deleted notes that no request holds.
A note whose stored state is empty is shown.

`Stations` (in `Catalogue`: 2 maps, 1 station, 2 lines and names, 2
requests): upserts, edits by integrations, the catalogue of lines, renamed and
removed maps, restarts that seed maps. A transaction is a sequence of
statements, and each reads what others have committed by then (read committed):
to give a station its lines is `UpsertTrainStation` or `UpdateTrainStationLines`,
`EnsureLine` for each name, `DeriveColumn`, `CommitLines`; to save a catalogue,
`ReadCatalog`, `EraseStops`, `RebuildLineInfo`, `CommitCatalog`; to rename a map,
`ReadMap`, `MoveStations`, `RenameTrainStationMap`; to remove one,
`CountStations`, `EmptyMap`, `RemoveTrainStationMap`. What a transaction has
written is in `editing` until it commits. The only locks are those on the
stations it has written (`Unlocked`); the database also locks lines, stops and
maps that were written, so it admits fewer overlaps than the model, never more.

The code locks nothing that it reads, and the tables have no foreign keys. So a
catalogue saved between another request's look-up of a line and its insertion of
the stop (`train_station_admin.go:53`, `:96`) leaves a stop at a line that is
gone, and a column computed before it and written after it (`:111` from `:178`,
then `:187`; the same at `:429` and `:439`) keeps the old name of a line. Both are reachable in the model.
`Noticed` records it: when a step changes what another request has read or is
about to write (`InHandKept`), that request is `overtaken`, and the stations it
writes are `torn`, the map it fills or removes `stray`, when it commits. A
station is whole again when a request that nobody overtakes sets its lines.

- `LinesAgree`: for a station that is not torn, the derived column is what the
  relation says (`LineInfoDerived`), and its lines are in the catalogue of its
  map (`LinesOfOwnMap`). Torn are those written by an overtaken request, by one
  that saves a line_info of its own, and those left behind by a seed. Overlap
  alone is no exception: what is said is that requests which leave each other's
  rows alone may run in any order of statements.
- `NothingOfDeletedMap`: a removed map has no stations and no lines, but for stray
  ones: a station created between the count and the removal stays, and a map that
  is seeded after its removal has stations again. Listing the maps then fails,
  for the name is taken.

`Narrow` is the bound of this part: two requests overlap only while there is one
line and one name of a map at most, each looks up or makes at most one line, and
nothing is torn or stray; otherwise one request at a time is served. All actions
fire under it, and a stop at a removed line and an outdated column are reached,
at stations that are then torn. The proofs need no such bound. Also visible:
nothing but the upsert keeps identifiers unique on a map; a new seed drops the
lines of stations that an administrator has added to its map.

`CatalogueProofs` and `NoteProofs` prove all of these for any numbers of rows and
of requests.

- `ImagesCorrect` is `ImagesAgree`. The inductive invariant (`PinInvariant`) adds
  what a request knows: one that counts as alone is the only one at work
  (`AloneIsOnly`), what it has read is still so, and of the rows that are there it
  has drawn those that it has not still to draw (`AloneIsCurrent`); and no pair
  that anyone is about to draw counts as drawn undisturbed (`DrawnIsUnsettled`).
- `GroupsAgree` is `AssignmentsAgree`. `GroupInvariant` adds that of the
  assignments of a pin that did not run at the same time one is being written, and
  it has seen all rows that the next replaces (`InTurn`); and that a group that is
  gone, or is about to go, has no pins and nobody who has it in hand (`Left`).
- `StationLinesAgree` and `RemovedMapsAreEmpty` are `LinesAgree` and
  `NothingOfDeletedMap`. `StationInvariant` adds what a request knows in the
  middle of its transaction, as long as nobody has overtaken it: the names of the
  lines it has looked up and the stops it has erased (`KnowsLines`), the rows of
  the catalogue it saves and the columns it has computed (`KnowsCatalog`), that
  the map it fills is live, that the map it removes is empty, and that the row it
  saves is the one in the table (`KnowsMap`). `InHandStays` shows once that a step
  which changes nothing of what a request has in hand changes nothing it knows,
  so each action is proved for its own request and for the tables only.
- `DecisionsHold` is `DecisionKept`; the invariant adds that the legacy notes that
  a listing has in hand had no state (`TodoOK`).
- `LatestNoteIsGreatest` is `LatestIsGreatest`. It rests on `CompareAgrees`: the
  code's comparison of two versions says which comes first by the rules of
  semantic versioning, for versions with any numbers and with pre-releases of
  any length; and on what `GetLatest` keeps along a list in whatever order.

Nothing here happens on its own, so there is no liveness to state.

## 12. What is not modelled

- Calendar: formatting, metrics, encryption of tokens, the provider registry.
- OIDC and LDAP, apart from what a login does; the OIDC state is read once.
- Rendering of exports: an outcome in `OfflineExport`.
- The weather snapshot of a schedule, the preview pin of a user, train records of
  a relation, settings: a value that is set and read.
- Cleanup jobs of administrators are rows that nothing executes.
- Travel times and route previews, scrapers, movies, web pages: parsing and
  calls to other services.
- The GraphQL layer, seeds of fixed data and configuration. The generated
  executor alone, `graph/generated/generated.go`, is more than a third of the
  lines of the repository, and has no state.

`PROJECT.json` gives every part its status, and lists the hazards with the
properties that cover them.
