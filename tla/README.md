# A verification of the real-estate backend

This directory holds TLA+ models of the multi-tenant real-estate backend in
`src/src/app` (FastAPI, PostgreSQL, Redis, Celery), the TLC configurations that
check them on small instances, and proofs, checked by TLAPS, that hold for every
instance.  Paths below are relative to `src/src/app` unless they start with `src/`.

Contents: 1 the system · 2 inventory · 3 what is modelled · 4 runs and bounds ·
5 fairness · 6 what is proved · 7 findings · 8 what is not modelled · 9 plan

## 1. The system

The program is a modular monolith.  A request runs in one PostgreSQL
transaction, at READ COMMITTED, and may register callbacks that run after its
commit (`core/database.py:81-112`).  Everything asynchronous is a Celery task on
a Redis broker: tasks enqueued by those callbacks, and sweeps started by Beat
(`workers/celery_app.py:117`).  A task opens its transactions through
`workers/db.py`, one per tenant for a sweep.  Tasks are acknowledged late
(`workers/celery_app.py:86`), so the broker delivers at least once;
`task_reject_on_worker_lost` is not set, so a task whose pool process dies is
acknowledged all the same.

What is hard in this code is therefore not in any one function.  It is what
several transactions, tasks and sweeps do to the same rows between one another's
reads and writes, and what is left when one of them stops half way:

- most reads take no row lock, and the ORM writes back only changed columns: a
  transaction may decide on a row that another has changed since;
- some sweeps select due rows and work on them without a lock, and may overlap;
- a callback after the commit can be lost, with its process or with the broker;
- a task works in several transactions, and on objects, portals, receivers and
  mail servers that no transaction covers;
- Redis holds what no transaction rolls back: tokens, locks, counters, caches;
- the provider of payments, the broker and the clients all repeat themselves.

## 2. Inventory

Each component: the state it keeps, what it does, whom it meets, what makes it
right.  "M" is modelled, "P" modelled in part, "-" not modelled.

| | component | state | operations | correct means |
|-|-|-|-|-|
| M | outbox relay (`core/events.py`, `workers/tasks/outbox.py`, `workers/db.py`) | `outbox_events` rows, claims, post-commit callbacks | emit, drain, retry, park | every committed event is settled once; its handlers' work is committed with it or not at all |
| M | outbound webhooks (`modules/webhooks`, `workers/tasks/webhooks.py`) | endpoints with a failure counter and a breaker, delivery log, queued tasks | CRUD, fan-out, deliver, retry | no delivered row is posted again, the breaker counts every failure, every pending row has someone to attempt it |
| P | listing media (`modules/media`, `workers/tasks/media.py`) | rows, private and public objects, queued tasks | presign, confirm, embed, cover, delete, process, clean up | rows and objects agree, uploads are settled, quotas hold |
| P | usage counters (`modules/tenants/usage.py`) | one row of counters per tenant | reserve, release, adjust | counters equal what is held |
| P | tenant lifecycle and billing (`modules/tenants/service.py`, `billing.py`, `workers/tasks/tenants.py`) | tenant status and deletion date, subscription, event log | suspend, activate, offboard, cancel, webhooks, dunning, trial and purge sweeps | events applied once, access follows payment, nobody who paid is purged, due ends arrive |
| M | domains and settings (`modules/tenants`) | domains, primary flag, settings object | add, remove, verify, replace a key | one primary domain, no accepted setting is lost |
| P | tenant resolution cache (`modules/tenants/service.py:100-167`) | one Redis entry per domain | resolve, invalidate, expire | a stale entry has a known cause and an end |
| P | listing lifecycle (`modules/listings`) | listing status, stale flag | create, duplicate, edit (no lock), transition (row lock), delete, flag stale | the plan's counter is exact; what is enqueued matches what was committed |
| M | syndication (`modules/syndication`) | a row per listing and portal: remote id, breaker | push, update, remove, re-push, retry | an unpublished listing leaves the portals, in whatever order syncs run |
| M | appointments (`modules/appointments`) | availability, appointments, reminder stamps | book (advisory lock), transition, replace the schedule, remind | no double booking, one schedule, one reminder per window |
| P | leads (`modules/leads`) | contacts, leads, activities, drip state | capture and merge, assign, stage, drip, escalate | each drip step once, every lead reaches somebody, what was erased stays empty |
| M | idempotent requests (`core/idempotency.py`) | a Redis key per request key | lock, renew, store, replay, fail open | one execution per key while the lock lives |
| P | sessions and login (`modules/auth`, `core/lockout.py`) | refresh families, Redis counters and tokens | login, second factor, refresh with reuse detection, revoke, reset, lock out | a burned family is dead, guesses are bounded |
| P | users (`modules/users`) | accounts | disable, enable, delete, change role | an administrator remains, access ends with the role |
| M | permissions and routes (`core/permissions.py`, `main.py`, `modules/*/router.py`) | roles, tokens, teams, owners | every route | nobody acts beyond their role and reach |
| P | deals (`modules/transactions`) | deals, milestones, commission | stage (row lock), edit, commission, remind | commission agrees with price, a stamp means a reminder |
| P | saved-search alerts (`modules/favorites`) | searches with watermarks | instant match, digest, edit | no match skipped, none mailed twice |
| P | notifications (`modules/notifications`) | notices, preferences, send log | notify, deliver, read, erase | sent as committed and as wanted |
| P | compliance (`modules/compliance`) | erasure requests | request, purge after 30 days, retention | erasure complete, who returns is spared |
| P | agents and reviews | profile photo and its objects; testimonials | upload, process, moderate | photo and objects agree, a decision stands |
| P | blog, guides and reports (`modules/blog`, `content`, `core/cache.py`) | posts, report PDF, page versions, cached reads | publish, sweep, render, read | what is taken down stays down, readers see the current page |
| P | valuations and analytics | estimate forms; events, rollups, partitions | complete, ingest, roll up, prune | one lead per form, figures equal what they summarise |
| P | request plumbing (`core/rate_limit.py`, pagination) | a window per caller; cursors | count, page | no window overfull, a walk is complete |
| P | row-level security and schema (`core/rls.py`, `src/alembic`) | `app.tenant_id` on pooled connections; tables and foreign keys | statements; migrations, cascades | no statement leaves its tenant; a version has one schema |
| - | external clients, observability | - | - | section 8 |

Interactions.  Services call one another through boundaries in the same
transaction (a booking mints a lead, a lead emits an event).  Events reach the
notification and the webhook handlers through the outbox.  Callbacks after the
commit enqueue media, webhook, syndication and alert tasks and invalidate the
tenant cache.  Sweeps read the tenants that are not suspended and then work
tenant by tenant, so the tenant lifecycle gates everything asynchronous.

The behaviours that are hard to test are listed, each at its line, under
`hazards` in `PROJECT.json`, with the properties that cover them.

## 3. What is modelled

Data is abstracted to what the properties tell apart; control is kept: every
guard, early return, error path, lock and commit is a guard, a disjunct or an
action.  The comment at the head of each module says what it leaves out.
Operators named after a function of the code are that function; an operator
introduced as a slip or a mutation is a variant of the next definition that a
plausible bug would make of it, used to show that a property can fail.

Three conventions recur.  A transaction is a value in a variable (`request`,
`tx`, `sweep`): what it has read and means to write.  It begins with its reads,
holds row locks only where the code says `FOR UPDATE` or has flushed a write,
and commits in a later step, so that other transactions commit in between.  A
sweep is the same without a lock.  And a few history variables (`overlapped`,
`overtaken`, `doubled`, `outages`, ...) remember which mishap or overlap has
happened to which row, so that an invariant can name exactly what excuses a
deviation, and forbid it otherwise.

### Outbox, DurableEvents (`core/events.py`, `workers/tasks/outbox.py`, `workers/db.py`)

`outbox` holds the committed rows (status, attempts, whether `next_attempt_at`
has passed); `claim`, `left`, `ran`, `staged` and `outcome` are one relay's open
transaction: the rows it locked, those it has not reached, the open savepoint,
the work it will commit and the results it will write.

| action | code |
|-|-|
| `Emit` | `emit_event`, committed with its producer |
| `StartTick`, `NextTenant`, `EndTick` | `relay_outbox`: the tenants not suspended, one scoped transaction each |
| `Claim` | the `FOR UPDATE SKIP LOCKED` select of `drain_outbox`, with its limit |
| `ParkUnhandled`, `HandlerSucceeds`, `HandlerFails` | the loop body, its savepoint and its `except` |
| `Commit`, `RunHook` | the end of the scoped transaction and its callbacks |
| `Crash` | death of the worker, or a failed commit |
| `Suspend`, `Reactivate`, `BackoffElapses` | the tenant's status, the clock |

`DurableEvents` is the promise: pending events are settled at most once, a
delivered one with the work of all its handlers, a failed one with none.
`Outbox!Implements` is the refinement (`status` is the row's status, `applied`
is itself; one commit of a batch settles all its rows at once).

### Webhooks (`modules/webhooks/service.py`, `workers/tasks/webhooks.py`)

A task is a worker's `pc`: `start`, `locked` (delivery row), `post` (endpoint row
too), `record`, `done`.  Row locks are read off those.  `broker` keeps a task
until it is acknowledged, so `Take` may hand it out twice (bounded by
`MaxRedeliveries`), and `Crash` keeps it, drops it, or keeps the retry it was
publishing.  `DeleteEndpoint` and `Cascade` are the two lock acquisitions of a
DELETE; with `LockDelivery` and `LockEndpoint`, which go the other way, they can
wait on one another, and `ResolveDeadlock` is PostgreSQL aborting either side.
`Dispatch` is the fan-out as it looks from here: committed and enqueued,
committed and not enqueued, rolled back and enqueued.

### MediaPipeline, AgentPhotos (`modules/media`, `modules/agents`, `workers/tasks/media.py`, `agents.py`, `images.py`)

In `MediaPipeline`, `row` is the table, `docs` the originals in the private
bucket, `bucket` the variants in the public one, `usage` the storage counter.
Requests that lock are one action, except the presign request, whose count and
insert are two (`BeginUpload`, `FinishUpload`) under the listing's lock.
`process_media` is eight steps, because nothing of it is locked: `Snapshot`,
`Load`, `Derive`, `SelectForReady`, `MarkReady`, and `Reject`, `SelectForFailed`,
`MarkFailed`.  `Mishap` budgets what the world does: an infrastructure error
(`Fault`, which retries), a death (`Crash`), a lost enqueue, a task that runs
twice at once, a failing deletion of objects.  `delete_media_objects` removes the
original first and then the variants (`RunCleanup`); it may fail or die on the way,
is retried a bounded number of times, and `FailCleanup` is a run that stops there,
to be made again or as the last (`cut`).

`AgentPhotos` is the same idea for a profile: a photo is replaced wholesale
(`RequestUpload`, `Put`, `ConfirmPhoto`), old objects are deleted by a callback
(`CleanUp`, `FailCleanUp`), and a run is `Snapshot`, `Fetch`, `Derive`, `Load`, `Mark`,
`Discard`.  Its variants are stored under a digest of their content, so one
image sent twice has one set.

### TenantLifecycle (`modules/tenants/billing.py`, `service.py`, `workers/tasks/tenants.py`)

A transaction `tx[p]` is what it is doing and the rows as it read them.  It
begins with its first read, may `Load` (the second read of a webhook and of the
dunning and trial sweeps), and commits; between these steps other transactions
commit.  `Flush` is the unit of work: only the columns that differ from what was
read are written.  `Seen` is the unique index behind
`INSERT .. ON CONFLICT DO NOTHING` in `handle_webhook`.  `CommitPurge` deletes what
was listed, whatever it is now.  `overtaken` records the tenants for which a
commit rested on rows changed since they were read; `author` who wrote the
status last; `paid` who has paid since the last offboarding.

### TenantCache, Sites (`modules/tenants/service.py`, `core/tenancy.py`)

`TenantCache`: `DomainTenantResolver.resolve` as `Get`, `Query`, `Fill`; a writer
as `Write`, `Commit` and the callback `Invalidate`, which may fail; `Purge`,
which has no callback; `Expire`, the TTL.

`Sites`: `AddDomain`, `RemoveDomain`, `VerifyDomain`, the sweep `VerifyPending`,
`ReplaceSettingsKey` and `Update` each read without a lock and write at `Commit`
the columns they changed; the settings are one column.  `EditRecord` is the
owner's DNS.

### Publication (`modules/listings`, `modules/syndication`, their tasks)

A listing with its status and stale flag, the plan's counter, and one portal's
state row with its breaker.  `Create`, transitions, deletion, edits and the stale
sweep are requests; `CommitRequest` writes and enqueues what the code enqueues.
A sync is a worker: `Take`, then `Step` through the lock of the state row, the
decision, the portal call inside the transaction, the record, the commit and the
retry; `Crash` ends it anywhere.  `broker` is a set: syncs run in any order.
`portal` holds every copy of a listing there is: a POST always makes another
(`Posted`), whether or not its answer arrives (`Failed`) and its identifier is
committed (`Crash`), and the row has room for one identifier, so that the push of a
repush overwrites that of the copy before it.  `stray` remembers the copies whose
identifier was lost in one of these ways, which no withdrawal can reach.

### Leads, Contacts (`modules/leads`, `workers/tasks/leads.py`)

`Leads`: `Create` captures, assigns and announces; `HandleLeadCreated` is the
outbox handler, which looks the agent up again; `TransitionStage` and
`RecordActivity` hold the row; `Sweep` reads the due drips, queues mail as it goes
and writes at its commit; `Age`, `FallDue` are the clock.  `Contacts`:
`Capture` (which matches by email or telephone), `UpdateContact`,
`AnonymizeSubject` and `AnonymizeLostLeads` each begin a transaction with what it
reads; `Write` or `Make` ends it, without a lock in between, and `Flushed` is the
unit of work: an UPDATE of the columns whose value has changed since they were read.
`refilled` are the erased contacts that a form or an edit had read when the erasure
committed or had filled since the erasure read them, and those staff edited later.

### Valuations, Notices (`modules/valuations`, `modules/notifications`)

`Valuations`: `UpdateDetails` and `Complete` read, `Commit` writes the columns that
changed; `Estimate` is the nearest ring with enough comparables, against the
rings as the repository counts them.  `Notices`: `Notify` in a caller's
transaction, `Commit` with its callbacks, then per channel `Deliver`, `Send`,
`Log`; the mail leaves before the log line commits.

### Appointments (`modules/appointments`, `workers/tasks/appointments.py`)

`BeginBook` takes the agent's advisory lock and derives the free slots again
(`FreeSlots`), `CommitBook` inserts; `BeginPut`, `CommitPut` replace a schedule
without the lock; `Transition` is the status machine; `BeginSweep`, `CommitSweep`
remind; `ChangeSettings` changes slot length and buffer.

### Accounts, Lockout, Erasure (`modules/auth`, `modules/users`, `core/lockout.py`, `modules/compliance`)

`Accounts`: a request is `Begin` (authenticate, read), `Flush` (statements, Redis
commands, locks), `Commit` or `Abort`; its operations are sign-in with and
without a second factor, refresh, logout, password reset, and disabling,
enabling, deleting and erasing users.  `RevokeFamily` is the transaction of its
own in which a reused token burns its family.  Redis effects survive an abort.

`Lockout`: `Check` reads the lock, `RecordFailure` counts after the password was
checked and locks what crossed its threshold, `Reset` forgets.

`Erasure`: `Register`, `Capture`, `BeginErase`/`CommitErase` (DELETE /me), the clock
`FallsDue`, and the purge as `ListDue` and `Execute`, which finds contacts by
address.

### Access (`core/permissions.py`, `modules/*/router.py`, `modules/agents/service.py`, `modules/tenants/admin.py`)

`Access` is the permission matrix, every route of the API (what it acts on, the
permissions its dependencies require, the roles its service lets in and how far it
reaches: "scope", "team", oneself, anybody, the platform) and runs them: `Begin` checks a token (its role, its place, the denylist) and reads the
row; `ForceLogout` denies the tokens Redis has tracked before a change of role
commits; `Commit` takes effect on roles, teams, owners and tokens.  Whether an
act was right is judged by the rows at that moment, and by `Business`, which says
who has anything to do with what, independently of the routes.

### RequestGuards (`core/idempotency.py`, `core/rate_limit.py`)

The two things Redis guards a request with.  One key and three attempts under
it: an attempt claims, renews, runs, stores
or releases, and its transaction commits only after the answer is stored, which
is when the framework leaves the session's dependency.  `Bypass` is Redis failing
open, `Die` the process, `Lapse` a lock whose renewal failed, `Expire` and
`Forget` the TTLs.  One caller's window of hits: `ReadClock`, then `Consume` in one
pipeline.

### Deals, Alerts (`modules/transactions`, `modules/favorites`, their tasks)

`Deals`: one deal and one milestone under requests that hold their rows and a
sweep that does not; amounts are what they were computed from.  `Alerts`: a
search's watermark, `Match` (instant) and the digest as `StartDigest` (its time),
`RunDigest` (its query and mail), `CommitDigest`.  `BeginMatch` reads the tenant and
drops the task when it is suspended; with nobody to mail to (`reachable`: a search
has no address of its own and its account is not active) `Match` passes over the
search and `RunDigest` moves the watermark all the same.  `Turn` changes both.

### Reports, Posts, Reviews, LegalPages, Paging (`modules/content`, `blog`, `reviews`, `core/cache.py`, repositories)

`Reports`: `Snapshot`, `Upload`, `SelectForReady`, `MarkReady`, `Discard` of the
rendering task against publish, unpublish and delete, and `CleanUp` or `FailCleanUp`
of the object.  `Posts`: requests and
sweep without locks.  `Reviews`: `Ask`, `Lock`, `Moderate`.  `LegalPages`:
`Select`, `Lock`, `Insert` with the two partial unique indexes, and the versioned
cache as `ReadVersion`, `Get`, `Load`, `Set`.  `Paging` walks a list with a cursor
while rows move; the orders of all paged repositories are operators of it.

### Analytics (`modules/analytics`, `workers/tasks/analytics.py`)

`Ingest` under consent and `CommitIngest`, into the partition of the day; `Start`,
`Count`, `CommitRollup` of the nightly run; `EnsurePartitions`,
`PruneRawEvents`; `Midnight`; `TransitionStage`, by which a lead of any day enters or
leaves "won", whenever it likes (`hadWon` are the numbers of wins a day has had).

### Isolation, Schema (`core/rls.py`, `core/database.py`, `workers/db.py`, `src/alembic`)

`Isolation`: a pooled connection carries what its last transactions left;
`Begin` sets the tenant for one transaction, `Statement` names any rows there
could be and the policy filters them, `End` restores PostgreSQL's leftover, an
empty string.  `Schema`: every revision's `Up` and `Down` as table, column and key
statements; `Upgrade` and `Downgrade` are one transaction each, which stops
at the first script that fails and is then rolled back.  0025 leaves that transaction:
`StartIndexes` commits the revisions before it, `BuildIndex` builds each index by
itself, and the transaction after it, `EndIndexes`, writes its version.  On the way down
`StartDrops` and `DropIndex` come first, and `EndIndexes` takes the version away together
with the downgrades below it: when one of these fails, or the run is cut, the version is
still 0025 and the indexes are not there.  `Delete`, `Cascade`, `EndDeletion` are a delete and the order in
which PostgreSQL works off the foreign keys.

### Content, Services, Agency, Enquiries, Gallery

Five modules that compose parts which share a run.  `Content` is Publication with
Reports, Posts and Reviews; `Services` is TenantCache with RequestGuards, Deals,
Alerts, LegalPages, Paging and Isolation; `Agency` is Accounts with Lockout, Erasure,
Sites, Analytics, Schema and Access; `Enquiries` is Appointments with Leads, Contacts,
Valuations and Notices; `Gallery` is MediaPipeline with AgentPhotos.  Each part is an `INSTANCE`; `part` (`about` in
Agency), chosen at the start, says which one moves.  Their constants stay parameters,
so that the proofs about the compositions (section 6) hold for every instance.

## 4. The runs

`MC*.tla` instantiate the modules, `MC*.cfg` give the constants and name the
properties; `MCPublication.cfg`, `MCServices.cfg`, `MCAccounts.cfg`, `MCLeads.cfg` and `MCMedia.cfg`
give those of Content, Services, Agency, Enquiries and Gallery themselves (values that no
cfg can write stand at the end of Agency, Enquiries and Gallery).  Sizes are those of complete searches.  Six runs hold several parts:
a variable (`part`, `about`, `menu`) chosen at the start says which part moves, the
variables of the others stay put, and each property says what it asks of which
part.  The parts never share a behaviour, so the search is the sum of theirs.

| run | cfg | instance | states | shows |
|-|-|-|-|-|
| outbox_safety | MCOutbox | two relays, one tenant, a batch of two events, one with two handlers, three attempts, a crash | 672 k | `AppliedExactlyOnce`, `CallbacksLostOnlyByFailure`, refinement |
| outbox_liveness | MCOutboxLive | two tenants that may be suspended, an event nobody consumes, batches of one | 29 k | `EventuallySettled` |
| webhooks | MCWebhooks | two deliveries to one endpoint, two workers, breaker at two, one retry, one crash, one redelivery, one admin request | 597 k | the breaker counts, no post after delivered, `PendingIsAccountedFor`, `QueueDrains` |
| media | MCMedia | two uploads, one larger than declared, two workers, one mishap, quota of one photo; or an agent's photo uploaded twice | 661 k | quota, `StuckOnlyIfAbandoned`, `LeaksOnlyWhenCutOff`, `ImagesAreThere`, `EventuallyProcessed` |
| tenants_safety | MCTenants | one tenant, one event of each kind, two transactions at once, one rollback | 1.28 M | `EventExactlyOnce`, `AccessFollowsPayment`, `PurgeSparesUnlessOvertaken` |
| tenants_liveness | MCTenantsLive | one tenant, a failed payment, two transactions at once | 84 k | `DunningConcludes`, `PurgeConcludes` |
| tenants_paid_purged | MCTenantsPurge | one tenant, one payment | - | finding 1 |
| publication | MCPublication | two listings, a plan for one, two requests and the sweep, two sync workers, one fault; or a report, a post, a testimonial | 665 k | `UsageCountsListings`, `ContentIsExplained`, `WithdrawalConcludes` |
| leads | MCLeads | one lead, two agents, two overlapping sweeps of two mails; or two contacts and two transactions over them; or a form; or a notice; or one visit | 673 k | `RepeatsAreExplained`, `LeadReachesSomeone`, `ErasedStaysEmpty`, `FormsAndNoticesAreSound` |
| appointments | MCAppointments | two visits, two requests, two sweeps, five instants | 3.52 M | `NoDoubleBooking`, `ScheduleIsOneDocument`, `RemindersInOrder` |
| accounts | MCAccounts | two administrators, two requests at once, four in all, and four sessions; two sign-ins; an address under three erasures; domains and settings; three days of visits; four runs of Alembic; three requests in four roles | 1.89 M | `BurnedFamilyIsDead`, `SomeAdministratorRemains`, `AccessIsGuarded`, `ErasureSparesWhoReturns`, `TenantDataIsKept` |
| services | MCServices | a cached tenant; three attempts under a key; five hits; a deal; a saved search; a legal page; a walk over three rows; two connections | 313 k | `RequestsAreGuarded`, `StaleIsExplained`, `DealsAreSettled`, `AlertsAreExplained`, `ReadsAreSound`, `StaleEnds`, `ClientIsAnswered` |

The properties of the parts are conjuncts of the runs' properties:
`ContentIsExplained` is Reports' `ReadyHasItsPdf`, Posts' `PostsAreSound` and
Reviews' `DecisionStands`; `FormsAndNoticesAreSound` those of Valuations and
Notices; `ImagesAreThere` those of MediaPipeline and AgentPhotos;
`AccessIsGuarded` is Lockout's `GuessesAreBounded` and Access's
`ActsAreExplained`; `TenantDataIsKept` is Sites' `SitesAreKept`, Analytics'
`AnalyticsIsSound` and Schema's `SchemaIsSound`; `RequestsAreGuarded` is
RequestGuards' `EffectsAreExplained` and `NoWindowOverfull`;
`ReadsAreSound` is LegalPages' `ReadersSeeTheCurrentPage`, Paging's
`WalkIsComplete` and Isolation's `TenantsAreIsolated`.

Why the bounds are enough.  Each hazard needs two of something: two relays for
one row, two workers on one endpoint, two runs of one task, two transactions on
one row, two sweeps; a third adds no new pair.  Where a third party matters there
are three: three attempts under a key (one that lapses, one that runs again, one
that finds its answer), three requests in four roles (a demotion between a
sign-in and the act it allows), three erasures of one address.  Counters go past
their thresholds (attempts 3, breaker 2, retries 1, quota 1 with two uploads,
plan 1 with two listings, lockout 2 and 3 with six failures), and one mishap is
enough to reach every error path from every step.  Clocks pass the ends that
matter: the trial, a grace period and an offboarding; both reminder windows
(`Horizon`, `Day`, `Hour`); a month end and the retention of raw events
(`MonthDays`, `RAW_RETENTION_DAYS`).  Bounds of the model that the code does not
have are constants whose names begin with `Max` (`MaxCrashes`, `MaxSuspends`,
`MaxRedeliveries`, `MaxRequests`, `MaxMishaps`, `MaxFaults`, `MaxAborts`,
`MaxTime`, `MaxChanges`, `MaxLost`, `MaxPuts`, `MaxSettings`, `MaxForms`, `MaxEdits`, `MaxSearchEdits`,
`MaxFailures`, `MaxOutages`, `MaxErasures`, `MaxEvents`, `MaxDay`, `MaxMoves`,
`MaxCuts`, `MaxVersions`), and `Horizon`; `MaxAttempts` and `MaxRetries` are the
code's own.

Deadlock is checked in the outbox runs, whose system never stops.  The others
may stop: when every delivery, upload or sync is settled and no request comes,
or when a clock or a bound has been reached.

`AccessFollowsPayment` deserves a word.  It holds outside `overtaken`, and the
set is drawn tightly: the trial sweep reads the subscription after the tenant
and decides on that, so a payment that commits between its two reads does not
count as overtaking it, and the property shows that it keeps the tenant open.

## 5. Fairness

- A live worker or relay takes its next step, and an idle one takes a task that
  is queued: weak fairness per process (outbox, webhooks, media, syndication).
  Celery prefetches and runs; nothing in the tasks waits on another process except
  for row locks, which their holders release by committing.
- A request that began ends: weak fairness (tenant cache, publication).
- Beat starts a tick or a sweep again and again: weak fairness for the relay and
  the leads' sweeps, and strong fairness for the tenant sweeps, since the model's
  two processes may both be busy at any given time while the real worker pool is
  larger and Beat repeats at its next hour.
- The relay applies the events of a lead (`HandleLeadCreated`; this is what
  `EventuallySettled` shows of the outbox), and a lead grows old enough to escalate.
- The client of an idempotent request tries again until it is answered: that is
  what the key is for; a lock that nobody renews reaches its TTL.
- The database ends a deletion and breaks deadlocks; the clock reaches
  `next_attempt_at` and the end of a TTL.
- Nothing makes a client, a producer, an administrator or the payment provider
  act otherwise, a handler, portal or receiver succeed, or a crash happen or not
  happen.

In a run of several parts fairness is assumed of the part that moves only
(`part = "listing" => Fairness`).  No liveness property depends on a step being
tried infinitely often with luck: retries are bounded, and what gives up is named
in the property (`abandoned`, `exhausted`, `overtaken`, a recorded failure).

## 6. What is proved

TLAPS checks these for all values of the constants that satisfy the assumptions.
The modules' own: `OutboxAssumption` (the registry is a function to sets of
handlers, attempts and batches are positive), `WebhooksAssumption` (every delivery
has an endpoint, the threshold is positive), `MediaAssumption` (finitely many
photos, each with a size), `LifecycleAssumption` (events have a kind and a tenant),
`PublicationAssumption` (finitely many listings), `AppointmentsAssumption` (slots
have a length, windows of a schedule end after they begin), `AccountsAssumption`
(there is a user, sessions belong to users), `CacheAssumption`.  The proof modules add,
for the parts of a composition: `KeyAssumption` (finitely many attempts),
`RateAssumption` (the window is positive), `DealAssumption` (there is a price and a
first day), `PagingAssumption` (finitely many rows, whose identifiers and sort keys
are numbers; pages are not empty), `LegalAssumption` (finitely many publishers),
`TenantsAreUuids` (no tenant is NULL, the empty string or the platform),
`LockoutAssumption` (finitely many sign-ins at once, thresholds are positive),
`RolesAssumption` (the users, teams, roles and tokens there are at first are of their
kinds), `SiteAssumption` (the tenant's first domain is one), `FigureAssumption` (months
have days, raw events are kept for at least one), `SchemaAssumption`, `LeadAssumption` (the sequence has a
length, "absent" is no stage), `FormAssumption` (the comparables that are enough are a
number), `NoticeAssumption` (finitely many workers), `PhotoAssumption` (Gallery's: a picture is
not a bad one), and `ContactAssumption`, `ErasureAssumption`,
`AlertAssumption`, `ReviewAssumption`, `PostAssumption`, `ReportAssumption`.  What these
say besides is that the placeholder for "nothing" is no value of the kind it stands
in for.

**`OutboxProofs`**: `TypeCorrect`, `ExactlyOnce`, `FailedIsExhausted`,
`CallbacksAccounted`, `TerminalStable`, `Refinement`.  `AppliedExactlyOnce` is not
inductive: a commit could apply an event twice, or part of it.  The strengthening
`IInv` adds `ClaimInv` (relays hold disjoint claims of pending rows: what
`SKIP LOCKED` gives), `BatchInv` (outcomes are recorded for exactly the rows
processed, the open savepoint belongs to a row not yet processed, and what is
staged is all the work of the rows recorded as delivered and nothing else: what
the savepoint gives), `OutcomeInv` and `UnhandledInv` (what an outcome says about
attempts and handlers).  Each action preserves each part; `Commit` turns
`BatchInv` into `AppliedExactlyOnce`.  The refinement follows from the same
invariant: a commit is one `Settle` of the rows it delivers and fails, `Emit` is
`Produce`, every other step stutters.

**`WebhooksProofs`**: `TypeCorrect`, `BreakerCounts`, `EndpointThere`,
`NeverPostedAgain`, `BreakerStops`, `AdminCloses`, `PendingAccounted`.  They rest on the row locks.
`LockInv` says that a locked delivery or endpoint row has one holder; therefore
what a task read of it is still so when it writes (`ReadInv`), so that no failure
is lost and the breaker it found closed is closed.  That an endpoint is not
deleted under a task follows from the foreign key (`KeyInv`), from the fact that a
queued task is for a dispatched delivery (`QueueInv`) and from the cascade's
waiting for the delivery's lock.  `PendingIsAccountedFor` needs `DoneInv`: a task
about to be acknowledged has settled its delivery or asks for a retry, which is
queued or counted as exhausted.

**`TenantLifecycleProofs`**: `EventsExactlyOnce`, `PaidIsOpen`, `PaidIsSpared`.  A commit could apply an event
that is recorded already; `EventInv` adds that the event of every open transaction
is its alone and not recorded, which is what the unique index gives (`Seen`).
Access and purge need two more facts.  `FoundInv`: the dunning sweep found its
tenants past due, the trial sweep found them on trial, the purge found a deletion
date; at a commit that has not been overtaken these are the rows that `Flush`
writes (`CommitWrites`), so each of the four commits leaves the tenants it worked
on right (`CommitKeeps`).  `SparedInv`: a payment takes the deletion date away, so a
purge that still deletes who has paid decided on a row that has changed.

**`MediaPipelineProofs`**: `TypeCorrect`, `QuotaKept`, `NothingIsStuck`,
`NothingLeaks`, `VariantsStay`, `ImagesStay`.  The quota rests on the presign request that holds the
listing's lock: what it counted still bounds the photos when it inserts its own
(`CountInv`), for nothing but a task that ran twice makes a photo of what was none.
`QueuedInv`: a processing row's task stays queued until it is acknowledged, or is
given up.  `LoneInv`: a row no task of which ran twice has one task and one worker,
and only that worker takes it out of processing.  `BucketInv` says whose each variant
is: listed by a row, about to be, about to be removed, or left by what was cut off;
`VariantInv` that what a row is about to list is there; `CleanupInv` that callbacks
remove objects of deleted rows only, as often as they are tried.  For the photo of an agent, `KeyInv` says that a key
to be deleted is no longer on record, and that a photo being processed has one (the
`assert` of `_snapshot`); `SentInv` that what a run works on was sent under its key.
Outside `crossed` there is one run at most, a photo with a run is processing, and what a
row shows or a deletion names was sent under its key (`AloneInv`); if no image was sent
twice, none of these takes the variants of another, which therefore stay (`StoredInv`).
`WholeInv`, if nothing was cut off: every variant stored is shown, held by a run or to be
deleted, and a photo being processed has its task.

**`PublicationProofs`**: `CounterIsExact`, `ContentExplained`.  A deletion gives back one
slot, so what it deletes must still be there when it commits: `HolderInv` says that
a locked listing has one holder and stays until it commits.  Edits and the sweep
hold nothing; they wait for the holders and neither insert nor remove a row.  The
cardinality is then that of a set that gains or loses one element.

`ContentExplained` is about Content, each part with its own invariant.  `ReviewInv`: a
testimonial is locked while it is decided, so what the moderator read is what is
there.  `PostInv`: nothing is locked, but what a request makes of a row follows from
the row (`Follows`: it keeps the first stamp and is dated if that was), so that what
is stored stays sound until a row is written that has changed.  `ReportInv`: of runs
that do not overlap, each renders numbers at least as new as the publication before
it (`AloneInv`), and an object belongs to a row, to a cleanup or to a run that comes
back for it (`OwnerInv`).

**`AccountsProofs`** is about Agency, and first about its Accounts: `TypeCorrect`,
`FamiliesDie`, `AnAdministratorRemains`, `TokensFollowAccounts`.  No lock is needed for either of the first two.  A burned
family is dead because of what a refresh knew when it read its token: a session of
a family burned by then was read as revoked and is refused, and any other was late
(`RequestInv`, `SentInv`, `IssueInv`, `FamilyInv`).  That an administrator remains
rests on the tokens, as long as nothing excuses it: each session's token is tracked
or denied (`TrackedInv`), so a user who is not active has none that is let in
(`TokenInv`), whoever was let in is still active (`ActorInv`), and who is about to be
disabled has been signed out (`LeavingInv`); the last administrator would have to
disable themselves, which is refused.  The first attempt at this proof failed, and
TLC confirmed why with four sessions and four requests: of two refreshes of one
token, the second sends its commands after those of a disabling request and commits
before it, and its token outlives the account.  The excuse "overlap" now names
that, and the run has the four sessions and requests it takes.

The other parts of Agency have an invariant each:

- `ReturnersSpared`.  A request that has come due has no DELETE /me under way, so
  what its purge finds by address are those who left (`DsrInv`); unless something
  was erased twice over, an account has one request and one purge holds it, and only
  while it is pending (`OnceOnly`).
- `GuessesBounded`.  The attempts that passed the check before a lock was set are
  still under way, so it is failures and attempts together that stay within the
  threshold and one attempt per process for every lock that ran out (`LockedInv`).
- `ActsExplained`.  A token shows the role of its user's row, or was overtaken, or is
  one nobody tracked (`ClaimInv`); whose role is about to change has had all tracked
  tokens denied (`ChangeInv`); what a request was allowed it may still do when it
  commits, or something came between (`AllowedInv`).  `RoutesFit` compares the
  permissions, roles and reach of every route with who has business there.
  `AccessGuarded` puts the last two together, as the run checks them.
- `SitesKept`.  A transaction that nothing overlapped commits what it made of the rows
  as they are (`Makes`).  Whatever overlaps, an id is one row's (`FreshInv`) and a stamp
  once set stays (`Later`), so that columns merged into a row do not leave it
  verified without its stamp.
- `FiguresSound`.  Leads enter and leave "won" at any time, so what a run counted is a
  number there was (`hadWon`), and no more can be said of it.  A run that is alone holds exactly what is true of the day it knows
  as yesterday, until something changes and makes that day stale; and no run is early
  enough to write a day that is counted as its today (`AloneInv`).  No month between
  today's and the last provided for lacks its partition (`EventsInv`).
- `SchemaSound`, about the 25 revisions as they are, for any number of runs of Alembic,
  and any deletion at the newest version.  *Versions.*  `Stands(s, v)` says which tables,
  policies and added columns a schema has at version `v`, and that its keys are lawful.
  `Turns` says that from every such schema a script runs through and its opposite leads
  back to the very same schema: `CreateTurns`, `GuardTurns` and `AddTurns` show it of
  each kind of statement, `Turns2` to `Turns8` of scripts that consist of such pieces, and
  `Revision0001` to `Revision0024` of each revision, 0023's way back only while no
  encrypted second factor is stored.  That `Execute` and `Migrate` compose is an induction
  over the length of the script (`ExecuteBoth`, `YieldsBoth`); `Upgrades` and `Downgrades`
  then follow for every pair of versions, and `VersionInv` is that the schema is the one
  `Built` for its version.  `IndexInv` is about 0025, which may stop between two indexes, or after the last one
  on its way down: its indexes are valid up to the one being built or from the one being
  dropped, unless a run was cut or the version is one that a downgrade has failed to leave.
  *Deletions.*  A key is `Lawful` if it leads to a table of lesser `Depth`, of which
  there are six: no key leads around in a circle, and five steps reach all that a row
  refers to (`ClosedIsClosed`).  Only the key of a deal to its owner restricts, users go
  with their tenant only, and the deals have gone before them.  In any deletion, what a
  row refers to is there or has just gone (`DeletionInv`).  When a tenant goes, so does all
  that refers to it, then the sessions and identities of its users, and the audit
  trail and the billing provider's events are what remains (`Purging`).
- `TenantDataKept` puts `SitesKept`, `FiguresSound` and `SchemaSound` together, as the run
  checks them.

**`EnquiriesProofs`**: `NeverDoubleBooked`, `OneDocument`, `RemindedInOrder` of
Appointments, each from its own strengthening of `TypeInv`, and three theorems about the
parts that Enquiries adds.

- `BookingInv`: one booking at a time holds the agent's advisory lock, and the slot it
  found free stays clear of every live visit until it inserts, because no transition
  revives a visit.  `PutInv`: unless two replacements have overlapped, the one that runs
  has read the rows that it will delete.  `MailInv`: behind every mail is the stamp that
  keeps it from being sent again, or the open sweep that is about to write that stamp.
- `ErasedAreEmpty` (Contacts).  `ContactInv`: what was emptied, unless `refilled` names it,
  has been read by no form that is still open, since matching takes an address the
  contact no longer carries, and what an edit writes to it is named when it is written.
- `RepeatsExplained` (Leads).  `Single`, for a lead no two sweeps have held: the sweep
  that holds it read the step the drip is at, every step that was mailed is behind the
  drip or in the hands of that sweep, and a lead about to be escalated never was.
- `FormsAndNotices` (Valuations, Notices).  `FormInv`: unless a row was written over
  another, the one lead shows the band of the row, and every band shown is the first
  radius with enough comparables (`BandOf`).  `Counted`: the mails of a notice that are
  sent, being sent or (while its row exists) queued are one and the doubled runs; so a
  failed run may be queued again exactly if it had not mailed or is counted.  `Traced`
  follows a channel from its task to its log line.

**`ServicesProofs`**, one theorem for each part or property of Services:

- `Isolated`.  `PolicyIsExact`: the policies show a transaction the rows of whom it
  is for, and only those.  They do so because the setting is scoped to the
  transaction (`SettingIsScoped`, `WorkIsScoped`): a connection that goes back to the
  pool names no tenant.
- `Guarded`.  `KeyInv` counts what has committed under a key, the attempts under way,
  and one more if the key would let one in: together no more than one and the
  failures of Redis, lapses and forgotten answers.  `RateInv`: the log holds every
  accepted hit that a window up to the newest can see (`LogInv`), so that the count
  taken of the log bounds each window (`WindowInv`, for every instant).
- `StaleExplained`: every step that leaves the entry behind the row says so, or has
  its invalidation on the way.
- `DealsSettled`.  `HoldInv`: who holds a row has read it as it is; `ClosedInv`,
  `CommissionInv` and `StampInv` follow.  The last must speak of completed milestones
  too, which may be reopened.
- `AlertsExplained`.  Whoever has no address, or a suspended tenant, has the listings
  set apart that were consumed meanwhile.  Under "daily" the watermark and every digest under way are
  behind each listing that was neither mailed nor set apart; under "instant" the
  listing has its task (`PendingInv`).  `OnceInv`: a listing mailed is behind the
  watermark or in the hands of the digest that mailed it.
- `ReadsSound`, three invariants.  Isolation's is `RlsInv`.  Paging's: in each of the
  four orders, the cursor's condition (`After`) is a strict total order on the rows
  and the converse of what sorts the page (`OrderIsTotal`), so a page is all rows up
  to its last and `WalkInv` holds: a row that nobody moves was returned once and is
  behind the cursor, or never and is ahead of it.  `LegalInv`: the rows are exactly
  `1..n` with `n` current (`Editions`), since an insertion whose number or flag is
  taken is refused, whatever publishers overlap; and reads that took the same counter
  began after the same announcement (`VisitInv`), so what one of them stores under
  that counter is new enough for all who look there (`CachedInv`).

Only model-checked: the liveness properties (`EventuallySettled`, `QueueDrains`,
`EventuallyProcessed`, `DunningConcludes`, `PurgeConcludes`, `WithdrawalConcludes`,
`LeadReachesSomeone`, `StaleEnds`, `ClientIsAnswered`), since fairness and `ENABLED` are
outside the prover's reach.  Every invariant and every other action property that a run
checks is a theorem.

The library's induction theorems cannot be used, since they take an operator as a
parameter.  Where a proof needs induction, it is over the numbers up to a bound and about
a set: the numbers that fail have a least one (`LeastNumber`, from the library's
well-foundedness of the naturals; `UpTo`).  Lemmas about a recursive function first show
that there is one that obeys its equation (`ExecuteRec`, `MigrateRec`).

No module declares a RECURSIVE operator.

## 7. Findings

Each is a disagreement between what the code does and what the repository says
of it, or a behaviour that a reader would not expect; all were met while
modelling, and the invariants named in section 3 and 4 hold with exactly these
causes excepted.  The first has a run that exhibits it.

1. **A tenant that has just paid can be purged** (`tenants_paid_purged`): the
   purge deletes what it listed (`workers/tasks/tenants.py:75`), while
   `billing.py:209` says it cannot.

Tasks, deliveries and objects:

- An exhausted webhook delivery stays pending (`workers/tasks/webhooks.py:70`),
  although `modules/webhooks/models.py:52` calls failed "exhausted retries or a
  permanent rejection"; and a failed delivery whose task is redelivered is posted
  again and may become delivered (`modules/webhooks/service.py:225`).
- A second run of `process_media` deletes the variants that the first published
  (`workers/tasks/media.py:122`); a deletion during the last transaction leaves
  variants behind (`media.py:109`); a photo whose task ran twice can be made ready
  after it was rejected, over the quota.
- `delete_media_objects` gives up after five retries and dies with its pool process
  (`workers/tasks/media.py:128-134`); nothing looks for the objects it leaves.
- Two runs of the report task share one key: the later deletes the PDF of a ready
  report (`workers/tasks/content.py:202`); an unpublish between the last read and
  its write is undone; numbers edited and republished under an older run keep the
  old PDF; a deletion there leaves an orphan.
- An agent who sends one image twice shares variant keys between both photos
  (`images.py:84`): deleting or discarding one removes the other's; an old run may
  write to the photo that replaced its own.
- A notice's mail leaves before its log line: a death or a user erased in between
  leaves a mail without a line, and a redelivered task mails again.
  `SendStatus.FAILED` is never written, and no type is eligible for the digest.

Sweeps:

- Overlapping lead sweeps queue a drip's mail twice, although
  `workers/tasks/leads.py:134-140` says they "cannot double-send"; the reminder
  sweep of appointments likewise.
- Overlapping blog sweeps stamp `published_at` again, and a sweep that crosses an
  unpublication re-publishes, although the task says neither can happen; two
  crossing PATCHes can leave a post scheduled without a time.
- A sweep may suspend a tenant whose payment commits between its last read and its
  commit (`billing.py:230`, `:248`); the dunning sweep clears the grace period by
  which it would find the subscription again, so that a crossing `cancel_offboard`
  leaves a tenant active and past due with no end.  Events are applied in the
  order they arrive (`billing.py:146`).
- A digest never mails what is beyond `DIGEST_MAX_LISTINGS` or commits late, mails
  twice what is published between its time and its query, and after one tenant's
  failure mails the others again.  While there is nobody to mail to, the watermark
  advances (`favorites/service.py:402-407`); an instant match that runs while the
  tenant is suspended is consumed (`workers/tasks/favorites.py:73`).
- A milestone that is moved while completed and reopened, or under a sweep, is
  never reminded of its new date.
- The figures of older days are never recomputed: a lead won later does not count
  (`workers/tasks/analytics.py:44`); overlapping rollups may write older counts.

Requests that overlap:

- A suspended tenant can stay reachable for a TTL: a request that read before the
  commit fills the cache after the invalidation.
- `replace_settings_key` and `update` rewrite the whole settings object: of two
  overlapping changes one is lost (`tenants/service.py:293`); two primary domains
  can be added; a re-verification whose lookup fails un-verifies; `activate` leaves
  `deletion_scheduled_at` (`:308`).
- Two overlapping `put_availability` leave the union of two schedules
  (`appointments/service.py:124-148`).
- An erasure writes only the columns that were set when it read them, and staff edits
  and captures write over what they have read without a lock: what overlaps an erasure
  can leave data in an erased contact (`leads/service.py:865-876`, `:1004-1014`).
- Two captures of one person may both insert, and `find_contact`'s
  `scalar_one_or_none` may then raise (`leads/repository.py:34-49`).
- Two overlapping completions of an estimate mint two leads; crossing edits of
  its details lose notes.
- Two overlapping administrators can disable one another, and DELETE /me lets the
  last one erase themselves; an overlapping disable and confirmation of a second
  factor can leave a secret stored but off.
- A refresh of a token that sends its Redis commands after those of a disabling
  request and commits before it leaves the disabled user a token that is let in
  until it expires: `get_current_user` reads the denylist only.
- The idempotent answer is stored before the transaction commits (FastAPI 0.139,
  `src/uv.lock:763`, leaves a dependency with yield after the response): an answer
  may be replayed for work that was rolled back, and a stale renewal can cut a
  stored answer's TTL.

Rules and data:

- A commission is not derived again when the price is edited
  (`transactions/models.py:49`); "Relisting ... clears the close stamps" is a
  branch no transition reaches.
- A repush POSTs a second copy of a listing and its identifier replaces the first's; a
  POST that timed out after the portal took it is sent again
  (`syndication/service.py:157-176`, `mock.py:83-88`).  The copy whose identifier
  is lost stays on the portal after every later withdrawal.
- A listing withdrawn keeps its portal identifier, so that a re-publication is
  sent as an update of a listing that the portal no longer has
  (`syndication/service.py:263`).
- Anonymous saved searches, the addresses of consents and `dsr.subject_email`
  survive an erasure; who has erased themselves cannot register for 30 days.
- A disabled agent between a lead's capture and its event: nobody is told until
  the escalation.
- Impersonation tokens are not tracked, so that a demotion does not end them
  before their fifteen minutes (`tenants/admin.py:127`); a sign-in that overlaps
  a change of role mints a token with the old role; a change of role that is
  rolled back has signed its user out already.
- Portal settings and re-pushes need `LISTING_MANAGE` only and are not scoped to
  the agent's listings; an agent may create a lead for anyone, though only
  managers may reassign (`leads/service.py:695`, `:757-762`); a team lead sees the
  figures of their own team only, where the docstring says "AGENT_MANAGE sees
  anyone's", may add any agent to it, and so widens their own reach, and may assign
  a listing outside it.
- The downgrade of 0023 fails once an encrypted secret is stored (CI runs it on
  an empty database); from 0025, that leaves the version at 0025 with its indexes already
  dropped, since the version is taken away in the transaction that fails; a `CREATE INDEX CONCURRENTLY` of 0025 that is cut leaves an
  invalid index, which `IF NOT EXISTS` then accepts.  The purge of a tenant works
  only because PostgreSQL queues the cascades of the second level behind those of
  the first: `deals.owner_user_id` restricts.

## 8. What is not modelled, and why

- Clients of other services (payment, mail, AI, OAuth, breach lists, object
  store): each is an environment action or the failure of a step in the module that
  calls it.
- Parsing, formatting, templates, image decoding, signatures, encryption, search
  filters, percentiles and price arithmetic: pure functions whose results are
  good or bad here.
- Logs, metrics, traces, health checks, CORS, HTTP caching headers: no state that
  the program reads.
- PostgreSQL itself, but for what the modules state of it (row and advisory locks,
  unique indexes, policies, referential actions, READ COMMITTED); that foreign
  keys are checked past row-level security is left out.
- The parts of the partly modelled components: photo positions and alternative
  texts; plans and audit rows of a tenant; usage counters of users and AI; search,
  translations and price history of listings; OAuth sign-in, email verification,
  the session list; profiles; owners, documents and flat commissions of deals;
  favorites; fields of profiles and teams; pages and guides other than through the
  cache; the export of a user's data; the dashboards' queries; the seed script and
  the tests.

## 9. Plan

Done: the modules of section 3.  In order of importance, what is left:

1. Refinements: Publication against an abstract portal that shows a listing only
   while it is published, once quiet; RequestGuards against a request executed once.
2. `EventFanout`, composing Outbox and Webhooks through `Dispatch`, and
   Notices composed with the outbox's handlers.
3. The counters of users and AI usage, OAuth sign-in, enrolment of a second
   factor, favorites.

The suite is meant to stay small enough to run on every change: a dozen runs and
some forty properties.  New parts therefore join the run of their neighbours, and
a finding, once understood, gives up its run and keeps its line in section 7 and
the invariant that excepts it.
