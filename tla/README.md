# Smart Data Agent: specifications

TLA+ specifications of the backend of Smart Data Agent
(`src/backend/platform`), the TLC configurations that check them and the
theorems TLAPS proves about them. Paths are relative to
`src/backend/platform` unless they start with `docs/` or `tests/`.

The backend is a multi-tenant FastAPI service over a SQL store, and one or
more worker processes. In production the store is MySQL: the SQL in
`*/postgresql_store.py` is written for PostgreSQL and translated statement by
statement by `database/mysql_compat.py`. Development and tests use the SQLite
twins (`*/store.py`). Almost nothing is shared in memory between processes;
what makes the system hard is that one operation is often several
transactions, and that another process, a user, a provider or the clock acts
between them.

## 1. Inventory

| Part | State | Operations | Hard about it | Correct when |
|---|---|---|---|---|
| **Automation queue** `automation/postgresql_store.py` | `platform_automation_tasks`, `platform_automation_task_runs` (status, attempt, lease, owner, retry instant), `platform_job_steps` | `enqueue_run`, `enqueue_due_tasks`, `claim_run`, `finish_run`, `cancel_run`, `record_step`, `update_task` | concurrent claims under `SKIP LOCKED`, leases that expire under a live worker, late writes | a run ends once, attempts are counted, claims are distinct, `max_concurrency` holds, a lost run is retried |
| **Runtime and worker** `automation/runtime.py` | handler pools, the thread of `run_forever` | `run_once`, `_handle_failure`, `_emit_run_event`, `run_forever` | seven transactions around a handler that may time out while its thread goes on | each outcome is reported, no verdict about a run that is not over |
| **Outbox and notifications** the same two files | `platform_outbox_events`, `platform_notification_deliveries`, `platform_provider_callbacks`, `platform_email_messages` | `expand_outbox_once`, `claim_delivery`, `_deliver`, `finish_delivery`, `record_email_message`, `record_provider_callback` | a delivery is claimed without a lease, providers call back late, twice or out of order, the mail is sent before it is recorded | bounded sends, dead letter at the limit, a delivered message is not sent again, callbacks count once |
| **Handler pools** `automation/runtime.py` | five `ThreadPoolExecutor`s of 3 to 8 threads, the futures of earlier attempts | `submit`, `result(timeout)`, `cancel`, `shutdown` | `cancel` does not stop a thread that runs; orphans hold their slot | nothing starts after its attempt is over; a pool is not starved for ever |
| **Sessions and accounts** `security/session_store.py`, `security/postgresql.py`, `access/*`, `api/routes/auth.py`, `api/routes/access.py` | device sessions with two tokens, profiles, role assignments, registrations | login, refresh, tenant switch, logout, register, review, update, delete, deletion of a role | each handler is a chain of transactions over three stores; roles are read in one and written in another | a refresh token is exchanged once, an ended session stays ended, nobody enters a tenant no administrator decided on, sessions end with the account |
| **Capability approvals** `governance/*`, `skills/executor.py`, `mcp/gateway.py` | approval rows and their expiry, the calls that spend them | request, review, consume, list; execute with retries | review and consumption are two statements each and race each other, expiry and a crash; on SQLite nothing locks the row | reviewer is not the requester, one call per ticket, for the approved input only |
| **Memory** `memory/*` | candidate, active and superseded records, reviews, evidence | extract, review, supersede, fuse | a write merges the open records of its kind while they are reviewed | what has ended stays out, what is active was approved by another |
| **Learning** `learning/service.py` | episodes, candidates, drafts, evaluations | observe, draft, evaluate, promote | thresholds counted over concurrent observations; a proposal is submitted in a transaction of its own | a proposal becomes active by a review only |
| **Data assets** `assets/*` | items, numbered versions, reviews, the catalogue of topic tables | upsert, seed, review, publish, delete | the latest version changes under a review; item row, versions and catalogue are kept in step by hand | what is active was vouched for, decisions stand, the catalogue shows decided content |
| **Weekly learning** `reports/*` | report versions, learning candidates | extract, review, apply, mark | review, application to another store and mark are three transactions | a candidate is learned once |
| **Kernel** `kernel/*` | jobs, promotions, delivery records | run, promote, fulfil, sync | delivery to an external system, retried | a promotion is applied once |
| **Bridge** `integrations/bridge_auth*.py`, `api/routes/bridge_enrollment.py`, `workbuddy_bridge.py`, `bridge_hub.py` | enrollments, bindings, evidence as memory records | enroll, approve, poll, revoke, deliver evidence | people approve and devices poll at the same time, clients repeat what they got no answer to | one token for the one who consented, accepted evidence is what the memory holds |
| **Authorization engine** `backend/authz` | policies | decide | none: a pure function | agrees with the policies |
| **MySQL connection pool** `database/mysql.py` | a LIFO queue of idle connections, `_created` under a lock, `_closed` under none | `connection()`, `close()` | count and queue have different locks, every driver call may fail, close during use | the count is exact, a connection is handed to one thread and without a transaction in it, whoever asks comes out again |
| **Warehouse connection pool** `data_access/dbapi_pool.py` | the same, `_created` is reset by `close()` | `connection()`, `release()`, `close()` | the factory is called under the lock, close resets the count while connections are borrowed | the same, and no open connection is forgotten |
| **Message board** `message_board/*` | topics, comments and revisions | post, revise, lock | revision conflicts | no lost update |

All other parts (ingestion, orchestration, analysis, knowledge, metrics,
market, settings, the HTTP API, the browser application and so on) are listed
with the reason they are left out in `PROJECT.json` under `components`; the
places where the code is exposed to something a test hardly reaches are under
`hazards`, each with the property that covers it or a note.

How the parts interact. Users and administrators act through the API, each
request a transaction or several. The API and the scheduler inside the worker
insert **runs**; a **worker** (`run_forever`) alternates between
`enqueue_due_tasks`, `run_once`, `expand_outbox_once` and
`process_notifications_once`. `run_once` claims a run, submits its handler to
a **handler pool** of its own process, waits for it with a time limit, and
writes steps, outcome and **outbox** event in separate transactions. Expansion
turns an event into one **delivery** per subscription; a delivery is claimed,
sent to an external provider and recorded; providers **call back** through the
API at any time. Every transaction borrows a connection from the **MySQL
pool** of its process; handlers read warehouses through the **DB-API pool**.
High-risk skills and MCP tools spend a **ticket** before they run. The kernel's
jobs, the daily mail and the learning tasks are handlers of the same queue.
Requests come with the access token of a **session**, whose tenants were read
from the roles of an **account** when it was issued. What users, the automatic
learning, the **weekly learning** and **bridge** clients submit becomes a
version of a **data asset** or a **memory** record, and waits there for another
user's decision.

## 2. Modules

| Module | Models | State and its code | Actions and their code |
|---|---|---|---|
| `AutomationQueue` | `automation/postgresql_store.py`, `run_once` of `automation/runtime.py` | columns of `platform_automation_task_runs` (`status`, `attempt`, `lease`, `owner`, `retry`), the `execute_handler` row of `platform_job_steps` (`step`), run events (`outbox`), row locks of an open claim (`locks`); per worker the position in `run_once` (`pc`), its run (`cur`), the attempt its claim wrote (`ticket`) and the one it read back (`seen`) | `Enqueue`, `CancelRun`, `SetTaskStatus`; `ClaimSelect` and `ClaimCommit` (one transaction in two steps because its locks outlive the counting query), `ReadClaim`, `FailUnregistered`, `StartHandler`, `HandlerReturns/Raises/TimesOut`, `CheckCancelled`, `CheckFailing`, `RecordStep`, `Finish`, `Report`; `PublishError`, `StoreError`, `Crash`; the clock: `LeaseLapses`, `LeaseOverrun`, `RetryComesDue` |
| `RunLifecycle` | what clients of the queue rely on | status and attempt of a run | create, start, restart (counted), end |
| `Notifications` | outbox expansion, deliveries, `_deliver`, provider callbacks | delivery columns, callbacks, messages the provider took (`sends`), worker positions | `Register`, `Expand`, `ToggleSubscription`, `ClaimDelivery`, `ReadDelivery`, `Suppress`, `Postpone` (quiet hours), `SendSucceeds`, `SendFails`, `MarkDelivered`, `FileMail`, `GiveUpOrRetry`, `ReceiveReport`, `StoreError`, `Abandon`, `ComesDue` |
| `HandlerPool` | one `ThreadPoolExecutor` of `automation/runtime.py` as `run_once` uses it | futures in order of submission, the runs they execute, whether `run_once` still waits | submit, begin, complete, result in time, timeout, cancel, shutdown |
| `ConnectionPool` | what both pools promise | the place of each connection (nowhere, idle, with a client, left outside), open transactions, closed | connect, take, use, give back, disconnect, let go, close |
| `MySQLPool` | `MySQLConnectionPool` of `database/mysql.py` | `_connections`, `_created`, `_closed`, what `close()` has left to do; per thread a position and a connection | one per access to queue, lock or flag: `Enter`, `TakeIdle`, `FindNone`, `Reserve`, `Connect(Fails)`, `WaitTimesOut`, `Ping(Fails)`, `Work`, `Fail`, `Return`, `Check`, `Store`, `Close`, `Drain`, `DrainEnds` |
| `DBAPIPool` | `DBAPIConnectionPool` of `data_access/dbapi_pool.py` | the same, plus who holds the lock in a factory call | the same, with `Open(Fails)`, `Release`, `Uncount`, `Reset` |
| `Users` | the people of the review modules | constants only | |
| `CapabilityApproval` | both stores of `governance/`, and the part of `skills/executor.py` and `mcp/gateway.py` behind the ticket | ticket rows, lapsed and locked tickets, per thread the request it serves and the attempts it has submitted | `Request`, `ReviewSelect`/`ReviewUpdate`, `ConsumeSelect`/`ConsumeUpdate` (a transaction each, in its two statements), `List` (marks lapsed tickets), `RateLimited`, `Submit`, `Return`, `FailAttempt`, `Lapse`, `Crash` |
| `UserSessions` | `security/*` sessions, `access/service.py` and the handlers of `api/routes/auth.py` and `access.py` | account status, roles and department, session owner, tenants, token generation and end; per thread the transaction it is at and what it has read | login (`VerifyLogin`, `WriteLogin`, `ReadRoles`, `Issue`), refresh and switch (`Resolve`, `CheckProfile`, `ReadRoles`, `Rotate`), `SendLogout`/`Logout`, the administrator's update (`ReadUpdate`, `Activate`, `GrantRoles`, `SetStatus`) and delete (`ReadDelete`, `DeleteRoles`, `DeleteProfile`, `RevokeUser`), the deletion of a custom role (`ListMembers`, `ReadKept`, `Demote`), registration (`ReadApplication`, `Apply`) and its review (`ReadReview`, `Approve`, `Admit`, `Reject`), expiry, `Abort` between any two |
| `AssetLifecycle` | all three stores of `assets/`, the proposal of `learning/service.py` | item rows, versions with submitter and reviewer, the execution catalogue, reviews and proposals that have read and not written | `Save`, `Seed`, `Consider`/`Propose` (learning), `BeginReview`/`Review` (what PostgreSQL sees before and after it waits for the lock), `Remove` |
| `MemoryLifecycle` | both stores of `memory/` | records with creator, approver, evidence and what they supersede; reviews under way | `Write` (with the merging of its kind), `ReadForReview`/`UpdateReviewed`, `DropReview` |
| `WeeklyLearning` | learning candidates of `reports/`; EXTENDS the two modules above, to which it writes | candidate rows, per request the transaction it is at | `Extract`, `SelectCandidate`, `Judge`, `Apply`, `MarkApplied`, `Abandon` |
| `Bridge` | `integrations/bridge_auth*.py` and the routes on top | enrollment and binding of each device, the evidence of each operation and how often it was counted, per thread the request it serves | `Enroll`, `AskApproval`/`Approve`, `Poll`/`Claim`, `Revoke`, `Deliver`, `LookUp`, `WriteCandidate`, `Observe`, `Elapse`, `Die`; `Turn` disables and enables accounts from outside |

`MC*` modules define the symmetries of the instances and put several
components under one run: `MCPools` the three pools, `MCReviews` the five parts
in which one party submits and another decides. `*Proofs` modules hold the
theorems: `PoolProofs` those of the three pools, `CapabilityApprovalProofs` also
those of `Bridge` and of the composition `MCReviews`. Definitions introduced by
`As ...` or `Mutant` are altered forms of the definition after them; they are
used by no specification and serve to show that each property depends on the code it is about.
`PROJECT.json` maps every definition to the lines it stands for.

Choices common to all modules:

- **A store call is one action.** Each is one transaction in the code. Where
  the locking inside a transaction matters, it is split: the claim of a run,
  the review and the consumption of a ticket, the reviews of assets, memory and
  learning candidates.
- **Time** is not counted. A lease, a retry instant, a delivery's next attempt
  or a ticket's expiry has passed or has not, and an action lets it pass.
- **Crashes** end a worker between two of its transactions and roll an open
  one back. Workers come back (the process is restarted), with nothing
  remembered.
- **Providers, drivers and thread pools** are external: a call is answered,
  fails, or does its work and then fails.

PostgreSQL and MySQL. The stores are written for PostgreSQL; the claim says
`FOR UPDATE OF r SKIP LOCKED`, which locks runs and not the joined task.
`database/mysql_compat.py` drops `OF r`, and MySQL then locks the task row as
well, so that two claims for one task exclude each other. `JoinedRowsLocked`
tells the two apart. With `FALSE` two workers that claim different runs of a
task at the same time both count before the other commits, and
`LiveRunsWithinLimit` does not hold; with `TRUE` (the deployment the
documentation describes) it does. The theorems about the queue hold for both.
`CapabilityApproval` starts on either store (`onServer`) and takes MySQL's
`now()`, the time of the statement; PostgreSQL's is that of the transaction's
start, so there a ticket may lapse between the validation and the `UPDATE` and
still be spent.

Servers and SQLite. `UserSessions`, `MemoryLifecycle`, `AssetLifecycle`,
`WeeklyLearning` and `Bridge` start on either kind of store, since the twins
differ in more than their locks: on a server an account is disabled and not
deleted, roles and approvals are only written for active accounts, and
PostgreSQL chooses the version a review is about by a snapshot older than its
lock. Properties that only hold on one of them say so (`onServer`, `locking`,
`store`).

## 3. Runs

Passing runs:

| Run | Instance | Shows |
|---|---|---|
| `queue` | 2 workers, 2 runs of one task, limit 1, 2 attempts, 1 overrun, MySQL's locks | types; a row has lease, owner and retry instant exactly when its status says so (`LeaseMatchesStatus`); without faults every success is reported, and until a lease is overrun none is announced as a failure (`SuccessIsReported`); live leases stay within `max_concurrency` (`LiveRunsWithinLimit`); what is over stays as it is (`TerminalIsFinal`) |
| `queue_live` | 2 workers, 1 run, 2 attempts, 2 overruns, 1 crash or store error, PostgreSQL's locks, fairness | two workers on one run hold different attempt numbers (`ClaimsAreDistinct`); attempts exceed the policy only by take-overs (`AttemptBudget`); a verdict is announced only about a run that is over, with the status it ended with (`VerdictAfterTheEnd`); the queue implements `RunLifecycle` (`LifecycleSpec`); a run of a task that stays active ends (`RunsComeToAnEnd`) |
| `notifications` | 1 delivery, 2 workers, 3 attempts, quiet hours, 4 reports of three types, 1 fault; 774,538 states | sends stay within the attempts (`SendBudget`), each repeated send has a reason of its own (`ResendsHaveReasons`), reports can find a delivered row (`DeliveredNamesItsMessage`), dead letters have a cause (`DeadLettersHaveCauses`) |
| `notifications_live` | 2 deliveries, 2 workers, 2 attempts, no faults, quiet hours or reports | every delivery is sent, suppressed or a dead letter in the end (`DeliveriesSettle`) |
| `pools` | one pool per behaviour (`which`): MySQL and DB-API with 3 threads and 2 of 4 connections, the handler pool with 2 threads, 2 runs, 4 submissions; 223,847 states | connections: the count is exact and no open one is out of reach (`SlotsAreAccountedFor`), the pools implement `ConnectionPool` (`KeepsPromise`), where nobody inherits a transaction and only a closed pool leaves connections behind, and with MySQL whoever asks comes out (`ClientsComeOut`); handlers: none begins once its attempt was given up (`NoLateBeginning`), abandoned ones fit in the pool (`AbandonedFitInPool`) |
| `accounts` | 1 account, 2 tenants, 1 session with 2 rotations, 2 request threads, crashes and store failures anywhere, either store; 1,138,947 states | a refresh token is exchanged once (`TokensAreExchangedOnce`), an ended session is not renewed (`EndedSessionsStayEnded`), roles, sessions and status stay within what an administrator has decided (`NobodyEntersUnvouched`) |
| `reviews` | one part per behaviour: tickets (3 threads, 2 tickets, 2 users, 2 inputs, 1 retry), assets (one class of items: 1 skill, 2 topic tables or 2 experiences, 2 codes, 3 versions), memory (3 records of one mergeable kind that needs evidence, 4 units of work), weekly learning (2 candidates, 3 requests), bridge (1 device, 1 operation with 2 contents, 3 calls); 405,839 states | tickets: every run was asked for by its user for this input and approved by another (`RunsAreGranted`), a ticket buys one call (`RunsPerTicket`), decisions stand and on a server no lapsed ticket is spent (`VerdictsAreFinal`), what was validated holds until the update (`ValidationsHold`); assets: `ActiveIsVouchedFor`, `CatalogFollowsReviews`, `VersionsMoveForward`, `DecisionsStand`; memory: `RecallIsVouchedFor`, `EndedMemoriesStayOut`; learning: `LearnedOnce`; bridge: `OneTokenPerConsent`, `AcceptedEvidenceStands` |

Bounds, and why they are enough for what they are used for:

- Two workers, threads or clients are what a race needs; the pools take a third,
  which waits while two hold all connections, and the tickets a third, which
  reviews while two race to spend.
- `MaxAttempts = 2` has a first, a last and, by a take-over, a surplus attempt.
  `AttemptLimit = 3` has a first, a middle and a last one, and lets a report
  reopen a delivery that still has an attempt left.
- `ReportId` has four reports: a late one, one out of order, the same thing
  reported twice as two events, and one event delivered again.
- `MaxOverruns` counts leases that lapse under a worker still at work. One
  makes a stale worker and a new owner; two let a stale worker of the first
  attempt meet one of the second (in `queue_live`). Leases of workers that are
  gone lapse without bound.
- `MaxFaults = 1`: one crash or store error at any point. Two independent
  faults are not checked; the theorems hold for any number.
- `MaxSubmits = 4` fills a pool of two threads with abandoned handlers, queues
  another behind them and lets their threads come free again.
- `Conn` has two connections more than `Max`, so that opening one too many is
  possible, and two more while a borrowed one is not counted any longer after
  `close()` of the warehouse pool.
- `MaxRotations = 2`: a second refresh meets one that still holds the tokens of
  before the first. One account suffices, because handlers of different accounts
  write no common row; two tenants are a role that stays and one that goes.
- `MaxVersions = 3` has an active version, a draft after it and one more that
  overtakes it; `MaxBegun = 3` and `MaxWork = 4` let two reviews overlap a save
  or a write. Three records are two that merge and one they are merged into.
- One device and one operation suffice: rows of different devices or operations
  have no statement in common. Three calls are two that race and a third that
  has answered, or died, before.
- In `reviews` a behaviour is of one part and, for the assets, of one class of
  items, since they share no rows; the exception, the learning's writes to
  assets and memory, is a part of its own. Sorts of parts that never move
  together share their model values, which keeps the symmetry group small.
- Symmetry is used in runs without liveness only, on sets whose members are
  compared and never ordered; the order in which runs were created is part of
  the state (`created`), so that permuting runs is sound.
- Deadlock is not checked for the pools, the accounts and the reviews: a pool
  that is shut down, a session that is over or a ticket that is spent leave
  nothing to do, and the model stops there as the program does.

Runs that show a disagreement between a document and the code; each checks one
property that states the document's sentence:

| Run | Document | What the code does |
|---|---|---|
| `lease_overrun` | `docs/database_tables/platform_automation_tasks.md:24`: `max_concurrency` is the task's limit of concurrency | the lease is 60 s, nothing renews it, handlers may take `timeout_seconds` (900): a second worker takes the run over and both execute it (`ConcurrencyLimitHolds`) |
| `lost_event` | `docs/production_upgrade/implementation_evidence.md:120`: transactional outbox | `finish_run` and the event's insert are two transactions: a crash in between loses the event (`SuccessIsAnnounced`) |
| `quiet_hours` | `docs/production_upgrade/operations_runbook.md:67`: past the limit a failed delivery is a dead letter | quiet hours use attempts up; the delivery stays `failed` and is never claimed again (`FailedIsRetried`) |
| `locked_out` | `api/routes/access.py:54` and `security/postgresql.py:200`: deleting an account revokes its sessions, reason `account_deleted` | on a server the profile is disabled first and `revoke_user` looks for active users only: the session stays valid (`SessionsEndWithTheAccount`) |
| `published_draft` | `docs/architecture/hermes_learning_extension.md:53`: only active skills enter the next analysis | on a server the published bundle joins the active version's number to the item's row, which holds the content of the latest submission, reviewed or not (`OnlyActiveIsServed`) |

`lost_event` is about an event that never exists under a specification with
fairness: the worker lives on and goes on polling, nothing looks for the event.

## 4. Fairness

`FairSpec` of each module states what the code's scheduling gives:

- `AutomationQueue`: weak fairness of `ClaimSelect(w)` and `RunOnce(w)`, because
  `run_forever` polls as long as the process lives, `future.result` has a time
  limit and all other steps of `run_once` follow one another; and of
  `LeaseLapses(r)` and `RetryComesDue(r)`, because the clock runs. Users,
  administrators and faults are under no obligation. Of the task
  `RunsComeToAnEnd` asks that it be active from some time on: a paused task
  keeps its runs waiting.
- `Notifications`: the same loop calls `expand_outbox_once` and
  `process_notifications_once`; `ComesDue` is the clock. A worker that claims
  takes one of the claimable deliveries; that no other is starved needs no
  assumption, since each claim uses one of a bounded number of attempts.
- `MySQLPool`: a thread inside `connection()` runs on; `get(timeout)` and the
  sockets have time limits. Entering and `close()` are not fair.
- `MCPools` states the fairness of `MySQLPool` for the behaviours that are
  its.
- `DBAPIPool` has no fair specification: its factory call has no time limit
  of the pool's and is made under the lock, so that the code promises nobody
  to come out.
- The modules about users' decisions have no fairness: nobody has to decide,
  log in or come back, and a request may die; all that is asked of them is
  safety.

## 5. Proofs

TLAPS proves, for all values of the constants that satisfy the modules'
assumptions:

**`AutomationQueueProofs`.** All invariants of the queue's runs and its
refinement: `TypeCorrect`, `LeasesMatch`, `DistinctClaims`, `TerminalStays`,
`ImplementsLifecycle`, `AttemptsStayInBudget`, `VerdictsComeLast`,
`SuccessesAreReported` and `LimitIsKept`. They rest on `Invariance`, with
`IInv == TypeOK /\ SelectionInv /\ LeaseMatchesStatus /\ TicketInv /\
ClaimsAreDistinct`. `SelectionInv` says who holds row locks and that a locked
row stays claimable, which is why the status a claim selected by is still the
one it writes over. `TicketInv` says that a worker past its claim works on a
run that has been started, under a number no later than the run's attempt; a
new claim therefore writes a number larger than any that is around, and
`ClaimsAreDistinct` is kept. The refinement maps status and attempt to
themselves; locks, leases, tickets, steps and events are what the abstract
specification hides.

Four invariants are built on it. `ReportInv` adds to what the events promise
that a worker about to report a verdict works on a run that is over; what is
over keeps its status, so the status in the payload stays true. `VerdictInv` is
about the type of a verdict: until a fault or an overrun a busy worker has its
run's lease, or the run was cancelled, or the worker has ended it as it planned;
so no success is announced as a failure.
`BudgetInv` is why stale workers cannot stretch the retry policy: `Unused(r)`
are the attempt numbers below the last that may still put `r` back (those to
come and those of workers that have not finished with it). It never grows, and
a retry takes one out of it, because the ticket of a claim is its worker's
alone; so attempts, less take-overs, stay within `MaxAttempts`. `CapacityInv`
says that no two open claims hold runs of one task and that the run a claim has
chosen still fits when it commits; it needs `JoinedRowsLocked`.

`OneWorkerPerRun` and `ExecutionsStayWithinLimit` say where the disagreement of
`lease_overrun` comes from, and that it has no other source: as long as no
lease is overrun, no two workers execute the same run and (with
`JoinedRowsLocked`) those of a task that are not cancelled stay within its
limit, whatever is cancelled, crashes, fails or is retried. `ExclusiveInv` is
the reason: a worker past its claim has the live lease of its run until the run
is over, and a run under a live lease is not selected.

**`NotificationsProofs`.** `TypeCorrect`, `SendsWithinBudget`,
`RepeatsHaveReasons`, `DeliveredIsNamed`, `DeadLettersExplained`. The
invariant counts: `BudgetInv` says that the sends of a delivery together with
the workers that hold a claim and have not sent yet are no more than its
attempts (two workers may hold the same delivery, since a failure report
reopens it); `ReasonInv` does the same against the errors and failure reports
that have reopened it.

`OneWorkerPerDelivery` and `FailuresAreRetried` are the other side of
`quiet_hours`, for providers that report no failures (`"failed" \notin
Reports`): a delivery is then in one worker's hands at a time although its
claim has no lease, and, without quiet hours as well, one that failed always
has an attempt to come. So quiet hours and failures reported at the limit are
all that leaves a delivery failed for ever. `HandInv` adds that a delivery
somebody works on is not open to a claim and that the attempt read of it is the
one it is at.

**`PoolProofs`.** Handler pools: `TypeCorrect`, `BeginsInTime`,
`QuietAfterClose`, `AbandonedFit`. `QueueInv` says that the only handler that
may still wait in the queue is the one `run_once` waits for.

Connection pools: `MySQLInvariance` and `DBAPIInvariance`, from them the
refinements `MySQLPromise` and `DBAPIPromise`, and for the three pools under
`MCSpec` `PoolTypesHold`, `SlotsAccountedFor` and `PromiseKept`. The invariant
of each is its types, `OnePlace` (a connection is with one client or in the
queue, never both), what a client knows of its connection from where it is
(`MySQLKnows`, `DBAPIKnows`: one about to be put back is open and clean; who is
in the factory call has room under the lock) and `SlotsAreAccountedFor`, which
is inductive only with the first three: a step moves one connection from one
place to another, and disjoint places are what makes the count of the places
change by exactly what `_created` does. The refinement shows for each access to
queue, lock or flag which step of `ConnectionPool` it is, or that it is none.
`MySQLIsSafe` and `DBAPIIsSafe` say what the promise is worth in the pools'
own variables: at most `Max` connections open (the warehouse pool forgets at
`close()` how many are out, the MySQL pool does not) and no transaction left
open in one that waits. They are proved through the promise
(`PromiseInvariance`), apart from the bound after `close()`.

**`CapabilityApprovalProofs`.** `TypeCorrect`, `GrantedRuns`,
`OneCallPerTicket`, `FinalVerdicts`, for both stores. `RowInv` ties a row's
columns and the runs so far to its status, `ThreadInv` is what a thread may
rely on after its `SELECT` although others go on (the columns it has checked
never change once the row is reviewed), `HolderInv` says that a spent ticket
is in the hands of one thread. `ValidatedRows` and the part of `FinalVerdicts`
about lapsed tickets are about the servers: `LockInv` says that an open
transaction has locked its row, alone, so that nothing touches the row between
`SELECT` and `UPDATE`.

The same module proves `ConsentedOnce` and `EvidenceStands` of `Bridge`, from
`BridgeInv == BridgeTypeOK /\ ConsentInv /\ EvidenceInv /\ WriterInv`. Neither
property is inductive. `ConsentInv` adds that whoever was told his approval
stands is the approver in the row, so that the user the token is made for is
the one who consented. `WriterInv` adds that a request on its way to count an
operation has written its evidence and is the only one on that way, so that a
second count is impossible although lookup, write and count are separate.

`ReviewTypesHold`, `NothingUnapproved` and `DecisionsLast` are about `MCReviews`,
the five parts side by side: all invariants and all action properties of the
run `reviews`. `EachGoesOn` says that each step of the composition is one of a
part or leaves the part alone, so that the parts' own theorems apply.

**`UserSessionsProofs`.** `TypeCorrect`, `ExchangedOnce`, `Vouched`,
`EndedStayEnded`, for any number of accounts, tenants, sessions and handlers,
on either store. The invariant is `TypeOK /\ UsersKnown /\
TokensAreExchangedOnce /\ Invited /\ Entitled /\ AccountsVouched /\
SessionsVouched`: what each handler holds in its hands between two transactions
(the tenants it has read, the status it will write back) is itself something an
administrator has decided once, which is why it may be written back late.

`SessionsEndOnSQLite` is the other side of `locked_out`: on SQLite, without
crashes and store failures and with handlers of one user not overlapping
(`Apart`), sessions do end with the account; the same handlers on a server
violate it. The hypothesis `[]Apart` is about the behaviour, and needed: a
login that has verified the password before the deletion issues a session
after it.

**`MemoryLifecycleProofs`.** `MemoryInvariance`, `RecallVouched`,
`EndedStayOut`, from `MemoryInv == MemoryTypeOK /\ ReadsHold /\ LocksHold /\
RecallIsVouchedFor`. `ReadsHold` is what a review may rely on after its read on
either store (creator, kind and evidence of a record never change), `LocksHold`
what it may rely on only under a lock (the status).

**`AssetLifecycleProofs`.** `AssetInvariance`, `ActiveVouched`,
`CatalogFollows`, `VersionsForward`, `DecisionsKept`, from `AssetInv ==
AssetTypeOK /\ ReviewsAreOpen /\ ChosenExists /\ CatalogOfServers /\
ActiveIsVouchedFor /\ CatalogFollowsReviews`. The argument is about one step:
each version there was before advances (is kept, archived or decided with its
columns), each new one is fresh (in review without a reviewer, or published
directly), and the catalogue follows the one that became active.

`ListedStatusIsTheLatest` is the other side of `published_draft`: on MySQL and
SQLite the row of a listed item shows the status of the version whose content
it shows (`RowTells`), so that a bundle kept to items whose own row is active
would be right there. On PostgreSQL it would not: the approval of a version
chosen by snapshot makes the row active over a later draft.

**`WeeklyLearningProofs`.** `SharedSpec` interleaves assets, memory and
learning on the same tables: users save, merge and review while requests of the
weekly learning publish and write. `SharedInvariance` says that the invariants
of all three hold then, `LearnedAtMostOnce`, `LearningKeepsDecisions`,
`LearningMovesForward` and `LearningKeepsEnds` what matters of it; the
invariants are used as proved, one lemma per step that crosses a border.

A theorem states every invariant and every action property of the passing runs,
and the two refinements. Only model-checked: liveness (`RunsComeToAnEnd`,
`DeliveriesSettle`, `ClientsComeOut`), which the prover does not do, and of
course the violations. `RECURSIVE` operators and induction over data are out of
the prover's reach and not used.

## 6. What is left out

Of the parts that are modelled:

- **Schedules.** When a run is enqueued (`enqueue_due_tasks`, cron and interval
  arithmetic, idempotency keys) is a choice; a run of the model is one such key.
- **The SQLite twin of the queue** (`automation/store.py`), for one process.
- **Readings between transactions.** `Report` takes the read-back at the end of
  `finish_run` and the insert of the event together: the attempt number and,
  for a retry, the status it carries could also be those of a moment before; a
  verdict's status is final by then.
- **A claim reads 50 candidates** (`LIMIT 50`). `ClaimSelect` may take any due
  run with room in its task, also the one after fifty without.
- **Reads of roles and status.** `ReadRoles` is one read where the code reads
  the assignments twice, and on its refresh fallback again. `Issue` and
  `ReplaceRoles` are one step each: they see whether the profile is active by a
  `SELECT` that does not lock it, so that a disabling may commit before their
  insert does.
- **The deletion of a role** takes each affected user as a job of its own, from
  a list read before.
- **Closing a broken connection.** `Discard` has `connection.close()` return.
- **Who gets a connection.** The queue of the MySQL pool is last in, first out;
  the model leaves open which idle connection is taken.
- **Permissions, tenants and schemas** are checked before an operation begins
  and change nothing that is modelled.
- **In-memory stores** of sessions, assets, memory, approvals and enrollments,
  which tests use.
- **Statuses without a difference.** Rejected, superseded and expired memory is
  one status (`ended`), and so are the decisions that lead there.
- **SQLite.** A write of a memory record and a transaction of the enrollments
  is one step: one API process holds the connection. The review of a memory
  record or a learning candidate is not.
- **When learning considers a skill.** The thresholds of observations are left
  open; candidates of the weekly learning that become todo items are left out.
- **What a bridge client reads**, the reports it imports, channels and tenants.

What the models contain and no property calls right or wrong, because nothing
in the repository does:

- A discarded connection frees a slot of the MySQL pool and wakes no waiter: a
  thread in `get(timeout)` waits its time out although it could connect.
- `close()` of the MySQL pool leaves borrowed connections open when they come
  back (`Return`, `Check`); `ConnectionPool` allows that and no other way to lose
  one.
- A delivery is claimed without a lease: after a crash between claim and
  outcome it stays `sending`, and a late `accepted` report makes a delivered
  row `sending` again. `DeliveriesSettle` is checked without both.
- A cancellation between `run_once`'s check and `finish_run` leaves the row
  cancelled and still registers `automation.run.succeeded`: the payload carries
  the status that was read back.
- After a store error behind a committed success, or when a stale worker fails
  where the owner succeeded, the event says `automation.run.failed` and its
  payload `succeeded`.
- The deletion of a role gives everybody on its list the tenant's operator role,
  also somebody whose roles an update has just taken away. That account was
  let into the tenant once, which is all `NobodyEntersUnvouched` asks: it speaks
  of decisions made, not of those still standing.
- A retried run overwrites the step its earlier attempt recorded
  (`RecordStep`), by design of the upsert's key.
- The approval is spent before the rate limiter is asked.
- A logout with tokens a refresh has replaced matches no row (`Logout`).
- A learning candidate whose application fails stays `approved`: it can be
  neither reviewed again nor applied (`Abandon`).
- Memory that supersedes memory that is itself superseded by an approval: with
  m1 superseded by m2 and m2 by m3, approving m3 leaves m1 active.
- On PostgreSQL a review that waited for the lock decides on the version its
  snapshot showed, which may be older than the active one; `VersionsMoveForward`
  excludes PostgreSQL. A draft that was overtaken stays in review, and seeding
  writes its default over a learned proposal.
- A topic table's code may be changed by a draft; `CatalogFollowsReviews` asks
  for the active version only of codes kept to one table.
- A device whose poll gets no answer has lost its token and enrolls anew. The
  bindings of a disabled account still resolve (`Deliver`). After a crash
  between write and count (`WriteCandidate`, `Observe`) evidence is stored and
  never counted: the repetition is answered as a replay. `AcceptedEvidenceStands`
  says at most once for this reason.
- A webhook's message is named after its event; subscriptions to the same event
  share that name. The model names messages per delivery, as the mail provider
  does.

Components that are not modelled are in `PROJECT.json` with the reason. Most of
the implementation's lines are theirs: routes that convert requests, engines
that compute over data frames, text processing, catalogues and schemas, where a
test reaches what matters. The modules are about the part in which the order of
transactions decides, a few thousand lines.

## 7. Plan

Next, in this order:

1. `KernelDelivery`: promotion of shared procedures by two users at once, and
   the synchronisation of scheduled tasks against users who pause them.
2. `DailyEmail` composed with `Notifications`: a run's status from those of its
   deliveries.
3. `TaskSchedule` (the SQLite twin's three transactions against the server's
   one), the thresholds of `Learning`, the batch statuses of the ingestion, and
   the decision of `backend/authz` as operators against a reference definition.

Proofs: those of each new module with it.

The set of runs is kept small, so that all of them are run on every change: a
new module joins the run of its neighbours where they share a kind of question
(`pools`, `reviews`).
