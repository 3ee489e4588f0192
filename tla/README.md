# TLA+ models of IT-Toolkit Enterprise

IT-Toolkit Enterprise is a fleet-management server (FastAPI, asyncpg,
PostgreSQL; `Enterprise/api/app/`) and a Windows agent
(`Enterprise/agent/Agent-Collect.ps1`).  Agents collect inventory and metrics,
queue them in a local SQLite database, ship them to the server, and poll the
server for commands to run.  The server stores events, rolls metrics up into
hourly and daily averages, evaluates alert rules, builds and offers agent
installers, and serves an operator portal.

The server is one uvicorn worker with one asyncio event loop: two requests
interleave only where a handler awaits (a database call, a thread, the
network).  Background loops (rollup, alerts) are tasks of the same loop.  The
agent is one process per scheduled task; the routine task (NETWORK SERVICE) and
the on-demand elevated task share one data directory and may run together.

Paths below are relative to `Enterprise/` unless they start with `src/`.

## Inventory

| Component | State | Operations | Interacts with | What is hard |
|---|---|---|---|---|
| Remote-command channel (`main.py` 985-1060, `Agent-Collect.ps1` 50-95, 295-326, 727-983) | `commands` rows; `executed_commands` in the agent's SQLite; `elevated-job.json` | create, poll (SELECT, then one UPDATE per row), result; check / run / save / post; stage, run and clear an elevated request | operators, both agent processes, the machine's restart | two processes on one queue; lost responses; kills between run and save; polls that interleave |
| Event outbox and ingest (`Agent-Collect.ps1` 283-294, 390-472, 529-613, `main.py` 1408-1490) | `outbox` rows and their id sequence; `events`, `metrics` and their unique indexes | prune, count, drop, collect, flush, mark; ingest transaction | collectors, both agent processes, the roll-up | retries after an unknown outcome, pruning while the other process flushes, ids |
| Flush back-off (`Agent-Collect.ps1` 565-580, 615-632) | failure counter | next wait | outbox | jitter against the doubling and the cap |
| Metrics roll-up and retention (`timeseries.py`, `main.py` 1599-1650) | `metrics`, `metrics_rollup`, an advisory lock | one pass (locate, select, upsert hours and days, three deletes), queries by range | ingest, the clock, other workers | no transaction, resume point derived from the data, deletion by the clock |
| Alert rules and evaluation (`rules.py`, `main.py` 1063-1140) | `alert_rules`, `alerts` | seed, pass, digest; ack, resolve, update rule | events, heartbeats, operators, SMTP and webhook | check-then-insert, exceptions in mid-pass, operators in between |
| Setup wizard and secrets (`main.py` 442-570, `config.py`, `vault.py`) | `settings`, `session_secret` file, the process's key | status, setup | operators, every encrypted setting | check-then-act around a rotation; a key in three places |
| Enrolment and certificates (`main.py` 248-310, 742-765, 1526-1563, `certs.py`, `Agent-Collect.ps1` 118-260) | `agents` rows; CA and client files; `client.pfx`, `agent.token` | get-or-create, mint a token, issue or renew a certificate, revoke | every agent-facing call | check-then-update, renewal, two files written one after the other |
| Remote build and self-update (`main.py` 849-963, 1347-1403, `github.py`, `bundle.py`, `Agent-Collect.ps1` 636-723) | stamp file, MSI, rollout target | trigger, status and sync, set target, check, download, stage the install | GitHub, msiexec, the elevated request of the command channel | stamp and file are not written together; a file overwritten while it is downloaded |
| Login, sessions, rate limits (`ratelimit.py`, `auth.py`, `main.py` 574-610) | in-memory timestamps per key | check, record failure or success | every portal call | windows and limits; check and record are separate |
| Database pool and migrations (`db.py`) | pool, done flag | connect, migrate | all handlers | lazy creation across an await |
| Users (`main.py` 645-720) | `users` | create, update (read, then write) | login | the caller checks one account, writes another; overlapping edits |
| Heartbeat, companies, settings, features, audit, reports | rows | single statements | operators, agents | |
| Middleware, metrics endpoint, logging | counters | observe | all handlers | none: observation only |
| Collectors, portal, deployment scripts, packaging, stand-alone toolkit (`src/Scripts`) | none the server or the agent's protocols depend on | | | sequential scripts and user interface |

What makes each modelled component correct:

* **Commands.**  A command is offered, runs only after it was, and is reported
  only after it ran; it runs again only where a process died before it could
  save; a delivery that nothing spoils ends in a result; the machine restarts
  only because somebody asked.
* **Outbox.**  No event vanishes between the queue and the database, none is
  counted twice, and retries of a batch are told from new events.
* **Roll-up.**  A sample is kept, raw or in a bucket, as long as its retention
  says; a bucket is written once; an hour is in its day's bucket before it goes;
  a window within the raw retention is exact.
* **Alerts.**  One open alert for a rule and an agent, announced once; a
  persistent condition has one and a cleared condition has none.
* **Setup.**  Done as a whole or not at all, and once; everything sealed or
  signed is under the key that the process, its file and the operator's copy
  hold; a failed setup can be repeated.
* **Enrolment.**  The agent's token is the one the server expects, its
  certificate the CA's and with its own key; a renewal lasts; an agent that
  keeps running ends up enrolled.
* **Release.**  The server does not go back to an older build, fetches the newest
  one in the end, and a target that stays is reached.
* **Login.**  A closed lock lets nobody in and only those who are in already can
  still fail; it ends; edits do not lock everybody out.

## Modules

| Module | Role |
|---|---|
| `CommandChannel` | the command channel in detail |
| `CommandLifecycle` | what the Commands page promises; `CommandChannel` implements it with both agent processes |
| `CommandChannelProofs` | type correctness, four safety theorems and the refinement of `CommandLifecycle` |
| `Outbox` | queue, flush, ingest |
| `EventFeed` | what queue and ingest promise together; `Outbox` implements it |
| `OutboxProofs` | type correctness, three safety theorems, the refinement of `EventFeed`; the two theorems of `Backoff` |
| `Backoff` | the wait after failed flushes |
| `Rollup`, `RollupProofs` | roll-up, retention and the queries' choice of source; type correctness, three invariants, one action property |
| `Alerts`, `AlertsProofs` | the alert engine; type correctness and two invariants |
| `Setup`, `SetupProofs` | first-run setup, the key and what it seals; type correctness and three safety theorems |
| `Enrolment`, `EnrolmentProofs` | tokens and certificates on both sides; type correctness, two invariants, one action property |
| `AgentRelease`, `AgentReleaseProofs` | from the workflow's run to the installed agent; type correctness and two invariants |
| `Login`, `LoginProofs` | login, its limits, sessions, edits of accounts; type correctness and two invariants |
| `MC...` | constants of the instances for TLC |

Operators whose names begin with `Faulty` are plausible slips in the definition
that follows them (a dropped guard, a missing reset, a swapped order).  No
specification uses one; substituting one for its neighbour makes the property
that `PROJECT.json` names with it fail, which shows that the property depends
on that line of the code.

### CommandChannel

| Model | Code |
|---|---|
| `status`, `pickedAge` | `commands.status`, and the ticks since `picked_up_at` (capped at `Window`) |
| `handler` | the locals of `poll_commands` requests being served: client, rows still to mark, answer |
| `saved`, `job` | `executed_commands`, `elevated-job.json` |
| `pc`, `queue`, `result` | where each agent process stands in its loop over the polled commands |
| `restarting` | `Restart-Computer` has been called |
| `slept` | ticks since the routine cycle ended (capped at `Window`) |
| `runs`, `unsaved` | history: how often each process ran each command, and how often it died before it saved |
| `spoiled` | history: commands whose delivery a lost answer, a death or a lost post spoiled |
| `faults`, `stagings`, `restarts`, `elevations` | what the bounds count |
| `CreateCommand` | `create_command` |
| `PollSelect`, `PollMark`, `PollReply` | `poll_commands`: the SELECT, one UPDATE per row (an await each), the response |
| `PollLost`, `ServerRestart`, `PostLost` | a request or its response is lost, the server goes away |
| `BeginRoutine`, `BeginElevated`, `Finish` | start and end of a pass, with the staged update, the staged reboot and `Clear-ElevatedRequest` |
| `SkipExecuted`, `Decide`, `Execute`, `Record`, `Post` | `Get-ExecutedCommand`, `Invoke-RemoteCommand`, `Record-ExecutedCommand`, `Send-CommandResult` with `command_result` |
| `Kill`, `MachineRestart` | a stopped task or a statement that throws; the restart |

Payloads, roles and tenant scoping are left out; a command is a reboot or
anything else, because only a reboot reaches past the process.  The poll window
of five minutes is `Window` ticks, and `SlowCycle` says that the routine cycle
(30 minutes) is longer than it.

### Outbox

| Model | Code |
|---|---|
| `event`, `delivered`, `lastId` | rows of `outbox`, their status, SQLite's AUTOINCREMENT sequence |
| `batch`, `excess`, `pc` | locals of each process in `Prune-Queue` and `Send-AgentBatch` |
| `requests` | posts on their way or being served, with the rows they carry and the sender if it still waits |
| `owner`, `copies` | the unique index on `client_msg_id` of `events` and of `metrics`; inserts per event |
| `PruneDelivered`, `CountRows`, `DropOldest` | the three statements of `Prune-Queue` |
| `Collect` | an INSERT by `Invoke-AgentCollection` or `Invoke-MetricsSample` |
| `SelectBatch`, `MarkDelivered`, `GiveUp` | `Send-AgentBatch`: select and post, UPDATE, catch block |
| `Accept`, `Reject`, `Lose` | `ingest`: its transaction, its 400, everything that leaves no trace |
| `Kill` | the process is stopped between two statements |

An event is a number; its kind matters only as metrics or not (two tables, two
indexes) and as refused or not.  `client_msg_id` is `COMPUTERNAME:id`, so for
one agent it is the row id.  The age of a delivered row is abstracted to "rows
up to some id", since rows are delivered and stamped in order of id.

`EventFeed` knows neither ids nor tables: events wait, a batch of the oldest of
them is sent, and the receiver records a batch that was sent, the whole of it
and never one with an event it refuses, or nothing of it.

### Backoff

`failures` is the counter in `Send-AgentBatch`, `wait` what
`Get-NextBackoffSleepSeconds` returns.  The rounding is banker's rounding, as
`[Math]::Round` does it, on thousandths.  The power of two is a recursive
function, so that it can be reasoned about; its theorems are in `OutboxProofs`,
which extends both modules (they share no variable, and `PacingSpec` is named
apart for that).

### Rollup

The clock ticks in half hours, so a sample lies in the first or in the second
half of its hour: that is what decides whether a pass in mid-hour sees it.  A
bucket is the set of rows it was computed from; averages are left out.

| Model | Code |
|---|---|
| `raw`, `hour`, `day` | `metrics`, and `metrics_rollup` with granularity hour and day |
| `lock` | `pg_advisory_lock`, held by a session |
| `pc`, `horizon`, `start`, `todo`, `promote` | locals of a pass: `now`, the resume point, rows fetched |
| `ingested`, `late`, `looked` | history: samples ever seen, those that came after a pass had looked beyond the start of their hour, that pass's clock |
| `cut` | history: hours that began after a pass had read its clock and written their day |
| `Acquire` ... `UpsertDay` | `rollup_once`, one action per statement |
| `PurgeRaw`, `PurgeHours`, `PurgeDays` | `_retention`, each with its own clock reading |
| `Crash` | a statement raises, or the process dies: the session's lock goes |
| `Granularity`, `Series` | `choose_granularity`, `query_series` |

### Alerts

| Model | Code |
|---|---|
| `row`, `alerts` | `alert_rules`, `alerts` in order of id, with how often each was announced |
| `edits` | `update_rule` handlers between their read and their write |
| `seeding` | `seed_rules` in the loop and in `list_rules`, between its SELECT and its INSERT |
| `pc`, `fetched`, `away`, `left`, `pair`, `opened` | locals of `evaluate_rules`; `away` is the last_seen it read |
| `trouble` | the conditions that hold of each agent's rows at the moment |
| `silenced` | history: alerts whose pass failed before its digest |
| `Begin`, `SeedLook`, `SeedInsert`, `Fetch`, `FetchAgents`, `Check`, `Look`, `Insert`, `Clear`, `Digest` | one tick of `alert_loop`, one action per await |
| `Fail`, `Restart` | an exception that the loop logs; the server starts again |
| `Ack`, `Resolve`, `EditRead`, `EditWrite` | the endpoints |

What `_check` computes from payloads is reduced to whether the condition holds.
The offline condition is evaluated on the `last_seen` read at the start of the
pass and the present time, so an agent may fall offline during a pass but not
come back in it.  A condition the code cannot evaluate (`Malformed`: a number
given as text through `update_rule`) raises.

### Setup

A key is a number, a secret is named by who typed it, and a ciphertext is a key
and a text.  `Decrypt` gives back what it cannot open, as `vault.decrypt` does:
the model calls that `Garbled`, and sealing it would be the defect that
`NeverSealedTwice` excludes.

| Model | Code |
|---|---|
| `env`, `file`, `secret` | `SESSION_SECRET` in the environment, in `DATA_DIR`, in the process |
| `certs` | the TLS files of `ensure_certs` exist |
| `done`, `company`, `smtp`, `github`, `admins` | the settings of the transaction, and `users` |
| `stage`, `held` | where each `run_setup` stands, the key it minted and the secrets it sealed |
| `building`, `pat` | `build_trigger` handlers and the token each has read |
| `sessions`, `copies` | keys that sign somebody's cookie, keys somebody downloaded |
| `upsets` | history: setups overlapped, the volume refused a write, the environment holds a key |
| `Check`, `Prepare`, `Open`, `Commit`, `RollBack`, `Answer`, `Retry` | `run_setup` between its awaits, its transaction, its failures, the wizard's next try |
| `ReadBuildSettings`, `Dispatch`, `Refuse`, `Save` | `build_trigger` |
| `Login`, `Expire`, `Download`, `Restart` | a session, its end, the operator's copy, a new process |

### Enrolment

| Model | Code |
|---|---|
| `now` | half days: the agent compares fractions of a day, the server whole days |
| `caKey`, `caCrt`, `serverFor` | `ca.key`, `ca.crt`, and the host of `server.crt` |
| `crt`, `keyFile` | the agent's two files under `certs/clients/` |
| `token`, `revoked` | the row of `agents` |
| `requests` | `agent_enroll` handlers, whether or not the sender still waits |
| `pfx`, `tokenFile`, `pc`, `answer` | the agent's disk and its two processes in `Ensure-ClientCert` |
| `upsets` | history: two first enrolments raced, a kill during setup left a CA without its server certificate, an agent came before setup |
| `Authorize`, `LookUp`, `Store`, `ServeCert`, `ToPfx`, `EnsureCa`, `IssueCert`, `IssueKilled`, `Reply` | `agent_enroll`, `issue_agent_token`, `issue_client_cert`, `_to_pfx` |
| `SetupCerts`, `SetupKilled`, `Revoke`, `Unrevoke` | `ensure_certs` called by setup; the operator's endpoints |
| `DropPfx` ... `SaveToken`, `GiveUp` | `Ensure-ClientCert`, one action per file it touches |

Keys and certificates are not computed: a certificate is who signed it, when it
ends, and whether the key bundled with it is its own.  `_to_pfx` raises for a
key that is missing or not the certificate's own, so `ServeCert` then answers
with nothing.

### AgentRelease

An artifact is its position in the order of creation; `Version` says which
version each installs.  The MSI on the volume is an artifact, one placed there
by hand (`Placed`), or broken (`Partial`); the stamp names an artifact, is
missing, or was truncated and not written (`Unreadable`).

| Model | Code |
|---|---|
| `run`, `uploads`, `expired` | GitHub's side (external) |
| `msi`, `stamp` | `ARTIFACTS_DIR`: the MSI and `.msi_artifact.json` |
| `sync`, `want` | `_try_github_sync` between its requests and its writes |
| `target` | `agent_target_version` |
| `installed`, `staged` | the agent's version, its staged elevated request |
| `download`, `got` | for each pass, the download under way and what has come of it |
| `newest`, `blind` | history: the newest artifact ever fetched; older ones that a poll with an unreadable stamp asked for |
| `AskStatus`, `AskArtifact`, `Skip`, `WriteStamp`, `Unpack`, `Write`, `SyncFails` | `build_status`, `_try_github_sync`, `_needs_msi_refresh`, `github.py`: each write truncates its file first |
| `SetTarget`, `UpdateAvailable` | `set_agent_update_target`, `agent_update_info` |
| `Check`, `NoUpdate`, `Finish`, `DownloadFails` | `Update-AgentIfNeeded` in the routine and in the elevated pass, which may download at once |
| `Stage`, `Install`, `ClearRequest` | the routine pass stages a request, the elevated one runs msiexec and clears the request |

The server's fetch is synchronous inside an async handler, so it blocks the
event loop and no other request is served during it; GitHub goes on, and a
download that began before it reads the file while it is overwritten.  msiexec
is external: it installs a whole package, also one placed by hand, and refuses a
broken one and one that is not newer.

### Login

| Model | Code |
|---|---|
| `users`, `sessions` | `users`; who holds a valid cookie |
| `api`, `logins`, `failures` | the buckets of `ratelimit.py` as ages of their entries |
| `req` | the handlers of `login`, `create_user` and `update_user` between their awaits |
| `over`, `crossed` | history: failures of a name recorded while its lock was already closed; an edit was written over another |
| `Arrive`, `Burst`, `Check`, `TooMany`, `LockedOut`, `Fetch`, `Verified`, `Fail`, `Succeed`, `Answer` | the burst limit and `login` |
| `Admit`, `Create`, `ReadRow`, `WriteRow` | `require_session`, `create_user`, `update_user` |
| `Leave`, `Drop`, `Restart`, `Tick` | `logout`, a request whose query fails, a new process (its buckets are empty), time |

`Arrive` joins the burst limit's hit to the first step of the handler, because
nothing else reads that bucket between the two.

## How the components meet

`/ingest` writes the `metrics` rows that `rollup_once` reads and the `events`
rows that `_check` reads; the models cut there, at the table: `Rollup!Ingest`
and `Alerts!Report` let samples and reports of any age arrive at any moment,
which is more than `Outbox` delivers (a batch arrives whole and in order of
id).  The command channel and the self-update share the elevated request file,
so the staging of an update is an action of `CommandChannel`; `AgentRelease`
has the other end, the install that the staged request asks for.  Setup makes
the server's certificate and the CA that enrolment uses, so `Enrolment` has both
orders of the two.  The outbox and
the command channel share the agent's SQLite file but no table; an error of
one is a `Kill` in the other, for both stop the script.

## Runs

All runs finish well within five minutes on two cores.

The type invariant of every module but `Backoff` is proved for all values of the
constants (`TypeCorrect`); the runs of the two protocols between the agent and
the server check theirs as well, the others leave it to the proof.

| Run | Checks | Instance | Why the bounds are enough |
|---|---|---|---|
| `command_safety` | `TypeOK`, `RunsAccountedFor`, `PortalShowsDelivery`, `ReportedIsSaved`, `NoUninvitedReboot` | 2 commands (one reboot), both processes, 2 handlers, window 1, 1 staged request, 1 elevated pass, 1 restart, 1 fault | every pair of processes, handlers and commands interleaves, and a fault, a restart and a redelivery fall anywhere; the theorems cover the rest |
| `command_live` | `EventuallyOffered`, `SettlesUnlessSpoiled`, `LifecycleSpec` | 2 commands (one reboot), both processes, 2 handlers, `PollLimit` 1, `SlowCycle`, 1 elevated pass, 1 restart, 1 fault | with limit 1 an unsettled command can keep the other one out; the elevated pass can run a polled reboot and go down before it posts; a poll can mark a command that the other process has reported |
| `command_at_most_once` | `AtMostOnce` | 1 command | see Findings |
| `outbox` | `TypeOK`, `NothingLost`, `StoredOnce`, `MessageIdsUnique`, `FeedSpec`, `EventuallyStored` | 4 events (one of metrics, one refused), both processes, batches of 2, cap 2, 2 faults | the cap is exceeded, batches overlap, a refused event blocks its batch, the sender dies while its post is served |
| `backoff_range` | `WaitInRange`, `GrowsToCap` | every jitter, 8 failures | the cap is reached at the sixth failure |
| `rollup` | `OnTimeKept`, `HoursPromoted`, `ShortWindowsExact`, `BucketsStay`, `EventuallyRolled` | 7 half hours, 2 samples of any age, days of 2 hours, retentions 2 / 4 / 5 ticks, 2 workers, 1 crash | all three retentions bite, a day ends, a pass spans a tick |
| `rollup_unrolled` | `CompletedHoursRolled` | 1 worker, 2 samples, no delay | see Findings |
| `alerts` | `OneOpen`, `AnnouncedOnce`, `PersistentReopens`, `ClearedResolves` | 2 rules, 1 agent, 2 conditions and a malformed one, 3 changes, 1 fault | three changes make an alert, its acknowledgement and an edit; one fault ends any pass anywhere |
| `setup` | `OneKey`, `CompleteIsWhole`, `NeverSealedTwice`, `SetupCompletes` | 2 setups (one with a mail account), 1 build trigger, 2 user names, a key in the environment or none, 7 keys, 2 faults | two setups overlap or follow each other with a restart or a refused write on either side; 7 keys are more than are ever in use at once |
| `enrolment` | `TokenWorks`, `CertsFit`, `RenewalSticks`, `EventuallyEnrolled` | both processes, certificates of 2 days with a margin of 1, 3 half days to pass, 2 elevated runs, 1 fault, 3 tokens, 3 CAs | a certificate enters the margin between two whole days and is renewed, the renewal itself may be killed between the two files, the two processes overlap at every file |
| `release` | `NeverOlder`, `StampHonest`, `EventuallyCurrent`, `RolloutReaches` | 2 runs of the workflow, 2 versions, an MSI put there by hand or none, 1 fault | the second artifact may come, expire or fail between any two requests or writes of a fetch, and both passes of the agent meet either and each other; the exception of `NeverOlder` needs a third run and is left to the theorem |
| `login` | `SomebodyActive`, `FailuresBounded`, `LockEnds` | 2 requests at a time, 2 accounts, lock after 1 failure for 2 ticks, 1 login in 2 ticks, 1 call in a tick, 4 payloads, 3 wrong passwords, edits or faults | two attempts pass the check together and both fail, an edit crosses another, every window opens and closes; the theorem has any number of requests |

The bounds in guards are `MaxFaults`, `MaxStagings`, `MaxRestarts`, `MaxElevated`
(commands), `MaxEvents`, `MaxFaults` (outbox), `MaxFailures` (back-off), `MaxTime`,
`MaxSamples`, `MaxCrashes` (roll-up), `MaxChanges`, `MaxFaults` (alerts),
`Keys`, `MaxFaults` (setup), `Tokens`, `MaxCAs`, `MaxTime`, `MaxElevated`,
`MaxFaults` (enrolment), `MaxRuns`, `MaxVersion`, `MaxFaults` (release),
`MaxTrouble` (login).
`MaxPass` and `MaxDelay` are parameters of the environment.  Handlers are
symmetric in `command_safety`, which checks no liveness; no other run uses
symmetry.  Deadlock is checked wherever loops never stop (the agent's
cycles, the roll-up and alert loops, setup's restarts, login's clock).  It is
off in `enrolment` and `release`: an agent that is enrolled, or up to date, has
nothing left to do until a certificate ages or a build comes, and both are
bounded there.

### What the properties say

* `RunsAccountedFor`: one process runs a command twice only if it was killed
  between the run and the save.  `ReportedIsSaved` is the other half: what the
  server shows as done is on the agent's disk.
* `PortalShowsDelivery`: the UPDATEs of a poll come before its answer, so what
  an agent holds is never shown as pending, however polls interleave.
* `NoUninvitedReboot`: a restart, also one that repeats, goes back to an
  operator's command; an update request is not taken for one.
* `LifecycleSpec`: with both processes and any polls, a command is offered
  before it runs and runs before it is reported.  What the portal shows is not
  monotonous: `poll_commands` marks without a guard on the row's status
  (`main.py:1034`), so a poll that selected a command before its report can turn
  it back into picked up.  `CommandLifecycle` allows exactly that (`Offer` by a
  poll under way), and no other overwriting: a poll that begins after the report
  leaves it alone.
* `EventuallyOffered`: rows that never settle fill the LIMIT only until their
  window is over.  It needs a routine cycle longer than the window (the packaged
  default) and finitely many elevated passes.
* `SettlesUnlessSpoiled`: a command gets its result unless its *own* delivery was
  spoiled, by the loss of the answer that carried it, the death of a process that
  held it (a restart of the machine included, which no count of faults covers),
  or the loss of its result's post.  Nothing makes up for that.  What happens to
  other commands is no excuse.
* `NothingLost`, `StoredOnce`, `MessageIdsUnique`, `FeedSpec`,
  `EventuallyStored`: the outbox contract.  `FeedSpec` is what says that a batch
  is recorded whole or not at all; `EventuallyStored` carries its exception in
  its statement, a refused event that still waits, and does not count on the
  elevated task.
* `OnTimeKept`, `EventuallyRolled`: about samples that came before a pass had
  looked at their hour.  Samples that come later may never be rolled
  (`CompletedHoursRolled` in Findings), so the properties are stated with that
  history rather than without it.
* `BucketsStay`: an upsert never changes a bucket, so `ON CONFLICT DO UPDATE`
  never meets a conflict with other contents.
* `HoursPromoted`: the retention does not overtake the promotion to days: by then
  an hour is *in* its day's bucket.  Its exception is a disagreement of the code
  with its docstring, named `cut`: the first pass of a day writes the day's
  bucket from the hours so far, and the next resumes behind it
  (`timeseries.py:335-343`, against "the most recent COMPLETED hour/day" at 299),
  so the hours that begin later never enter a day.
* `ShortWindowsExact`: the border of the query's source agrees with the border
  of the deletion.
* `OneOpen`, `AnnouncedOnce`, `PersistentReopens`, `ClearedResolves`: the alert
  contract; `AnnouncedOnce` names the passes that fail as its exception.
* `OneKey`, `CompleteIsWhole`: what the comments of `run_setup` promise.  Both
  name what can break them (two setups that overlap, a volume that refuses the
  key, a key in the environment) and hold for every other history, failed
  setups and restarts between the rotation and the commit included.
* `NeverSealedTwice`: `build_trigger` seals the token it read, and what it read
  may be a ciphertext that `decrypt` could not open; GitHub refuses that one
  before it is saved.  `SetupCompletes`: no failure shuts the wizard.
* `TokenWorks`: a handler that outlives its sender, a retry, a kill between the
  two files or a renewal never leaves the agent a token the row does not have,
  except when two *first* enrolments both find none.
* `CertsFit`: no certificate is sent with another's key, whatever is killed; the
  CA is one unless setup was killed between the CA and its server certificate.
* `RenewalSticks`: the agent's and the server's idea of "expiring" differ by up
  to a day, and the one direction that would make every start of the agent an
  enrolment is excluded.
* `EventuallyEnrolled`: an agent that keeps running ends up with a token that
  works and a certificate of the present CA.  It is held up while a fresh
  certificate lies there without its own key (`Wedged`), for the bundle is then
  refused (`certs.py:224`), until that certificate nears its expiry.
* `NeverOlder`: there is one way back to an older build, and it takes two
  mishaps: a poll found a stamp that was truncated and not written, so that
  anything on offer counted as newer, and the newer build has gone from GitHub.
* `StampHonest`, `EventuallyCurrent`: the stamp decides whether to fetch, so it
  must not run behind the MSI; it may run ahead after a failed fetch, which
  `EventuallyCurrent` names as its exception (`StampAhead`).
* `RolloutReaches`: through torn downloads and a staged install, under strong
  fairness of the agent's passes.
* `FailuresBounded`: the check and the record are apart.  Once `FAILED_MAX`
  failures of a name are on record only attempts that were past the check by
  then can still fail, each once, however long they take.  With `N` requests
  under way at a time a name can thus fail up to `FAILED_MAX - 1 + N` times in a
  row, which is more than the "max FAILED logins per username" of
  `ratelimit.py:9` and is bounded by nothing but the requests the server takes.
  How long the lock then lasts is a matter of the bucket, which keeps
  `FAILED_MAX + 1` entries; no property speaks of it.
* `LockEnds`: attempts while the name is locked are not recorded, so they do not
  prolong the lock.
* `SomebodyActive`: an administrator's own row outlives each edit it makes.

### Findings

Runs that expect a violation: what a text of the repository says, and the code
does otherwise.  `PROJECT.json` quotes the lines.

1. `AtMostOnce`: both processes read `executed_commands` before either writes
   it, and the command runs twice.
2. `CompletedHoursRolled`: a pass writes the bucket of the hour in progress and
   the next one resumes behind it, so the second half of that hour stays raw
   until the retention deletes it.

Met while modelling, present in the models as in the code, and named as
exceptions in the properties where a property would otherwise say more than the
code does:

* Commands: the post of a result is not repeated: `Agent-Collect.ps1:943` skips a
  command that was executed, where the comment at 307-309 has the agent re-post
  the saved result.  A result whose post was lost, or that was saved by a process
  that then died, leaves the row picked up for good (`spoiled`); an elevated pass
  that runs a polled reboot may go down with the machine in just that place.  The
  UPDATE of a poll can overwrite a result reported meanwhile (`main.py:1034`).
  A reboot staged while an elevated pass runs
  is cleared with the request that pass read (`Agent-Collect.ps1:910`, against
  the comment at 77).  A staged reboot repeats when the machine goes down before
  its request is cleared.
* Outbox: the flush sleeps `min(wait, 15)` seconds (`Agent-Collect.ps1:569`), so
  the back-off has no effect beyond fifteen; a wiped queue file restarts the row
  ids and the server takes new events for old ones; two processes that count
  before either deletes drop the excess twice.
* Roll-up: hours that begin after the first pass of their day has written the
  day's bucket never enter it (`timeseries.py:335-343`, against the docstring at
  299), so once the hourly retention has passed them the daily average stands for
  the beginning of the day (`cut`).  The raw fall-back in `agent_metrics` (`main.py:1638`) asks for a
  window within the raw retention whose granularity is not raw; there is none.
* Alerts: an acknowledged alert does not count as existing, so the next pass
  opens and announces a second one (`rules.py:316`); an exception later in the
  pass skips the digest (`rules.py:335`), and the next pass finds the alerts
  open; of two overlapping edits of a rule one is undone.
* Setup: two setups that overlap may leave secrets under a key that is gone
  (`main.py:460`), and so does a key in the environment that the rotation does
  not reach (`config.py:147`).
* Enrolment: the enrolment is not idempotent when two first ones race
  (`main.py:265`, against 263).  A kill between the client certificate and its
  key (`certs.py:209`) leaves a certificate that is fresh and whose key is
  missing, or at a renewal another's; either way `_to_pfx` raises (`certs.py:224`)
  and every enrolment fails until the certificate nears expiry (`Wedged`).  An agent that enrols before setup pins the
  server's certificate to `localhost` (`certs.py:143`).  A call that is refused
  still refreshes `last_seen` (`main.py:254`).
* Release: a failed download leaves a stamp for an artifact that never came
  (`github.py:171`).  The same line truncates the stamp before it writes it; a
  kill or a full disk in between leaves one that cannot be read, the next poll
  fetches whatever is on offer (`main.py:888-891`), and that is an older build if
  the newer one has gone (`blind`).  Clearing the target, or setting the bundled version, offers
  nothing, so agents are not rolled back; an agent already at the target is
  still offered the update at each check (`main.py:1360`), and msiexec declines.
* Login: attempts at once exceed `FAILED_MAX`, by as many as there are, less one
  (`ratelimit.py:9`, see `FailuresBounded`); a failure beyond the bucket's cap of
  `FAILED_MAX + 1` leaves no trace, so the lock opens without regard to it.  The
  burst limiter's docstring exempts login, the code does not
  (`ratelimit.py:69`).  Overlapping edits of an account can undo each other, and
  a sole administrator may give up the role.

## Fairness

* **Commands:** weak fairness of the server's steps, of each process's steps,
  of the clock and of `BeginRoutine`: the event loop runs every ready handler, a
  running script goes on, and Task Scheduler starts the routine task for ever.
  None of an operator's actions, none of a fault, none of the machine's restart,
  none of `BeginElevated` (the task is on demand, `Agent.wxs:165`).
* **Outbox:** the routine process starts and runs on for ever, the elevated one
  runs on once it has started (its weak fairness is of the steps after `idle`),
  and a request that has arrived is served (accepted or refused).  `Collect` and
  every fault are unfair.
* **Roll-up:** `rollup_loop` sleeps and tries again whatever happened, so some
  worker acquires a free lock, and a pass runs on.  The clock need not move.
* **Alerts:** `alert_loop` likewise; a request that has begun ends.

* **Setup:** handlers run on, and an operator whose setup failed sends it again.
* **Enrolment:** the server serves what has arrived, Task Scheduler starts the
  routine process again, and the elevated one runs on once it has started;
  nothing of revocations or the clock.
* **Release:** the build page polls; weak fairness for what a pass does by itself
  (`Stage`, `Install`, `ClearRequest`), strong for `Check` and `Finish` of either
  pass, which a fetch that blocks the event loop disables now and again.  The
  elevated pass checks only when a request is staged.  Nothing of GitHub or of
  the operators.
* **Login:** time passes, requests are answered, and the user who knows the
  password tries again and again (strongly: the burst limit and the lock disable
  the attempt in between).

Faults are bounded, so "once faults stop" is part of every liveness statement.

## Proofs

TLAPS proves the following for every value of the constants that satisfies the
named assumptions (`CommandAssumption`, `OutboxAssumption`,
`RollupAssumption`, `WorkersAssumption`, `AlertsAssumption`, `NoneAssumption`,
`SetupAssumption`, `EnrolmentAssumption`, `ReleaseAssumption`,
`LoginAssumption`, `BackoffAssumption`).

* **`CommandChannelProofs`**: `TypeCorrect`, `RunsAreAccountedFor`,
  `PortalIsNeverBehind`, `ReportsAreSaved`, `RebootsAreInvited`.  The invariant
  `IInv` adds to `TypeOK`: `ResultReady` (a process about to save or post has a
  result), `ClientInv` (a process a handler answers is polling, so its answer
  meets an empty queue), `RunsInv` (a run not yet accounted for is one a process
  is about to save, or is saved: the bound alone is not inductive, for the step
  that runs the command needs to know that nothing is saved and nothing was run),
  `DeliveryInv` (the rows of an answer are marked, or still to be marked) and
  `SavedInv` (a process about to post has saved).

  `ChannelImplementsLifecycle`: for any set of processes and of poll handlers
  every step maps to a step of `CommandLifecycle` or to a stutter.  The phase is
  the row's status, a command has run when some process ran it, and what a poll
  has still to offer is its handler's `todo`.  A SELECT is a `Poll`, each UPDATE
  an `Offer` (`SelectIsPoll`, `MarkIsOffer`); `DeliveryInv` makes `Execute` a
  `Run` of a command that was offered (`ExecuteIsRun`), and `RanInv` (what is
  about to be saved or posted was run) makes `Post` a `Report` of one that ran.
* **`OutboxProofs`**: `TypeCorrect`, `NoEventIsLost`, `EventsAreStoredOnce`,
  `IdsAreUnique`.  `IdInv`: row `i` holds event `i`, and a request's rows are
  below the sequence; `OwnerInv`: an id the server knows belongs to the event of
  that number, and copies count exactly those; `BatchInv`: what is delivered or
  about to be marked is stored, and a process that waits has its post under way
  with the rows of its batch.  The loss of an event would need a row marked
  before the server had it, which `BatchInv` excludes for posts that are
  orphaned, repeated or answered late.

  `OutboxImplementsFeed` maps the outbox to `EventFeed`: recorded are the events
  stored in either table, waiting are those in pending rows, sent are the batches
  of the requests under way.  Because row `i` holds event `i` (`IdInv`), what
  waits is the set of pending ids, so the flush's SELECT sends the oldest of it
  and the cap, which deletes the lowest ids, takes a prefix of it
  (`LowestIsOldest`); because of `BatchInv` the UPDATE of a batch forgets only
  what is recorded.  A served request records the whole of its batch: what it
  does not insert is known already, and the id it is known by belongs to the same
  event (`OwnerInv`).  A batch may be sent twice, so the answer to one request
  takes it off the way or leaves the other (`SentAnswer`).
  `WaitsAreInRange` and `WaitsGrowToTheCap` are about `Backoff`.  Their invariant
  `PacingInv` says that the wait was drawn for the present number of failures;
  the rest is arithmetic (`RoundBounds`, `ExponentialBounds`, `NextWaitDrawn`) and
  the recursion of `Power2`.  The library's induction theorems take the
  predicate as an operator, which the provers cannot instantiate, so `Induction`
  states induction for a set instead and is proved from the pigeonhole principle
  of finite sets; with it `PowersThere` and `PowersAgree` build the function
  that satisfies the equation of `Power2`, and `Power2Type` bounds it.
* **`RollupProofs`**: `TypeCorrect`, `SamplesOnTimeAreKept`,
  `BucketsAreWrittenOnce`, `HoursHaveTheirDays`, `ShortWindowsAreExact`.  `LockInv` (a worker inside a pass holds the lock)
  reduces two workers to one.  `FrontierInv` is the centre: an on-time sample is
  kept, or lies beyond every rolled hour; it is needed because the resume point
  is derived from the newest bucket, so a bucket written out of order, or one
  written for an hour with samples yet to come, would hide older rows.
  `CoverInv` says that a pass that has come to the retention has rolled every
  raw row before its horizon, which with `MaxPass <= RawRetention` makes the
  deletion harmless: that assumption is the one the code does not enforce, and a
  pass of 48 hours would break it.  `StartInv`, `TodoInv`, `PromoteInv` hold the
  locals of a pass, `PastInv` and `OnTimeInv` tie the history to the clock.

  `HoursHaveTheirDays` has the same shape one level up, in `DInv`.  An hour is
  *kept by its day* when it or its day has expired or the day is written
  (`DayKept`).  `DayFrontierInv`: no rolled hour lies on or before a written day
  without being so kept, for the promotion resumes from the newest day as the
  roll-up does from the newest hour; `DayCoverInv` follows a pass: at the
  promotion an hour is kept or among the rows fetched, at the retention it is
  kept.  `PromoteRolled` and `DayRowsInv` say that the fetched hours, and those a
  day was computed from, are rolled (the latter unless they have expired).  That
  the hour is also *in* the bucket of its day is `DayHasInv`.  It rests on
  `CutInv`, by which every hour of a written day had begun when a pass read its
  clock or is `cut`, and on `BehindInv`: no sample on time is still to be rolled
  into a written day, except into an hour that is cut.  A late sample can open an
  hour on a day already written; that sample is what `late` excepts.
  `ShortWindowsAreExact` needs only `RawKept`: a sample is raw until the raw
  retention has passed it, and `choose_granularity` reads the raw rows for a
  window that short.
* **`AlertsProofs`**: `TypeCorrect`, `OneOpenPerPair`,
  `AlertsAreAnnouncedOnce`.  `Unique` (two open alerts of one pair are the same
  alert) replaces the cardinality; `LookedInv` says that between the SELECT and
  the INSERT no open alert of the pair appears, because only the loop opens one;
  `DisjointInv` keeps the alerts of the running pass apart from those of failed
  ones.

* **`SetupProofs`**: `TypeCorrect`, `SealedOnce`, `KeyIsOne`, `SetupIsWhole`.
  `TypedInv` follows each ciphertext from the handler that sealed it to the
  settings.  `WholeInv` joins `DoneInv` (before setup is done nothing is stored,
  signed or being built), `SoleInv` (unless two overlapped, one setup at a time
  is past its check and none once it is done) and `KeyInv` (unless something
  parted them, what is stored and what a handler holds is under the process's
  key).  The last needs the middle one: a rotation is harmless only because no
  other handler holds something sealed.
* **`EnrolmentProofs`**: `TypeCorrect`, `TokensAgree`, `CertificatesFit`,
  `RenewalLasts`.  `TokenInv`: unless a race was seen there is at most one
  minted token, and none once the row has one, so a late `Store` cannot replace
  a token somebody has.  `MateInv`: every certificate on the agent or on its way
  has its own key, with no exception, because `_to_pfx` refuses any other.
  `CaInv`: unless a kill tore the CA from its server certificate, the CA is made
  once and everything issued is signed by it; `ServerInv`: a server certificate
  comes no earlier than the CA.  `RenewalLasts` is arithmetic on the rounding,
  with `2 * Renewal + 1 < Life`, which the code's 825 and 45 days satisfy.
* **`AgentReleaseProofs`**: `TypeCorrect`, `NewestKept`, `StampIsHonest`.
  `UploadInv` bounds the artifacts by the runs that may still make one (a
  cardinality).  `NewestInv`: the stamp, a fetch under way and the MSI are each
  `Forward`, which is at least as new as anything fetched before, or asked for
  without a readable stamp (`blind`) when everything between it and the newest
  fetched had expired (`Outlived`).  The second half is needed for more than the
  MSI: a stamp that was left behind once lets later polls fetch what is newer
  than it and still older than the newest, and only `Outlived` says that there
  is no such artifact any more (`AskForward`).  `HonestInv` is `StampHonest`
  extended over a fetch that has only asked.
* **`LoginProofs`**: `TypeCorrect`, `ActiveStays`, `FailuresStayBounded`.
  `ActiveInv`: the administrator of an edit under way has a row and does not
  disable itself.  `FailuresStayBounded` holds for every finite set of requests
  under way, without a further hypothesis: `FailuresBounded` counts the failures
  recorded since the lock closed together with the attempts that may still add
  one (`Trying`), and is inductive with `TypeOK`.  The lock lets no attempt in
  while it is closed (`CountCheck`), a failure moves one attempt from the second
  number to the first (`CountFail`), and the failure that closes the lock leaves
  its handler free, which is where the strict bound begins.

So every safety property that a passing run checks, the two refinements and the
action properties included, is a theorem.  Only model-checked are the eleven
liveness properties, for TLAPS has no ENABLED and so no fairness:
`EventuallyOffered`, `SettlesUnlessSpoiled`, `EventuallyStored`,
`EventuallyRolled`, `PersistentReopens`, `ClearedResolves`, `SetupCompletes`,
`EventuallyEnrolled`, `EventuallyCurrent`, `RolloutReaches` and `LockEnds`.
`CommandLifecycle` and `EventFeed` promise safety only.

## Not modelled

* Database pool and migrations: several first requests may each make a pool, the
  last of which is kept; no data depends on it.  The statements are idempotent.
* Heartbeat, companies, settings, features, audit: single statements without a
  protocol.
* Password hashing, signatures, X.509 and SMTP are used, not modelled: what the
  protocols need of them is a record that says whose they are.
* Reports and exports only read; middleware and metrics only observe.
* Collectors, portal, deployment, packaging and the stand-alone toolkit are
  sequential scripts or user interface.
* Simplifications of modelled parts: roles and tenants; the agents of `Alerts`
  are a fixed set, and all of them have reported; an evaluation pass is short
  against the minutes of the offline condition; one agent per instance of the
  command channel, the outbox and the roll-up (rows of different agents never
  meet: every statement selects by agent, or by a message id that carries its
  name); duplicate message ids sent by a client other than the agent script.

## Plan

1. **Delivery**, a composition of `Outbox` and `Rollup`: which of the samples
   that a retry delays are late in the sense of `Rollup`.
2. A composition of `AgentRelease` and `CommandChannel` over one elevated
   request file: an update staged next to a reboot.
3. Several agents in `Enrolment`, for two machines with one host name.
