# A TLA+ model of BackupDB

BackupDB backs up MySQL, PostgreSQL and MongoDB databases to Google Drive or S3.
This directory holds TLA+ modules for the parts of it that are hard to test, TLC
configurations that check them on small instances, and TLAPS proofs of the main
results for every instance. `PROJECT.json` lists the runs, the source lines behind
each definition, the hazards, the findings and the theorems.

## 1. The system

Four long-running processes share one SQLite file (the *registry*) and a Redis list;
a fifth, the *agent*, runs on other servers.

| Part | State it keeps | Operations | Talks to |
|---|---|---|---|
| admin (`internal/admin`) | the table of sessions, in memory | about 40 HTTP handlers, each in its own goroutine, without transactions | registry, queue, storage, agents |
| scheduler (`cmd/backupdb/scheduler.go`) | the list of due items of the current pass | a pass every 30 s: list, create row, push, mark | registry, queue |
| queue (`internal/queue`) | a Redis list | `RPUSH`, `BLPOP`, which the client library repeats when a reply is lost | — |
| consumer (`cmd/backupdb/consumer.go`) | the job in hand, one goroutine per remote job, temporary files | pop, dump, upload or dispatch, record, list the file, notify | queue, registry, storage, agents |
| agent (`cmd/backupdb/agent.go`) | a table of jobs, a bounded queue, one worker; all in memory; certificate and key in two files | start-up, `/run`, `/status`, sweep | storage |
| registry (`internal/registry`) | databases, schedules, groups, channels, links, destinations, agents, log, file list | single statements; migrations when a process opens the file | — |
| storage (`internal/storage`) | OAuth tokens in the registry, files elsewhere; a provider per job, from a copy of its destination's row | build, upload, download, token refresh | Google Drive, S3, registry |
| dump, notify | none | dump tools, Telegram | outside services |

What is hard about it, and what correctness means there:

* **Consumer.** The outcome of a job is spread over five statements and two outside
  services, each of which fails on its own, and a SIGTERM or a crash falls between any
  two. The log must never claim a backup that is not there, never mix up two jobs (the
  log can be cleared while they run), and account for every job that ended. A job may be in
  the list twice, as the client library retries an `RPUSH` whose reply was lost.
* **Scheduler.** The push and the mark are two systems' writes; a minute has two passes.
  A schedule must fire once a day and not be lost to one failure.
* **Agent and its client.** Requests and answers get lost, the agent forgets everything
  when it restarts, results are swept after a day. The consumer must not report an
  outcome that did not happen and must stop waiting.
* **Registry.** All processes migrate the same file at once; admin requests interleave
  statement by statement with each other and with the consumer.
* **Storage.** Uploads take hours and hold a copy of a row that is edited, deleted or
  given a new login meanwhile; refreshed tokens are written back by id. What the storage
  page shows must fit the token, and a download must return the backup that was asked for.
* **Agent start-up.** Certificate and key are two files. A fingerprint that was pinned must
  go on matching, and no interruption may leave files the agent cannot start from.
* **Admin pages.** Requests arrive after their session has ended. The log page is a count
  and a list of a table that changes between them and between pages.

The list of hazards with their lines is in `PROJECT.json`.

## 2. Modules

| Module | Models | Composition |
|---|---|---|
| `RunLedger` | abstract: what the log page promises | — |
| `Pipeline` | a backup request from its row to its recorded outcome | implements `RunLedger` (`Ledger`) |
| `Scheduler` | `runScheduler`, and the switches the admin turns | — |
| `Agent` | the agent's job table, queue, worker and sweep | — |
| `Dispatch` | the consumer's side of the protocol and the network | extends `Agent` |
| `Migration` | `registry.Open` in several processes | — |
| `Registry` | the admin handlers that change databases, groups, links and timers | — |
| `Storage` | destinations, their logins and tokens, uploads, the file list, downloads | — |
| `AgentCert` | the agent's start-up, the rows that pin its certificate, connections | — |
| `AdminWeb` | login, sessions, the pages of the log | — |
| `MC*` | symmetry sets, and the clock, schedules, names and page sizes of the instances | extend the modules above |
| `*Proofs` | theorems | extend the modules above and TLAPS |

A definition named "Seeded fault" is a plausible mistake in the definition below it;
nothing uses it except the check that each property would notice such a mistake.

### Pipeline

A job `j` is a program counter `pc[j]` that goes through the producer
(`handleBackupNow`, `enqueueDue`, `runBackup`), the list in Redis, and `processJob`
statement by statement. `queue.New` leaves go-redis at its default of sending a command
again whose reply was lost, so one push may append its job twice. `Requests` are the jobs
that have a producer, `Copies` those a retried push may append (`PushAgain`): a copy carries
its request's RunID, comes at any time after the first append, and is processed like any
other job, in turn or, with an agent, at once with it. `Original` leads from a copy to its
request, and `Repeated` are the requests that have come to the list twice. `rows` is
`backup_runs` (with `lastId` for `sqlite_sequence`), `files` is `backup_files`, `tmp` the files in `TmpDir`, `stored` what has reached the
storage, `main` the loop of `runConsumer`, `cancelled` its signal context. Local jobs run
in the loop, jobs of an agent in a goroutine each; the deferred calls of `runConsumer`
run in their order (`Drained`, `Close`). An agent is one step here (`AgentRuns`);
`Dispatch` has the details.

`Faults` chooses what may fail in an instance: `registry` (any statement), `redis`
(a lost BLPOP reply, a failed push), `retry` (a push that the client carries out twice),
`agent`, `remove` (an `os.Remove` whose error the code ignores), `sigterm`, `crash`. Dumps
and uploads always may fail, and an upload that reports an error may have stored the file.

Only jobs with the command `backup` exist, as in the code. Data (names, sizes, texts of
errors) is left out; of a start time the model keeps whether it is blank or known.

### Scheduler

Time advances in ticker periods of 30 s; the constants `Hhmm` and `Day` say what the
clock shows in each, so a clock that is put back is an instance. A *trigger* is a row
with a time and a `last_run_date`, and an *item* a pair of a trigger and one of its
databases. `BeginPass`/`ListShared` run the two queries, `Take`, `Push`, `Mark` are
`enqueueDue` statement by statement. `failures` counts failed queries, inserts and pushes,
`slips` counts what may make a trigger fire twice: crashes, failed marks, lost replies to
a push. The client sends a push up to three times more (`MaxRetries`): `PushRetried` is one
that succeeds in the end, `PushReplyLost` one that does not, and the list has every copy. In the periods of `Calm` there are no slips, passes end within the period,
nobody turns a switch and everything is on; queries, inserts and pushes still fail, and
`failed` remembers in which calm periods one did. `OwnFiredOnTime` speaks of a minute of
two calm periods that are not both in `failed`.

### Agent and Dispatch

The handler of `/run` registers the job and then offers it to the queue (`HandleRun`,
then `Accept` or `Refuse`), as in the code, where a sweep may fall in between. `ended`
is a history variable: how the work on a job really ended. A restart empties table and queue and
records the lost jobs in `forgotten`. `Dispatch` adds the goroutine in the consumer, POSTs that are
lost or arrive after the client has given up, and a clock that respects the HTTP timeout.

### Migration

Each migration looks whether the file has an outdated trait (`Check`) and removes it in
one later transaction. The initial file is any that an earlier version may have written,
or none. An error ends the process; Docker restarts it.

`migrateDatabasesNameUniqueScope` has three steps after its check: it switches foreign keys
off (`ForeignKeysOff`), rebuilds the table in a transaction (`RebuildDatabases`), checks the
references and switches foreign keys on again (`ForeignKeyCheck`). `enforcing` is the set of
processes whose connection has foreign keys on, and it matters: `DROP TABLE` first deletes
the rows, and with foreign keys on the `ON DELETE CASCADE` of `schedules` takes every
schedule along. Processes that have the file open while others still migrate add databases
(`Insert`), add schedules (`CreateSchedule`) and delete databases (`Delete`), whose cascades
and rejections depend on `enforcing` too.

The repository's own README (`src/README.md:107`) says that there is no automatic migration
between versions and that the volume is to be deleted instead. `Open` has five migrations.
`OpenedIsCurrent`, `TimesMovedOnce`, `SchedulesSurvive` and `AllOpen` are about the upgrade
in place that this line tells the reader not to expect; they follow the code and its
comments. This line of the repository's README is out of date, and nothing below rests on it.

### Registry

A request is a chain of statements through `req[r].at`; it ends early when the browser
goes away or a statement fails (`Abort`), or at once when its form is refused (`Reject`).
There is one action per handler; handlers that do the same in their own tables share a
helper (`DeleteRow`, `AddTimer`, `DeleteTimer`). A link is a row of one of the two join tables,
a timer a row of one of the two schedule tables; foreign keys and cascades are part of
the statements. `jobs` and `filed` follow a backup from the triple it is queued with to
the database it is recorded under. A line of `databases.txt` that `backupdb migrate`
imports (`ImportLine`) is a request like the others.

### Storage

`targets` is `storage_targets`. A row has a kind and a configuration that fits it: a Google
account with the email `FetchEmail` found, or a bucket and a prefix. A task is an upload
(of the consumer, of an agent, of `backupdb upload`) or a download; `Build` copies the row
into `copy[k]`, and everything later uses that copy. `Refresh` is `savingTokenSource`: it
writes the copy's account and email back over the row, if there still is one; agents
discard the refreshed token. The edit forms read the row (`BeginEdit`) and write it in a
later step. `cloud` is what Google Drive and S3 hold: a Drive file has an id of its own,
an S3 object the key `prefix/dbname/date/filename`. `puts` remembers for each upload when
and where it was stored, and `files` is its row of `backup_files`.

### AgentCert

A pair of certificate and key is a number. `os.WriteFile` empties a file before it writes
it, so each write is two steps, and the process may stop anywhere. `Misread` is a load that
fails although the files are good (too many open files, a mount that is late):
`loadOrCreateAgentCert` makes a new pair then as well. The operator enters a fingerprint
from the agent's log, or one with a typing mistake; a client copies the row and connects
later.

### AdminWeb

The browser has one cookie and several tabs; `tab[t]` is the page a tab shows or the
request it has sent, with the cookie it was sent with. A refused request goes through the
login and comes back to its address, except for the clear button, whose address takes no
GET. `Count` and `List` are the two statements of `handleLogs`; either may fail
(`PageFails`), as may the deletion (`ClearFails`), and the reader then asks for the same
address again. `walk[t]` is history: the
rows the reader has yet to see of those that were selected at the start, and how many rows
came between count and list of the page or left the selection. `limit` is
`LOG_LIST_LIMIT`, any integer: `newPagination` raises it to 1, the two arguments of the
query use it as it is, and SQLite reads a negative limit as none.

## 3. Runs

Passing runs:

| Run | Instance | Shows |
|---|---|---|
| `Pipeline_safety` | a local and a remote request, every fault but a retried push and a failing `os.Remove` (777 thousand states) | `SuccessIsStored`, `RunIdIsOwn`, `NoUseAfterClose`, `FileListAgreesWithLog`, `StartTimeIsReported`, `OneRowPerRequest`, `OnlyFailuresLeaveFiles`, and the refinement `Ledger` |
| `Pipeline_liveness` | a local request whose job is in the list twice and a remote one, failing agents and a failing `os.Remove` (407 thousand) | `OneRowPerRequest`, `OutcomeIsFinal`, `ReturnedIsRecorded`, `LocalJobsAreSerial`, `RunningSettles` |
| `Scheduler_firings` | one own and two shared triggers, two databases, two days, clock put back, faults, two failures, switches, a calm minute on the second day (3.5 million) | `FiringsBounded`, `MarkedMeansPushed`, `OwnFiredOnTime` |
| `Dispatch_jobs` | two requests, a queue of one, a restart, a sweep within reach (421 thousand) | `KnownUntilDone`, `PendingIsHeld`, `AwaitedIsKept`, `OutcomeIsTrue`, `AcceptedRuns` |
| `Migration_open` | three processes, two triples, two edits, a crash, any earlier file (581 thousand) | `OpenedIsCurrent`, `TimesMovedOnce`, `SchedulesSurvive`, `NoOrphanSchedules`, `AllOpen` |
| `Registry_safety` | two requests over three databases, two groups, two channels, import included (178 thousand up to symmetry) | `NothingDangles`, `ResolvesToOwn`, `SavedIsChosen` |
| `Storage_safety` | two uploads of one name and minute, one by an agent, a download, an edit, two rows, two accounts, two buckets (1.7 million) | `TypeOK`, `EmailFitsToken`, `DownloadIsOwnOrLater` |
| `AgentCert_pins` | three stops, one misread, a row, a client (19 thousand) | `PinHolds`, `ComesUp` |
| `AdminWeb_pages` | a tab, three rows of two databases, page sizes -1 to 2, pages typed in below and beyond the list, two logins, failing statements (6 million) | `WalkMissesNothing`, `AdmittedIsLive`, `PageNotEmpty` |

Runs that show where the code and what is said of it part:

| Run | What happens |
|---|---|
| `Pipeline_sigterm` | SIGTERM cancels the job in hand and the statement that would record it; `consumer.go` says it finishes the in-flight job first |
| `Scheduler_shared` | a group member whose push fails is not tried again once another member's push has marked the time |
| `Storage_overwrite` | two databases of one name back up to one bucket in the same minute: the second file replaces the first, whose entry in the file list then downloads the second |

Some limits of the code are part of what the passing properties say:

* `FiringsBounded` allows a second firing for every mark that fails, because the push
  comes first, and one for every reply to a push that is lost.
* The queue delivers at least once. A request whose job is in the list twice is backed up
  twice; both jobs write the row of its RunID, and the later outcome replaces the earlier
  (`OutcomeIsFinal`), so the row may end at `error` while a file of the first backup is
  listed (`FileListAgreesWithLog`). Without a RunID each job inserts a row of its own
  (`OneRowPerRequest`). Each of these properties, and `RunLedger`, names `Repeated` as its
  exception and says what holds of such a request nevertheless: no success without a
  stored file, one row for a RunID, and no outcome that turns back into `running`.
* An outcome whose RunID was cleared from the log in between is recorded nowhere: the
  `UPDATE` finds no row. Only a job with RunID 0 inserts one.
* `OnlyFailuresLeaveFiles` holds as long as `os.Remove` works; `consumer.go:302` ignores its
  error, and a failing backup leaves its dump by design.
* A job that the consumer has popped and not finished when it is killed is lost, and its row
  says `running` for good: no property says otherwise, and none could.
* `AllOpen` has the premise that no two rows share a triple: when two processes both
  rebuild `databases`, the second one drops the unique index of the first, and rows added
  before it is back keep it from ever being created.
* `SavedIsChosen` speaks of a save that no other save of the same form overlaps: two that
  do leave the union of their choices.
* `EmailFitsToken` does not say that a new login stays: a running upload that refreshes the
  token of the old one writes the old account back, together with its email.
* `DownloadIsOwnOrLater` lets S3 return a later upload of the same name and minute, and it
  speaks only of downloads that read where the file was stored. After the bucket of a
  destination was edited, files are looked for in the new one, and one under the same key
  there is returned whatever its age. What still holds then is `DownloadIsOfThatName`, which
  is proved and not part of a run.
* `PinHolds` has the premise that good files could be read: a load that fails for any other
  reason makes a new certificate, and all pins of the agent stop matching.
* `PageNotEmpty` and `WalkMissesNothing` leave out `LOG_LIST_LIMIT=0`, with which every page
  is empty. Rows that come between the count and the list of the last page push as many off
  it.

Two more are outside the models. A time entered as `9:05` is accepted, stored as it is and
never equal to the clock's `09:05`. And a job looks its database up by name, agent and
driver when it has ended, so a database that was given the triple of a renamed one
meanwhile gets the other's file, where the comment at `registry.go:1259` expects id 0;
`ResolvesToOwn` has the premise that the triple was not changed.

**Bounds.** They are named constants. Two requests are enough for every pairwise
interleaving the properties speak of (two rows, two savers, two jobs in a queue of one);
three are there where a third party matters (a job behind two others, a process that has
opened the file while two race, a triple taken over while a job runs). Counts of crashes and failures
are one or two: the properties relate one fault to its effect, and the theorems cover
the rest. `Scheduler` has two failures, so that both may fall in one pass of a calm minute
or one in each. Time bounds in `Dispatch` keep the code's order of magnitudes
(patience plus two timeouts is at most the retention) with small numbers. `Storage` needs
two rows (one deleted, one added in its place) and two accounts, `AgentCert` three stops
(one in the first start-up, one while it repairs that, one after a fingerprint is out),
`AdminWeb` three rows (two pages of two, three of one) and a second login for a session
that replaces a lost one; `Pipeline_liveness` has one copy of
one request, which is all that two writers of one row take, and `Migration` two edits (a deletion
and what comes before or after it); `TTL` 0 with a clock of two makes sessions expire.

No run combines copies with a crash, a signal or a failing registry, or has an ad-hoc
request (`AdHocJobs`): the theorems of `PipelineProofs` cover both. The path of an ad-hoc
request, a job with RunID 0 that finds no storage target, is also that of a job whose row
could not be inserted and whose target cannot be looked up, which `Pipeline_safety` takes.

**Deadlock** is not checked where requests are handled once and a finished instance has
nothing left to do.

**Fairness.** `Pipeline!Fairness`: a producer that has created its row pushes, the loop
and each goroutine go on. That dumps and uploads return is an assumption, as the code
sets no time limit on them. `Dispatch!FairSpec`: the agent's worker and handlers run.
`Migration!FairSpec`: `Open` runs on, and a process that ended is restarted
(`restart: unless-stopped` in `docker-compose.yml`). `AgentCert!FairSpec`: the agent's
start-up runs on, and Docker restarts it (`docker-compose.agent.yml`). No fairness is assumed of the
network, of agents as seen by the consumer, or of faults.

## 4. Proofs

Everything below holds for any constants that satisfy the named `ASSUME`s.

* `PipelineProofs`: `TypeCorrect`, `LogIsTruthful`, `RunIdsAreOwn`, `LocalSerial`,
  `CloseIsLast`, `OutcomesAreFinal`, for any number of copies of any request. The invariant
  adds to the types that a running job's row is still `running` unless its request is
  repeated (`RowsInv`, with ids that only grow), that a copy comes after its original and
  with its RunID (`CopyInv`), that the Redis list holds each queued job once (`QueueInv`),
  that nobody holds the result
  "success" without a stored file (`ResultInv`), and that the loop is busy exactly while
  a local job is worked on (`MainInv`). `RunIdIsOwn` alone is not inductive: it needs
  that ids are never reused; `OutcomeIsFinal` needs that of a request that is not repeated
  one job is popped, once.
  * `OneRow`, `FileListIsTrue`, `StartTimesAreReported`, `LeftoversAreFailures`. None of
    these is inductive on its own: a row is written by the producer or at the end of
    `processJob`, and which of the two depends on where the job is. `LogInv`
    (`LogInvariance`) adds what a job's place says about the rest: a row is that of its
    request's RunID or was made as the job ended (`EntryInv`), what a job holds at each stage
    (`StageInv`), that a file is listed only after its job was recorded as no failure
    (`FilesInv`). `LeftoversAreFailures` assumes that `Faults` lacks `remove`, and rests on
    `TmpInv`: a dump file is gone before anyone can learn of a success.
  * `ReturnsAreRecorded`: for instances whose `Faults` have neither `registry` nor `sigterm`.
    With either, the code logs a warning and returns, which is what `Pipeline_sigterm`
    shows. `RecordedInv` is the invariant behind it.
  * `LedgerImplemented`: `Pipeline` implements `RunLedger`. Of a request, `RunLedger` sees the
    statuses of its rows, so a new row adds to one entry (`ViewInsert`), an outcome replaces
    that of the only row (`ViewUpdate`), and `StepSimulates` goes through the actions: each is
    a step of the ledger or leaves it alone.
* `SchedulerProofs`: `TypeCorrect`, `FiringsAreBounded`, `MarksFollowPushes`,
  `OrphansAreBounded`. The invariant counts today's firings of an item against the
  slips: what is listed or about to be pushed still has its regular firing
  (`TodayFirings`), no later day has any (`FutureUnfired`, from dates that do not go
  back), and a mark follows a push (`MarkFollowsPush`).
  * `OwnSchedulesFire`, for any number of failures. `CalmInv` follows one pass of a calm
    period: it is the period's own (`CalmPass`); what is due in it is fired, still
    listed or in hand, or something has failed (`CalmProgress`); and when it is over, what
    was due is fired or the period is in `failed` (`CalmPushed`).
* `DispatchProofs`: `TypeCorrect`, `AwaitedKept`, `OutcomesAreTrue`, `HeldIsKnown`,
  `NoPendingLeak`. A job is at one place of the agent at a time (`PlaceInv`), what has not
  arrived is unknown there (`FreshInv`), an entry tells how the job ended (`ResultInv`),
  and the clock stays within the HTTP timeout of an exchange (`TimeInv`).
  `AwaitedKept` rests on `MaxWait + 2 * Timeout <= Retention`: six hours and a minute
  against 24 hours in the code.
* `MigrationProofs`: `TypeCorrect`, `OpenedSeesCurrent`, `TimesAreMovedOnce`,
  `NoOrphans`, `SchedulesAreKept`. What a process has gone past stays done (`PassedIsDone`),
  and foreign keys are off before the pragma and around the rebuild, and nowhere else
  (`EnforcedWhere`): so the process that drops the table cascades to nothing, and one that
  edits rejects or cascades.
* `RegistryProofs`: `TypeCorrect`, `LinksAreSound`, `JobsResolve`, `SavesAreKept`, for any
  number of requests. Triples differ (`KeysDiffer`), a request's own variables fit its
  form (`RequestsOK`), and an undisturbed save has inserted what it no longer has to do
  (`SaveInProgress`); a step of one request leaves the others' links alone except for
  the row it deletes (`LinkStep`).
* `StorageProofs`: `TypeCorrect`, `EmailsFit`, `DownloadsAreOwnOrLater`,
  `DownloadsAreOfThatName`. An id names one row for good, so a kind that was seen holds
  while the row does (`KindsKept`); copies are as consistent as rows (`CopiesFit`); a reference is of its upload's making (`RefsOK`); and a
  place holds the last upload to it (`CloudOK`). `TypeOK` alone is not inductive: that an
  update by id meets a row of the right kind is `KindsKept`.
* `AgentCertProofs`: `TypeCorrect`, `PinsHold`. Once a fingerprint is out, both files hold
  its pair and no other is made (`AnnouncedIsOnFile`).
* `AdminWebProofs`: `TypeCorrect`, `AdmittedAreLive`. The table holds only sessions of this
  process that nobody logged out, with their true expiry (`SessionsAreLive`).
  * `PagesAreNotEmpty`. A page that is shown exists (`PageExists`), the pages of the pager end where the list ends (`PagesCover`), and every position within a list is
    some row's (`PositionTaken`).
  * `NothingIsMissed`, for any number of rows. `WalkMissesNothing` speaks of the last page
    only; `WalkInv` (`WalkInvariance`) holds all the way. The *front* of a walk is the number
    of rows before the page a tab asks for. Unseen rows get behind it one at a time, and only
    when a row leaves the selection (`PassedLeft`, by `BehindOneMore`: positions are
    distinct, so a row that leaves moves at most one other over the front); turning back,
    a clamped page and new rows put none there (`BehindShrinks`). With the last page only rows
    behind the front or beyond the count are unseen (`LastPageListed`), and the latter
    have joined (`CountedOrJoined`).

Only model-checked: the liveness properties `RunningSettles`, `AcceptedRuns`, `AllOpen` and
`ComesUp`, as fairness and `ENABLED` are out of the prover's reach. Every safety property
of a passing run is proved.

## 5. Not modelled, and the plan

Built so far, in this order: `Pipeline` with `RunLedger`, `Scheduler`, `Agent` with
`Dispatch`, `Migration`, `Registry`, `Storage`, `AgentCert`, `AdminWeb`, each with its
proofs.

Next, most important first:

1. The safety half of the liveness properties: that no reachable state is one from which the
   job, the process or the agent could not go on (`AgentCert`: files the agent can start
   from; `Migration`: an index that can be created; `Pipeline`: a goroutine has a next step).
2. The step by which `Pipeline` takes an agent's job for one action (`AgentRuns`,
   `AgentForgets`) stated as an abstract specification that `Dispatch` implements.

Left out for good: the dump tools' command lines, the Google, S3 and Telegram protocols,
the folders of Google Drive (two uploads may each create one of the same name; files are
found by id), HTML and the pages that only read, deployment scripts, and settings other
than `LOG_LIST_LIMIT`. They are I/O or read-only. Of the client library's retries those of
`RPUSH` are modelled; a `BLPOP` that is sent again after its reply was lost takes another job
and has lost the first, which is what `PopReplyLost` followed by `Pop` does. In the models
`foreign_key_check` after the rebuild of `databases` always finds the references intact
(`NoOrphanSchedules`), in a file whose references were intact before.
