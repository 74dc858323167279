------------------------------ MODULE Pipeline ------------------------------
(***************************************************************************)
(* The life of a backup request: a producer (scheduler, the admin page's   *)
(* "Backup now" button, or the backup command) inserts a "running" row     *)
(* into backup_runs and pushes a job onto the Redis list; the consumer     *)
(* pops jobs, runs local ones inline and one at a time, runs jobs of a     *)
(* remote agent in background goroutines, and writes the outcome back to   *)
(* backup_runs and backup_files.                                           *)
(*                                                                         *)
(* Every SQL statement, Redis command, dump, upload and HTTP exchange is a *)
(* step of its own, so a crash, a SIGTERM or another process may fall      *)
(* between any two of them.  The dump tools, the storage services, Redis   *)
(* and the agent's side of a job are external and fail as they please.     *)
(*                                                                         *)
(* queue.New leaves go-redis at its default of retrying a command whose    *)
(* reply was lost, so one Push may append its job more than once: a job in *)
(* the list is an entry of its own, and a second entry of a request is a   *)
(* copy that carries the same RunID.                                       *)
(***************************************************************************)
EXTENDS Integers, Sequences, FiniteSets

CONSTANTS
  Jobs,        \* the jobs that may come to the list: one per request, and the copies
  Copies,      \* those that a retried RPUSH appends
  Original,    \* the request a job was made for; a request stands for itself
  RemoteJobs,  \* those whose database is assigned to an agent (Job.AgentID # 0)
  AdHocJobs,   \* those of `backup <dbname>`: no row, no agent, no storage target
  Faults       \* the kinds of failure this environment produces

Requests == Jobs \ Copies

FaultKinds == {"registry", "redis", "retry", "agent", "remove", "sigterm", "crash"}

ASSUME PipelineAssumption ==
  /\ RemoteJobs \subseteq Jobs
  /\ AdHocJobs \subseteq Jobs \ RemoteJobs
  /\ Copies \subseteq Jobs
  /\ Original \in [Jobs -> Requests]
  /\ \A j \in Requests : Original[j] = j
  /\ \A c \in Copies : /\ c \in RemoteJobs <=> Original[c] \in RemoteJobs
                       /\ c \in AdHocJobs <=> Original[c] \in AdHocJobs
  /\ Faults \subseteq FaultKinds

VARIABLES
  \* the SQLite registry
  rows,       \* backup_runs: row id -> [job, status, startedAt]
  lastId,     \* sqlite_sequence: the largest row id ever given out
  files,      \* backup_files: the jobs with a row
  \* Redis
  queue,      \* the list backup_db_queue
  \* the jobs and the goroutines that process them
  pc,         \* where each job is
  run,        \* Job.RunID, 0 for none
  res,        \* what backupAndUpload returned to processJob, while that runs
  heard,      \* jobs whose agent reported back (a non-nil result)
  found,      \* jobs whose processJob has found their database
  tmp,        \* jobs whose dump file is in TmpDir
  \* the consumer process
  main,       \* where runConsumer is
  cancelled,  \* its signal context is done
  \* the outside world
  agent,      \* each job as the agent sees it
  stored,     \* jobs whose backup is at its storage destination
  notice,     \* the notification sent for a job
  entered     \* history: requests that have ever had a backup_runs row

registryVars == <<rows, lastId, files, entered>>
jobVars == <<pc, run, res, heard, found, tmp>>
consumerVars == <<main, cancelled>>
worldVars == <<agent, stored, notice>>
vars == <<registryVars, queue, jobVars, consumerVars, worldVars>>

LocalSteps == {"popped", "dump", "target", "upload", "resolve", "record", "file", "notify"}
Working == LocalSteps \cup {"dispatch", "poll"}
Steps == Working \cup {"new", "created", "dropped", "queued", "lost", "done"}

Local(j) == j \notin RemoteJobs
Active(j) == pc[j] \in Working
Row == [job : Requests, status : {"running", "success", "error"}, startedAt : {"blank", "known"}]

Init ==
  /\ rows = [i \in {} |-> <<>>]
  /\ lastId = 0
  /\ files = {}
  /\ entered = {}
  /\ queue = <<>>
  /\ pc = [j \in Jobs |-> "new"]
  /\ run = [j \in Jobs |-> 0]
  /\ res = [j \in Jobs |-> "none"]
  /\ heard = {}
  /\ found = {}
  /\ tmp = {}
  /\ main = "loop"
  /\ cancelled = FALSE
  /\ agent = [j \in Jobs |-> "none"]
  /\ stored = {}
  /\ notice = [j \in Jobs |-> "none"]

Goto(j, step) == pc' = [pc EXCEPT ![j] = step]

(***************************************************************************)
(* The registry.  backup_runs.id is AUTOINCREMENT: an id is never reused,  *)
(* not even after the table is emptied.                                    *)
(***************************************************************************)

\* Seeded fault: a plain INTEGER PRIMARY KEY, which reuses ids once rows are deleted.
NextRunIdReused == IF DOMAIN rows = {} THEN 1
                   ELSE 1 + CHOOSE i \in DOMAIN rows : \A k \in DOMAIN rows : k <= i

NextRunId == lastId + 1

CreateBackupRun(j, status, startedAt) ==
  /\ rows' = [i \in DOMAIN rows \cup {NextRunId} |->
                IF i = NextRunId
                THEN [job |-> Original[j], status |-> status, startedAt |-> startedAt]
                ELSE rows[i]]
  /\ lastId' = NextRunId
  /\ entered' = entered \cup {Original[j]}

\* Seeded fault: the row is set to "running" again together with its start time.
StartReopens(id) ==
  rows' = [i \in DOMAIN rows |->
             IF i = id THEN [rows[i] EXCEPT !.startedAt = "known", !.status = "running"] ELSE rows[i]]

UpdateBackupRunStarted(id) ==
  rows' = [i \in DOMAIN rows |-> IF i = id THEN [rows[i] EXCEPT !.startedAt = "known"] ELSE rows[i]]

\* Seeded fault: INSERT OR REPLACE, which brings a deleted row back.
FinishUpserts(id, status, startedAt) ==
  rows' = [i \in DOMAIN rows \cup {id} |->
             IF i \in DOMAIN rows
             THEN IF i = id THEN [rows[i] EXCEPT !.status = status] ELSE rows[i]
             ELSE [job |-> CHOOSE j \in Requests : run[j] = id, status |-> status, startedAt |-> startedAt]]

\* A blank start time leaves the one in the row alone.
FinishBackupRun(id, status, startedAt) ==
  rows' = [i \in DOMAIN rows |->
             IF i = id
             THEN [rows[i] EXCEPT !.status = status,
                                  !.startedAt = IF startedAt = "blank" THEN @ ELSE startedAt]
             ELSE rows[i]]

\* handleLogsClear
DeleteAllBackupRuns ==
  /\ DOMAIN rows # {}
  /\ rows' = [i \in {} |-> <<>>]
  /\ UNCHANGED <<lastId, files, entered, queue, jobVars, consumerVars, worldVars>>

\* A statement of the consumer carries its signal context: once that is cancelled the
\* statement fails, whatever the registry could have done.
StatementRuns == ~cancelled
StatementFails == cancelled \/ "registry" \in Faults

(***************************************************************************)
(* The producers: enqueueDue, handleBackupNow and runBackup all insert the *)
(* row first and push second.  Only requests have a producer.              *)
(***************************************************************************)

\* A failed insert is only logged; the job then goes out without a RunID.
CreateRun(j) ==
  /\ pc[j] = "new"
  /\ j \notin AdHocJobs
  /\ \/ /\ CreateBackupRun(j, "running", "blank")
        /\ run' = [run EXCEPT ![j] = NextRunId]
     \/ /\ "registry" \in Faults
        /\ UNCHANGED <<rows, lastId, entered, run>>
  /\ Goto(j, "created")
  /\ UNCHANGED <<files, queue, res, heard, found, tmp, consumerVars, worldVars>>

ReadyToPush(j) == pc[j] = "created" \/ (pc[j] = "new" /\ j \in AdHocJobs)

Push(j) ==
  /\ ReadyToPush(j)
  /\ queue' = Append(queue, j)
  /\ Goto(j, "queued")
  /\ UNCHANGED <<registryVars, run, res, heard, found, tmp, consumerVars, worldVars>>

\* Seeded fault: the retried push carries a job built anew, without its RunID.
PushAgainWithoutRun(c) ==
  /\ "retry" \in Faults
  /\ pc[c] = "new"
  /\ pc[Original[c]] \notin {"new", "created", "dropped"}
  /\ queue' = Append(queue, c)
  /\ Goto(c, "queued")
  /\ UNCHANGED <<registryVars, run, res, heard, found, tmp, consumerVars, worldVars>>

\* Redis has appended the job but its reply was lost: the client sends the same bytes
\* again, the RunID with them, and however late that is, the list gets a second entry.
PushAgain(c) ==
  /\ "retry" \in Faults
  /\ pc[c] = "new"
  /\ pc[Original[c]] \notin {"new", "created", "dropped"}
  /\ queue' = Append(queue, c)
  /\ run' = [run EXCEPT ![c] = run[Original[c]]]
  /\ Goto(c, "queued")
  /\ UNCHANGED <<registryVars, res, heard, found, tmp, consumerVars, worldVars>>

\* Push returns an error, and the producer gives up; the row stays.
PushFails(j) ==
  /\ "redis" \in Faults
  /\ ReadyToPush(j)
  /\ Goto(j, "dropped")
  /\ UNCHANGED <<registryVars, queue, run, res, heard, found, tmp, consumerVars, worldVars>>

\* The producer dies, or its request context ends, between the insert and the push.
ProducerDies(j) ==
  /\ "crash" \in Faults
  /\ pc[j] = "created"
  /\ Goto(j, "dropped")
  /\ UNCHANGED <<registryVars, queue, run, res, heard, found, tmp, consumerVars, worldVars>>

(***************************************************************************)
(* runConsumer: the main loop.                                             *)
(***************************************************************************)

\* for ctx.Err() == nil; the deferred wg.Wait comes next once it is not.
LoopTest ==
  /\ main = "loop"
  /\ main' = IF cancelled THEN "wait" ELSE "popping"
  /\ UNCHANGED <<registryVars, queue, jobVars, cancelled, worldVars>>

\* Seeded fault: every job gets a goroutine of its own.
AfterPopAsync(j) == "loop"

\* go processJob(...) for an agent's job, processJob(...) inline for a local one.
AfterPop(j) == IF Local(j) THEN "busy" ELSE "loop"

\* BLPOP removes the element and returns it.  A Pop in progress when the signal arrives
\* may still return a job, which is then processed with a cancelled context.
Pop ==
  /\ main = "popping"
  /\ queue # <<>>
  /\ queue' = Tail(queue)
  /\ Goto(Head(queue), "popped")
  /\ main' = AfterPop(Head(queue))
  /\ UNCHANGED <<registryVars, run, res, heard, found, tmp, cancelled, worldVars>>

\* The five seconds pass with nothing in the list, or Pop fails: back to the loop test.
PopNothing ==
  /\ main = "popping"
  /\ queue = <<>> \/ cancelled \/ "redis" \in Faults
  /\ main' = "loop"
  /\ UNCHANGED <<registryVars, queue, jobVars, cancelled, worldVars>>

\* Redis removes the element but its reply never arrives.
PopReplyLost ==
  /\ main = "popping"
  /\ "redis" \in Faults
  /\ queue # <<>>
  /\ queue' = Tail(queue)
  /\ Goto(Head(queue), "lost")
  /\ main' = "loop"
  /\ UNCHANGED <<registryVars, run, res, heard, found, tmp, cancelled, worldVars>>

\* Seeded fault: the registry is closed without waiting for the background goroutines.
DrainedIgnored == TRUE

Drained == \A j \in Jobs : ~Active(j)

\* wg.Wait, then the deferred stop, q.Close and reg.Close.
Close ==
  /\ main = "wait"
  /\ Drained
  /\ main' = "closed"
  /\ UNCHANGED <<registryVars, queue, jobVars, cancelled, worldVars>>

(***************************************************************************)
(* processJob.                                                             *)
(***************************************************************************)

\* Seeded fault: the dispatch time is shown as the start time of an agent's job.
MarksStartAlways(j) == run[j] # 0

MarksStart(j) == run[j] # 0 /\ Local(j)

StartJob(j) ==
  /\ pc[j] = "popped"
  /\ \/ StatementRuns /\ MarksStart(j) /\ UpdateBackupRunStarted(run[j])
     \/ (StatementFails \/ ~MarksStart(j)) /\ UNCHANGED rows
  /\ Goto(j, IF Local(j) THEN "dump" ELSE "dispatch")
  /\ UNCHANGED <<lastId, files, entered, queue, run, res, heard, found, tmp, consumerVars, worldVars>>

\* backupAndUpload returns.
Return(j, result) ==
  /\ res' = [res EXCEPT ![j] = result]
  /\ Goto(j, "resolve")

\* The dump tools write to a file that is created before they start, and that nobody
\* removes when they fail or are killed.
PartialDump(j) == {tmp, tmp \cup {j}}

\* An unknown driver fails before the file is created, a failing or killed dump after.
Dump(j) ==
  /\ pc[j] = "dump"
  /\ \/ ~cancelled /\ tmp' = tmp \cup {j} /\ Goto(j, "target") /\ UNCHANGED res
     \/ tmp' \in PartialDump(j) /\ Return(j, "error")
  /\ UNCHANGED <<registryVars, queue, run, heard, found, consumerVars, worldVars>>

\* No target selected (always so for an ad-hoc job), target deleted, lookup or Build failed.
ResolveTarget(j) ==
  /\ pc[j] = "target"
  /\ \/ ~cancelled /\ j \notin AdHocJobs /\ Goto(j, "upload") /\ UNCHANGED res
     \/ Return(j, "error")
  /\ UNCHANGED <<registryVars, queue, run, heard, found, tmp, consumerVars, worldVars>>

\* An upload that fails may have reached the destination all the same.
MaybeStored(j) == {stored, stored \cup {j}}

\* Seeded fault: the error of store.Upload is not looked at.
UploadUnchecked(j) ==
  /\ pc[j] = "upload"
  /\ stored' \in MaybeStored(j)
  /\ tmp' = tmp \ {j}
  /\ Return(j, "success")
  /\ UNCHANGED <<registryVars, queue, run, heard, found, consumerVars, agent, notice>>

\* Seeded fault: os.Remove is missing.
UploadKeepsFile(j) ==
  /\ pc[j] = "upload"
  /\ \/ ~cancelled /\ stored' = stored \cup {j} /\ Return(j, "success")
     \/ stored' \in MaybeStored(j) /\ Return(j, "error")
  /\ UNCHANGED <<registryVars, queue, run, heard, found, tmp, consumerVars, agent, notice>>

\* Only a successful upload removes the dump file; an error of os.Remove is ignored.
Upload(j) ==
  /\ pc[j] = "upload"
  /\ \/ /\ ~cancelled
        /\ stored' = stored \cup {j}
        /\ \/ tmp' = tmp \ {j}
           \/ "remove" \in Faults /\ UNCHANGED tmp
        /\ Return(j, "success")
     \/ stored' \in MaybeStored(j) /\ Return(j, "error") /\ UNCHANGED tmp
  /\ UNCHANGED <<registryVars, queue, run, heard, found, consumerVars, agent, notice>>

(***************************************************************************)
(* remoteBackupAndUpload and the agent it talks to.                        *)
(***************************************************************************)

\* The agent or the target is missing or the agent refuses the job: an error.  The reply
\* to POST /run may also be lost after the agent has accepted the job.
Dispatch(j) ==
  /\ pc[j] = "dispatch"
  /\ \/ ~cancelled /\ agent' = [agent EXCEPT ![j] = "accepted"] /\ Goto(j, "poll") /\ UNCHANGED res
     \/ Return(j, "error") /\ UNCHANGED agent
     \/ /\ cancelled \/ "agent" \in Faults
        /\ agent' = [agent EXCEPT ![j] = "accepted"]
        /\ Return(j, "error")
  /\ UNCHANGED <<registryVars, queue, run, heard, found, tmp, consumerVars, stored, notice>>

\* The agent runs the job, whether or not anyone still waits for it.
AgentRuns(j) ==
  /\ agent[j] = "accepted"
  /\ \/ agent' = [agent EXCEPT ![j] = "success"] /\ stored' = stored \cup {j}
     \/ agent' = [agent EXCEPT ![j] = "error"] /\ stored' \in MaybeStored(j)
  /\ UNCHANGED <<registryVars, queue, jobVars, consumerVars, notice>>

\* The agent restarts: its jobs and results were in memory only.
AgentForgets(j) ==
  /\ "agent" \in Faults
  /\ agent[j] \in {"accepted", "success", "error"}
  /\ agent' = [agent EXCEPT ![j] = "gone"]
  /\ UNCHANGED <<registryVars, queue, jobVars, consumerVars, stored, notice>>

\* A status request that fails, finds nothing, or finds the job pending changes nothing.
Poll(j) ==
  /\ pc[j] = "poll"
  /\ ~cancelled
  /\ agent[j] \in {"success", "error"}
  /\ heard' = heard \cup {j}
  /\ Return(j, agent[j])
  /\ UNCHANGED <<registryVars, queue, run, found, tmp, consumerVars, worldVars>>

\* Seeded fault: the loop polls until the agent answers, with no deadline.
PollForever(j) ==
  /\ pc[j] = "poll"
  /\ cancelled
  /\ Return(j, "error")
  /\ UNCHANGED <<registryVars, queue, run, heard, found, tmp, consumerVars, worldVars>>

\* Seeded fault: the loop ends at the deadline and nil, nil is returned after it.
PollReturnsNil(j) ==
  /\ pc[j] = "poll"
  /\ Goto(j, "resolve")
  /\ UNCHANGED <<registryVars, queue, run, res, heard, found, tmp, consumerVars, worldVars>>

\* The deadline (remoteAgentMaxWait) has passed, or the context is done.
PollGivesUp(j) ==
  /\ pc[j] = "poll"
  /\ Return(j, "error")
  /\ UNCHANGED <<registryVars, queue, run, heard, found, tmp, consumerVars, worldVars>>

(***************************************************************************)
(* The rest of processJob.                                                 *)
(***************************************************************************)

\* GetByNameAgentDriver: the row, no row, or an error (which is only logged).
ResolveDatabase(j) ==
  /\ pc[j] = "resolve"
  /\ \/ ~cancelled /\ found' = found \cup {j}
     \/ UNCHANGED found
  /\ Goto(j, "record")
  /\ UNCHANGED <<registryVars, queue, run, res, heard, tmp, consumerVars, worldVars>>

\* A local job knows its own start time; an agent's job only what the agent reported.
StartedAt(j) == IF Local(j) \/ j \in heard THEN "known" ELSE "blank"

\* Seeded fault: the RunID is ignored and a second row is written.
RecordAnotherRun(j) == CreateBackupRun(j, res[j], StartedAt(j))

\* Seeded fault: a job that failed is not recorded.
RecordOnlySuccess(j) ==
  IF run[j] # 0 /\ res[j] = "success"
  THEN FinishBackupRun(run[j], res[j], StartedAt(j)) /\ UNCHANGED <<lastId, entered>>
  ELSE UNCHANGED <<rows, lastId, entered>>

\* recordBackupRun: update the row in place, or write it now if the job has none.
RecordBackupRun(j) ==
  IF run[j] # 0
  THEN FinishBackupRun(run[j], res[j], StartedAt(j)) /\ UNCHANGED <<lastId, entered>>
  ELSE CreateBackupRun(j, res[j], StartedAt(j))

Record(j) ==
  /\ pc[j] = "record"
  /\ \/ StatementRuns /\ RecordBackupRun(j)
     \/ StatementFails /\ UNCHANGED <<rows, lastId, entered>>
  /\ Goto(j, IF res[j] = "success" THEN "file" ELSE "notify")
  /\ UNCHANGED <<files, queue, run, res, heard, found, tmp, consumerVars, worldVars>>

\* recordBackupFile
RecordFile(j) ==
  /\ pc[j] = "file"
  /\ \/ StatementRuns /\ files' = files \cup {j}
     \/ StatementFails /\ UNCHANGED files
  /\ Goto(j, "notify")
  /\ UNCHANGED <<rows, lastId, entered, queue, run, res, heard, found, tmp, consumerVars, worldVars>>

\* DispatchSuccess or DispatchError: best effort, an error is only logged.
Notified(j) ==
  \/ ~cancelled /\ notice' = [notice EXCEPT ![j] = res[j]]
  \/ UNCHANGED notice

\* A notification goes out only for a database that was found;
\* then processJob returns, and a local job gives the main loop back.
Notify(j) ==
  /\ pc[j] = "notify"
  /\ IF j \in found THEN Notified(j) ELSE UNCHANGED notice
  /\ Goto(j, "done")
  /\ res' = [res EXCEPT ![j] = "none"]
  /\ found' = found \ {j}
  /\ main' = IF Local(j) THEN "loop" ELSE main
  /\ UNCHANGED <<registryVars, queue, run, heard, tmp, cancelled, agent, stored>>

(***************************************************************************)
(* Signals, crashes and restarts of the consumer.                          *)
(***************************************************************************)

Up == main \notin {"closed", "down"}

Sigterm ==
  /\ "sigterm" \in Faults
  /\ Up
  /\ ~cancelled
  /\ cancelled' = TRUE
  /\ UNCHANGED <<registryVars, queue, jobVars, main, worldVars>>

\* Every goroutine dies with the process; what it had popped is in no queue any more.
Crash ==
  /\ "crash" \in Faults
  /\ Up
  /\ main' = "down"
  /\ pc' = [j \in Jobs |-> IF Active(j) THEN "lost" ELSE pc[j]]
  /\ res' = [j \in Jobs |-> "none"]
  /\ found' = {}
  /\ cancelled' = FALSE
  /\ UNCHANGED <<registryVars, queue, run, heard, tmp, worldVars>>

\* Docker restarts the consumer (restart: unless-stopped).
Start ==
  /\ ~Up
  /\ main' = "loop"
  /\ cancelled' = FALSE
  /\ UNCHANGED <<registryVars, queue, jobVars, worldVars>>

Produce(j) == CreateRun(j) \/ Push(j) \/ PushFails(j) \/ ProducerDies(j)

MainLoop == LoopTest \/ Pop \/ PopNothing \/ PopReplyLost \/ Close \/ Start

ProcessJob(j) ==
  \/ StartJob(j) \/ Dump(j) \/ ResolveTarget(j) \/ Upload(j)
  \/ Dispatch(j) \/ Poll(j) \/ PollGivesUp(j)
  \/ ResolveDatabase(j) \/ Record(j) \/ RecordFile(j) \/ Notify(j)

Next ==
  \/ \E j \in Requests : Produce(j)
  \/ \E c \in Copies : PushAgain(c)
  \/ \E j \in Jobs : ProcessJob(j) \/ AgentRuns(j) \/ AgentForgets(j)
  \/ MainLoop
  \/ DeleteAllBackupRuns \/ Sigterm \/ Crash

Spec == Init /\ [][Next]_vars

\* A started producer pushes, the consumer's loop and each of its goroutines keep running.
\* The dump and the upload return: the code sets no time limit on either.
Fairness ==
  /\ \A j \in Requests : WF_vars(Push(j))
  /\ \A j \in Jobs : WF_vars(ProcessJob(j))
  /\ WF_vars(MainLoop)

FairSpec == Spec /\ Fairness

(***************************************************************************)
(* Properties.                                                             *)
(***************************************************************************)

\* The requests whose job has come to the list a second time.
Repeated == {Original[c] : c \in {c \in Copies : pc[c] # "new"}}

\* The requests a file has reached the storage for.
Delivered == {Original[j] : j \in stored}

\* Every variable stays in its type; row ids are positive and never above sqlite_sequence;
\* a job past backupAndUpload has a result.
TypeOK ==
  /\ lastId \in Nat
  /\ DOMAIN rows \subseteq 1 .. lastId
  /\ rows \in [DOMAIN rows -> Row]
  /\ files \subseteq Jobs
  /\ entered \subseteq Requests
  /\ queue \in Seq(Jobs)
  /\ pc \in [Jobs -> Steps]
  /\ run \in [Jobs -> 0 .. lastId]
  /\ res \in [Jobs -> {"none", "success", "error"}]
  /\ heard \subseteq Jobs
  /\ found \subseteq Jobs
  /\ tmp \subseteq Jobs
  /\ main \in {"loop", "popping", "busy", "wait", "closed", "down"}
  /\ cancelled \in BOOLEAN
  /\ agent \in [Jobs -> {"none", "accepted", "success", "error", "gone"}]
  /\ stored \subseteq Jobs
  /\ notice \in [Jobs -> {"none", "success", "error"}]
  /\ \A j \in Jobs : pc[j] \in {"resolve", "record", "file", "notify"} => res[j] # "none"

\* The log never claims a backup that does not exist: a row reads "success" only if the
\* file of the very request it was written for has reached its storage destination.
SuccessIsStored ==
  \A i \in DOMAIN rows : rows[i].status = "success" => rows[i].job \in Delivered

\* A job's RunID names its own request's row or no row at all, even when the log is cleared
\* while jobs are queued or running: FinishBackupRun never overwrites another's entry.
RunIdIsOwn ==
  \A j \in Jobs : run[j] \in DOMAIN rows => rows[run[j]].job = Original[j]

\* A row that shows an outcome never reads "running" again, and keeps that outcome until
\* the log is cleared, unless a retried push has put its job into the list twice: the
\* consumer does not know a copy, processes it as well, and the later outcome replaces the
\* earlier one.
OutcomeIsFinal ==
  [][\A i \in DOMAIN rows \cap DOMAIN rows' :
       rows[i].status # "running" =>
         /\ rows'[i].status # "running"
         /\ rows[i].job \in Repeated \/ rows'[i].status = rows[i].status]_vars

\* "Local jobs keep processing one at a time" (runConsumer), whatever goroutines run.
LocalJobsAreSerial ==
  \A j, k \in Jobs : Local(j) /\ Local(k) /\ Active(j) /\ Active(k) => j = k

\* No goroutine is left using the registry or the queue client after their deferred Close:
\* wg.Wait comes first in the order deferred calls run.
NoUseAfterClose ==
  main = "closed" => \A j \in Jobs : ~Active(j)

\* The file list and the log agree: a listed file has been stored, and no row of the
\* same request says that its backup failed, unless that request was backed up twice.
FileListAgreesWithLog ==
  \A j \in files :
    /\ j \in stored
    /\ \A i \in DOMAIN rows :
         rows[i].job = Original[j] => rows[i].status # "error" \/ Original[j] \in Repeated

\* The start time shown for an agent's job is one the agent reported, never the time the
\* consumer dispatched it.
StartTimeIsReported ==
  \A i \in DOMAIN rows :
    rows[i].startedAt # "blank" /\ rows[i].job \in RemoteJobs => \E j \in heard : Original[j] = rows[i].job

\* A request has at most one row: the row of its RunID is updated in place, not duplicated,
\* also when a copy of its job is processed.  Only a request without a RunID that a retried
\* push put into the list twice gets a row for each.
OneRowPerRequest ==
  \A i, k \in DOMAIN rows :
    rows[i].job = rows[k].job /\ i # k => run[rows[i].job] = 0 /\ rows[i].job \in Repeated

\* Without a signal or a registry failure, processJob never returns leaving its row at
\* "running": every popped job that is not killed is accounted for.
ReturnedIsRecorded ==
  \A j \in Jobs :
    pc[j] = "done" /\ run[j] \in DOMAIN rows => rows[run[j]].status # "running"

\* As long as os.Remove works, a dump file that stays in TmpDir belongs to a job that
\* nobody was told succeeded: neither the log nor a notification reports a success for it,
\* unless the success is that of a copy.
OnlyFailuresLeaveFiles ==
  \A j \in tmp :
    /\ notice[j] # "success"
    /\ \A i \in DOMAIN rows :
         rows[i].job = Original[j] => rows[i].status # "success" \/ Original[j] \in Repeated

\* What the doc comment of runConsumer says of SIGTERM, "finishing the in-flight job
\* before exiting": once the consumer has exited, no job it took is still "running".
ExitFinishesInFlight ==
  main = "closed" => ReturnedIsRecorded

\* Every "running" row of a request is eventually settled (or cleared), also when agents
\* refuse jobs, lose them in a restart, or never answer.
RunningSettles ==
  \A j \in Requests :
    (\E i \in DOMAIN rows : rows[i].job = j /\ rows[i].status = "running")
      ~> ~(\E i \in DOMAIN rows : rows[i].job = j /\ rows[i].status = "running")

(***************************************************************************)
(* The inductive invariant behind the properties, part by part.            *)
(***************************************************************************)

\* A job whose outcome is not recorded yet, and is not given up, has a running row.
Unrecorded ==
  {"created", "queued", "popped", "dump", "target", "upload", "dispatch", "poll", "resolve", "record"}

RowsInv ==
  /\ RunIdIsOwn
  /\ \A j \in Jobs : pc[j] = "new" => run[j] = 0
  /\ \A j \in Jobs :
       pc[j] \in Unrecorded /\ Original[j] \notin Repeated /\ run[j] \in DOMAIN rows
         => rows[run[j]].status = "running"

\* A copy comes after its original was pushed, and with the same RunID.
CopyInv ==
  \A c \in Copies :
    pc[c] # "new" => run[c] = run[Original[c]] /\ pc[Original[c]] \notin {"new", "created", "dropped"}

\* The list holds queued jobs, each once.
QueueInv ==
  /\ \A i \in 1 .. Len(queue) : pc[queue[i]] = "queued"
  /\ \A i, k \in 1 .. Len(queue) : queue[i] = queue[k] => i = k

\* Nobody holds the result "success" of a backup that is not stored.
ResultInv ==
  \A j \in Jobs : res[j] = "success" \/ agent[j] = "success" => j \in stored

\* The main loop is inside processJob exactly while a local job is being worked on.
MainInv ==
  /\ LocalJobsAreSerial
  /\ \A j \in Jobs : Local(j) /\ Active(j) => main = "busy"
  /\ ~Up => \A j \in Jobs : ~Active(j)

\* A request gets its row either as it is enqueued or, without a RunID, as a job of it ends.
EntryInv ==
  /\ OneRowPerRequest
  /\ \A i \in DOMAIN rows : rows[i].job \in entered /\ run[rows[i].job] \in {0, i}
  /\ \A j \in entered : run[j] = 0 /\ j \notin Repeated => pc[j] \notin Unrecorded \cup {"new"}

\* Where a request is tells what it can hold: agents' jobs are never dumped here, a result
\* exists from backupAndUpload's return to processJob's, a notice only after it.
StageInv ==
  \A j \in Jobs :
    /\ pc[j] \in {"dump", "target", "upload"} => Local(j)
    /\ pc[j] \in {"dispatch", "poll"} => ~Local(j)
    /\ res[j] # "none" => pc[j] \in {"resolve", "record", "file", "notify"}
    /\ notice[j] # "none" => pc[j] = "done"
    /\ pc[j] = "file" => res[j] = "success"

\* A file is listed, or about to be, only for a request recorded as no failure.
FilesInv ==
  /\ files \subseteq stored
  /\ \A j \in files : pc[j] \in {"notify", "done", "lost"}
  /\ \A i \in DOMAIN rows :
       rows[i].status = "error" /\ rows[i].job \notin Repeated
         => rows[i].job \notin files /\ pc[rows[i].job] # "file"

\* A dump file is a local job's, and goes before anyone can learn of a success, as long as
\* os.Remove works.
TmpInv ==
  /\ OnlyFailuresLeaveFiles
  /\ \A j \in tmp : Local(j) /\ res[j] # "success" /\ pc[j] # "new"

\* Without signals and registry failures no statement fails, so recordBackupRun succeeds.
RecordedInv ==
  /\ ~cancelled
  /\ \A j \in Jobs :
       pc[j] \in {"file", "notify", "done"} /\ run[j] \in DOMAIN rows => rows[run[j]].status # "running"

(***************************************************************************)
(* Refinement: the log the admin page shows is a RunLedger.                *)
(***************************************************************************)

\* The log page shows every row; of a request, the statuses its rows have.
LogView ==
  [j \in {rows[i].job : i \in DOMAIN rows} |->
     {rows[i].status : i \in {i \in DOMAIN rows : rows[i].job = j}}]

LedgerView ==
  INSTANCE RunLedger WITH Jobs <- Requests, log <- LogView, stored <- Delivered, repeated <- Repeated

\* The log as a whole behaves as RunLedger says: one entry per request, settled at most
\* once and only truthfully, cleared entries never coming back.  A request whose job came
\* to the list twice may be settled again, or get an entry for each if it has no RunID.
Ledger == LedgerView!Spec
==============================================================================
