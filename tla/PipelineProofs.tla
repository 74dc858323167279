--------------------------- MODULE PipelineProofs ---------------------------
(***************************************************************************)
(* Pipeline's properties for any set of requests, any number of copies of  *)
(* their jobs in the list, and any mix of faults.                          *)
(***************************************************************************)
EXTENDS Pipeline, SequenceTheorems, TLAPS

\* A request is a job and stands for itself; a copy is a job of its request's kind.
LEMMA JobKinds ==
  /\ Requests \subseteq Jobs
  /\ Copies \subseteq Jobs
  /\ \A j \in Requests : Original[j] = j /\ j \notin Copies
  /\ \A j \in Jobs : /\ Original[j] \in Requests
                     /\ Original[j] \in Jobs
                     /\ Original[j] = j \/ j \in Copies
                     /\ Local(j) <=> Local(Original[j])
BY PipelineAssumption DEF Requests, Local

\* An empty log and an empty list are well typed.
LEMMA InitTypeOK == Init => TypeOK
<1> SUFFICES ASSUME Init PROVE TypeOK
    OBVIOUS
<1>1. DOMAIN rows = {} /\ rows \in [DOMAIN rows -> Row]
  BY DEF Init
<1>2. run \in [Jobs -> 0 .. lastId] /\ queue \in Seq(Jobs)
  BY DEF Init
<1> QED BY <1>1, <1>2, PipelineAssumption DEF Init, TypeOK, Steps, Working, LocalSteps

\* Updating a row in place leaves backup_runs a table of rows with the same ids.
LEMMA FinishType ==
  ASSUME TypeOK, NEW id, NEW status \in {"running", "success", "error"},
         NEW startedAt \in {"blank", "known"}, FinishBackupRun(id, status, startedAt)
  PROVE  DOMAIN rows' = DOMAIN rows /\ rows' \in [DOMAIN rows' -> Row]
<1>1. \A i \in DOMAIN rows : rows[i] \in Row
  BY DEF TypeOK
<1>2. ASSUME NEW r \in Row
      PROVE [r EXCEPT !.status = status, !.startedAt = IF startedAt = "blank" THEN @ ELSE startedAt] \in Row
  BY DEF Row
<1>3. DOMAIN rows' = DOMAIN rows
  BY DEF FinishBackupRun
<1> QED BY <1>1, <1>2, <1>3 DEF FinishBackupRun

\* UpdateBackupRunStarted leaves backup_runs a table of rows with the same ids.
LEMMA StartType ==
  ASSUME TypeOK, NEW id, UpdateBackupRunStarted(id)
  PROVE  DOMAIN rows' = DOMAIN rows /\ rows' \in [DOMAIN rows' -> Row]
<1>1. \A i \in DOMAIN rows : rows[i] \in Row
  BY DEF TypeOK
<1>2. ASSUME NEW r \in Row PROVE [r EXCEPT !.startedAt = "known"] \in Row
  BY DEF Row
<1>3. DOMAIN rows' = DOMAIN rows
  BY DEF UpdateBackupRunStarted
<1> QED BY <1>1, <1>2, <1>3 DEF UpdateBackupRunStarted

\* Every step of the producers, the consumer and the world keeps the types.
LEMMA NextTypeOK == TypeOK /\ [Next]_vars => TypeOK'
<1> SUFFICES ASSUME TypeOK, [Next]_vars PROVE TypeOK'
    OBVIOUS
<1> USE DEF TypeOK, vars, registryVars, jobVars, consumerVars, worldVars, Steps, Working, LocalSteps, Goto
<1>1. ASSUME NEW j \in Requests, Produce(j) PROVE TypeOK'
  <2>0. j \in Jobs /\ Original[j] \in Requests
    BY JobKinds
  <2> USE <2>0
  <2>1. CASE CreateRun(j)
    <3>1. CASE CreateBackupRun(j, "running", "blank") /\ run' = [run EXCEPT ![j] = NextRunId]
      <4>1. rows' \in [DOMAIN rows' -> Row] /\ DOMAIN rows' \subseteq 1 .. lastId'
        BY <3>1 DEF CreateBackupRun, NextRunId, Row
      <4>2. lastId' \in Nat /\ run' \in [Jobs -> 0 .. lastId']
        BY <3>1 DEF CreateBackupRun, NextRunId
      <4> QED BY <2>1, <3>1, <4>1, <4>2 DEF CreateRun, CreateBackupRun
    <3>2. CASE UNCHANGED <<rows, lastId, entered, run>>
      BY <2>1, <3>2 DEF CreateRun
    <3> QED BY <2>1, <3>1, <3>2 DEF CreateRun
  <2>2. CASE Push(j)
    BY <2>2 DEF Push, ReadyToPush
  <2>3. CASE PushFails(j) \/ ProducerDies(j)
    BY <2>3 DEF PushFails, ProducerDies
  <2> QED BY <1>1, <2>1, <2>2, <2>3 DEF Produce
<1>c. ASSUME NEW c \in Copies, PushAgain(c) PROVE TypeOK'
  <2>0. c \in Jobs /\ Original[c] \in Jobs
    BY JobKinds
  <2> USE <2>0
  <2>1. run' \in [Jobs -> 0 .. lastId'] /\ pc' \in [Jobs -> Steps]
    BY <1>c DEF PushAgain
  <2>2. queue' \in Seq(Jobs)
    BY <1>c DEF PushAgain
  <2>3. \A j \in Jobs : pc'[j] \in {"resolve", "record", "file", "notify"} => res'[j] # "none"
    BY <1>c DEF PushAgain
  <2> QED BY <1>c, <2>1, <2>2, <2>3 DEF PushAgain
<1>2. ASSUME NEW j \in Jobs, ProcessJob(j) PROVE TypeOK'
  <2>1. CASE StartJob(j)
    <3>1. rows' \in [DOMAIN rows' -> Row] /\ DOMAIN rows' = DOMAIN rows
      BY <2>1, StartType DEF StartJob
    <3> QED BY <2>1, <3>1 DEF StartJob
  <2>2. CASE Dump(j) \/ ResolveTarget(j) \/ Upload(j)
    BY <2>2 DEF Dump, ResolveTarget, Upload, PartialDump, MaybeStored, Return
  <2>3. CASE Dispatch(j) \/ PollGivesUp(j)
    BY <2>3 DEF Dispatch, PollGivesUp, Return
  <2>4. CASE Poll(j)
    BY <2>4 DEF Poll, Return
  <2>5. CASE ResolveDatabase(j) \/ RecordFile(j) \/ Notify(j)
    BY <2>5 DEF ResolveDatabase, RecordFile, Notify, Notified
  <2>6. CASE Record(j)
    <3>1. CASE StatementFails /\ UNCHANGED <<rows, lastId, entered>>
      BY <2>6, <3>1 DEF Record
    <3>2. CASE RecordBackupRun(j)
      <4>0. res[j] \in {"success", "error"} /\ StartedAt(j) \in {"blank", "known"}
        BY <2>6 DEF Record, StartedAt
      <4>3. Original[j] \in Requests
        BY JobKinds
      <4>1. CASE run[j] # 0
        <5>1. rows' \in [DOMAIN rows' -> Row] /\ DOMAIN rows' = DOMAIN rows
          BY <3>2, <4>0, <4>1, FinishType DEF RecordBackupRun
        <5> QED BY <2>6, <3>2, <4>1, <5>1 DEF Record, RecordBackupRun
      <4>2. CASE run[j] = 0
        <5>1. rows' \in [DOMAIN rows' -> Row] /\ DOMAIN rows' \subseteq 1 .. lastId'
          BY <3>2, <4>0, <4>2, <4>3 DEF RecordBackupRun, CreateBackupRun, NextRunId, Row
        <5>2. lastId' \in Nat /\ run' \in [Jobs -> 0 .. lastId'] /\ entered' \subseteq Requests
          BY <2>6, <3>2, <4>2, <4>3 DEF Record, RecordBackupRun, CreateBackupRun, NextRunId
        <5> QED BY <2>6, <5>1, <5>2 DEF Record
      <4> QED BY <4>1, <4>2
    <3> QED BY <2>6, <3>1, <3>2 DEF Record
  <2> QED BY <1>2, <2>1, <2>2, <2>3, <2>4, <2>5, <2>6 DEF ProcessJob
<1>3. ASSUME NEW j \in Jobs, AgentRuns(j) \/ AgentForgets(j) PROVE TypeOK'
  BY <1>3 DEF AgentRuns, MaybeStored, AgentForgets
<1>4. CASE MainLoop
  <2>1. CASE Pop \/ PopReplyLost
    <3>1. queue' \in Seq(Jobs) /\ Head(queue) \in Jobs
      <4> HIDE DEF TypeOK
      <4>1. queue \in Seq(Jobs) /\ queue # <<>> /\ queue' = Tail(queue)
        BY <2>1 DEF Pop, PopReplyLost, TypeOK
      <4> QED BY <4>1, HeadTailProperties
    <3> QED BY <2>1, <3>1 DEF Pop, PopReplyLost, AfterPop
  <2>2. CASE LoopTest \/ PopNothing \/ Close \/ Start
    BY <2>2 DEF LoopTest, PopNothing, Close, Start
  <2> QED BY <1>4, <2>1, <2>2 DEF MainLoop
<1>5. CASE DeleteAllBackupRuns \/ Sigterm \/ Crash
  <2>1. CASE DeleteAllBackupRuns
    <3>1. DOMAIN rows' = {} /\ rows' \in [DOMAIN rows' -> Row]
      BY <2>1 DEF DeleteAllBackupRuns
    <3> QED BY <2>1, <3>1 DEF DeleteAllBackupRuns
  <2>2. CASE Sigterm
    BY <2>2 DEF Sigterm
  <2>3. CASE Crash
    <3>1. pc' \in [Jobs -> Steps] /\ \A j \in Jobs : pc'[j] \notin Working
      BY <2>3 DEF Crash, Active
    <3> QED BY <2>3, <3>1 DEF Crash
  <2> QED BY <1>5, <2>1, <2>2, <2>3
<1>6. CASE UNCHANGED vars
  BY <1>6
<1> QED BY <1>1, <1>c, <1>2, <1>3, <1>4, <1>5, <1>6 DEF Next

\* Every variable of the pipeline stays in its type, row ids included: no id in use, in a
\* row or in a job, is ever above the registry's AUTOINCREMENT counter.
THEOREM TypeCorrect == Spec => []TypeOK
BY InitTypeOK, NextTypeOK, PTL DEF Spec

-----------------------------------------------------------------------------
(***************************************************************************)
(* The inductive invariant.  Each part has a lemma of its own; the frame   *)
(* lemmas cover the many steps that leave what the part is about alone.    *)
(***************************************************************************)

IInv == TypeOK /\ RowsInv /\ CopyInv /\ QueueInv /\ ResultInv /\ MainInv /\ SuccessIsStored

\* The inductive invariant holds before the first request.
LEMMA InitIInv == Init => IInv
<1> SUFFICES ASSUME Init PROVE IInv
    OBVIOUS
<1>1. TypeOK
  BY InitTypeOK
<1>2. DOMAIN rows = {} /\ Len(queue) = 0
  BY DEF Init
<1>3. RowsInv /\ SuccessIsStored
  BY <1>2 DEF Init, RowsInv, RunIdIsOwn, SuccessIsStored
<1>4. QueueInv
  BY <1>2 DEF QueueInv
<1>5. ResultInv
  BY DEF Init, ResultInv
<1>c. CopyInv
  BY JobKinds DEF Init, CopyInv
<1>6. MainInv
  BY DEF Init, MainInv, LocalJobsAreSerial, Active, Up, Working, LocalSteps
<1> QED BY <1>1, <1>3, <1>4, <1>c, <1>5, <1>6 DEF IInv

\* Jobs only move forward: none becomes new again or goes back to its producer, none returns
\* to before its outcome was recorded; what follows is reached through recordBackupRun,
\* "file" with a success only; and a copy leaves "new" by being pushed.
LEMMA PcMoves ==
  ASSUME IInv, [Next]_vars, NEW k \in Jobs
  PROVE  /\ pc'[k] \in Unrecorded \cup {"new"} => pc[k] \in Unrecorded \cup {"new"}
         /\ pc[k] \in {"notify", "done", "lost"} => pc'[k] \in {"notify", "done", "lost"}
         /\ pc'[k] = "file" /\ pc[k] # "file" => Record(k) /\ res[k] = "success"
         /\ pc'[k] \in {"file", "notify", "done"} => pc[k] \in {"file", "notify", "done"} \/ Record(k)
         /\ pc'[k] = "new" => pc[k] = "new"
         /\ pc[k] \notin {"new", "created", "dropped"} => pc'[k] \notin {"new", "created", "dropped"}
         /\ k \in Copies /\ pc[k] = "new" => pc'[k] = "new" \/ PushAgain(k)
<1> DEFINE Moves == /\ pc'[k] \in Unrecorded \cup {"new"} => pc[k] \in Unrecorded \cup {"new"}
                    /\ pc[k] \in {"notify", "done", "lost"} => pc'[k] \in {"notify", "done", "lost"}
                    /\ pc'[k] = "file" /\ pc[k] # "file" => Record(k) /\ res[k] = "success"
                    /\ pc'[k] \in {"file", "notify", "done"} =>
                         pc[k] \in {"file", "notify", "done"} \/ Record(k)
                    /\ pc'[k] = "new" => pc[k] = "new"
                    /\ pc[k] \notin {"new", "created", "dropped"} =>
                         pc'[k] \notin {"new", "created", "dropped"}
                    /\ k \in Copies /\ pc[k] = "new" => pc'[k] = "new" \/ PushAgain(k)
<1> USE DEF Goto, Unrecorded
<1>0. pc \in [Jobs -> Steps] /\ queue \in Seq(Jobs) /\ QueueInv
  BY DEF IInv, TypeOK
<1>1. CASE pc'[k] = pc[k]
  BY <1>1
<1>2. ASSUME NEW j \in Requests, Produce(j) PROVE Moves
  BY <1>0, <1>2, JobKinds DEF Produce, CreateRun, Push, PushFails, ProducerDies, ReadyToPush
<1>c. ASSUME NEW c \in Copies, PushAgain(c) PROVE Moves
  <2>1. pc[c] = "new" /\ pc'[c] = "queued" /\ (k # c => pc'[k] = pc[k])
    BY <1>0, <1>c, JobKinds DEF PushAgain
  <2> QED BY <1>1, <1>c, <2>1
<1>3. ASSUME NEW j \in Jobs, ProcessJob(j) PROVE Moves
  <2>1. CASE StartJob(j) \/ Dump(j) \/ ResolveTarget(j) \/ Upload(j)
    BY <1>0, <2>1 DEF StartJob, Dump, ResolveTarget, Upload, Return
  <2>2. CASE Dispatch(j) \/ Poll(j) \/ PollGivesUp(j)
    BY <1>0, <2>2 DEF Dispatch, Poll, PollGivesUp, Return
  <2>3. CASE ResolveDatabase(j) \/ RecordFile(j) \/ Notify(j)
    BY <1>0, <2>3 DEF ResolveDatabase, RecordFile, Notify
  <2>4. CASE Record(j)
    <3>1. /\ pc[j] = "record" /\ pc'[j] = IF res[j] = "success" THEN "file" ELSE "notify"
          /\ k # j => pc'[k] = pc[k]
      BY <1>0, <2>4 DEF Record
    <3> QED BY <1>1, <2>4, <3>1
  <2> QED BY <1>3, <2>1, <2>2, <2>3, <2>4 DEF ProcessJob
<1>4. CASE Pop \/ PopReplyLost
  <2>1. queue # <<>>
    BY <1>4 DEF Pop, PopReplyLost
  <2>2. Head(queue) = queue[1] /\ 1 \in 1 .. Len(queue)
    BY <1>0, <2>1
  <2>3. pc[Head(queue)] = "queued"
    BY <1>0, <2>2 DEF QueueInv
  <2>4. pc'[k] = pc[k] \/ (k = Head(queue) /\ pc'[k] \in {"popped", "lost"})
    BY <1>0, <1>4 DEF Pop, PopReplyLost
  <2> QED BY <1>1, <2>3, <2>4
<1>5. CASE Crash
  BY <1>0, <1>5 DEF Crash, Active, Working, LocalSteps
<1>6. ASSUME NEW j \in Jobs, AgentRuns(j) \/ AgentForgets(j) PROVE Moves
  BY <1>1, <1>6 DEF AgentRuns, AgentForgets, jobVars
<1>7. CASE LoopTest \/ PopNothing \/ Close \/ Start \/ DeleteAllBackupRuns \/ Sigterm \/ UNCHANGED vars
  BY <1>1, <1>7 DEF LoopTest, PopNothing, Close, Start, DeleteAllBackupRuns, Sigterm, vars, jobVars
<1> HIDE DEF Moves
<1>8. Moves
  BY <1>2, <1>c, <1>3, <1>4, <1>5, <1>6, <1>7 DEF Next, MainLoop, Moves
<1> QED BY <1>8 DEF Moves

\* A second entry of a request in the list makes it a repeated one, for good.
LEMMA RepeatedGrows ==
  ASSUME \A k \in Jobs : pc'[k] = "new" => pc[k] = "new"
  PROVE  Repeated \subseteq Repeated'
BY JobKinds DEF Repeated

\* Of a request that was not repeated only its own job has ever been pushed.
LEMMA OnlyJob ==
  ASSUME NEW j \in Jobs, pc[j] # "new", Original[j] \notin Repeated
  PROVE  Original[j] = j /\ j \in Requests
BY JobKinds DEF Repeated

\* Only a push that is retried changes the set of repeated requests.
LEMMA RepeatedChanges ==
  ASSUME IInv, [Next]_vars
  PROVE  Repeated' = Repeated \/ \E c \in Copies : PushAgain(c)
<1>1. \A k \in Copies : pc[k] = "new" => pc'[k] = "new" \/ PushAgain(k)
  BY PcMoves, JobKinds
<1>2. \A k \in Copies : pc'[k] = "new" => pc[k] = "new"
  BY PcMoves, JobKinds
<1> QED BY <1>1, <1>2 DEF Repeated

\* A step that leaves the rows and the RunIDs alone, and neither brings a request back to
\* "new" nor revives one whose outcome was recorded or given up, preserves RowsInv.
LEMMA RowsFrame ==
  ASSUME TypeOK, RowsInv, UNCHANGED <<rows, run>>,
         \A k \in Jobs : pc'[k] = "new" => pc[k] = "new",
         \A k \in Jobs : pc'[k] \in Unrecorded => pc[k] \in Unrecorded \cup {"new"}
  PROVE  RowsInv'
<1>1. RunIdIsOwn'
  BY DEF RowsInv, RunIdIsOwn
<1>2. 0 \notin DOMAIN rows
  BY DEF TypeOK
<1>3. ASSUME NEW k \in Jobs, pc'[k] \in Unrecorded, Original[k] \notin Repeated', run[k] \in DOMAIN rows
      PROVE rows[run[k]].status = "running"
  <2>1. Original[k] \notin Repeated
    BY <1>3, RepeatedGrows
  <2> QED BY <1>2, <1>3, <2>1 DEF RowsInv
<1> QED BY <1>1, <1>3 DEF RowsInv, Unrecorded

\* After an insert for j with a fresh id, every other row and RunID is as before.
LEMMA InsertEffect ==
  ASSUME TypeOK, NEW j \in Jobs, NEW status, NEW startedAt, CreateBackupRun(j, status, startedAt)
  PROVE  /\ DOMAIN rows' = DOMAIN rows \cup {lastId + 1}
         /\ lastId + 1 \notin DOMAIN rows
         /\ \A k \in Jobs : run[k] # lastId + 1
         /\ rows'[lastId + 1] = [job |-> Original[j], status |-> status, startedAt |-> startedAt]
         /\ \A i \in DOMAIN rows : rows'[i] = rows[i]
<1>1. lastId + 1 \notin DOMAIN rows /\ \A k \in Jobs : run[k] # lastId + 1
  BY DEF TypeOK
<1> QED BY <1>1 DEF CreateBackupRun, NextRunId

\* Finishing or starting a row touches no other row, and no row's job.
LEMMA FinishEffect ==
  ASSUME TypeOK, NEW id, NEW status, NEW startedAt, FinishBackupRun(id, status, startedAt)
  PROVE  /\ DOMAIN rows' = DOMAIN rows
         /\ \A i \in DOMAIN rows : rows'[i].job = rows[i].job
         /\ \A i \in DOMAIN rows : i # id => rows'[i] = rows[i]
         /\ \A i \in DOMAIN rows : i = id => rows'[i].status = status
<1>1. \A i \in DOMAIN rows : rows[i] \in Row
  BY DEF TypeOK
<1> QED BY <1>1 DEF FinishBackupRun, Row

\* UpdateBackupRunStarted changes no row's job and no row's status.
LEMMA StartEffect ==
  ASSUME TypeOK, NEW id, UpdateBackupRunStarted(id)
  PROVE  /\ DOMAIN rows' = DOMAIN rows
         /\ \A i \in DOMAIN rows : rows'[i].job = rows[i].job /\ rows'[i].status = rows[i].status
<1>1. \A i \in DOMAIN rows : rows[i] \in Row
  BY DEF TypeOK
<1> QED BY <1>1 DEF UpdateBackupRunStarted, Row

\* Each job keeps its own row, and that row reads "running" until its outcome is recorded:
\* ids come from AUTOINCREMENT, and a clear removes rows without freeing their ids.
LEMMA NextRowsInv == IInv /\ [Next]_vars => RowsInv'
<1> SUFFICES ASSUME IInv, [Next]_vars PROVE RowsInv'
    OBVIOUS
<1> USE DEF Goto, Unrecorded
<1>0. /\ TypeOK /\ RowsInv /\ QueueInv /\ pc \in [Jobs -> Steps] /\ run \in [Jobs -> 0 .. lastId]
      /\ Repeated \subseteq Repeated'
  BY PcMoves, RepeatedGrows DEF IInv, TypeOK
<1>c. ASSUME NEW c \in Copies, PushAgain(c) PROVE RowsInv'
  <2>1. /\ rows' = rows /\ pc'[c] = "queued" /\ run'[c] = run[Original[c]]
        /\ \A k \in Jobs : k # c => pc'[k] = pc[k] /\ run'[k] = run[k]
    BY <1>0, <1>c, JobKinds DEF PushAgain, registryVars
  <2>2. Original[c] \in Repeated'
    BY <1>c, <2>1 DEF Repeated
  <2>3. RunIdIsOwn'
    BY <1>0, <2>1, JobKinds DEF RowsInv, RunIdIsOwn
  <2>4. \A k \in Jobs : pc'[k] = "new" => run'[k] = 0
    BY <1>0, <2>1 DEF RowsInv
  <2>5. ASSUME NEW k \in Jobs, pc'[k] \in Unrecorded, Original[k] \notin Repeated', run'[k] \in DOMAIN rows'
        PROVE  rows'[run'[k]].status = "running"
    BY <1>0, <2>1, <2>2, <2>5 DEF RowsInv
  <2> QED BY <2>3, <2>4, <2>5 DEF RowsInv
<1>1. ASSUME NEW j \in Requests, Produce(j) PROVE RowsInv'
  <2>0. j \in Jobs /\ Original[j] = j
    BY JobKinds
  <2>1. CASE CreateRun(j)
    <3>1. CASE CreateBackupRun(j, "running", "blank") /\ run' = [run EXCEPT ![j] = NextRunId]
      <4>1. run'[j] = lastId + 1 /\ \A k \in Jobs : k # j => run'[k] = run[k]
        BY <1>0, <2>0, <3>1 DEF NextRunId
      <4>2. pc'[j] = "created" /\ \A k \in Jobs : k # j => pc'[k] = pc[k]
        BY <1>0, <2>0, <2>1 DEF CreateRun
      <4>3. /\ DOMAIN rows' = DOMAIN rows \cup {lastId + 1}
            /\ rows'[lastId + 1] = [job |-> j, status |-> "running", startedAt |-> "blank"]
            /\ \A k \in Jobs : run[k] # lastId + 1
            /\ \A i \in DOMAIN rows : rows'[i] = rows[i]
        BY <1>0, <2>0, <3>1, InsertEffect
      <4> QED BY <1>0, <2>0, <4>1, <4>2, <4>3 DEF RowsInv, RunIdIsOwn
    <3>2. CASE UNCHANGED <<rows, lastId, entered, run>>
      BY <1>0, <2>0, <2>1, <3>2, RowsFrame DEF CreateRun
    <3> QED BY <2>1, <3>1, <3>2 DEF CreateRun
  <2>2. CASE Push(j) \/ PushFails(j) \/ ProducerDies(j)
    BY <1>0, <2>0, <2>2, RowsFrame DEF Push, PushFails, ProducerDies, ReadyToPush, registryVars
  <2> QED BY <1>1, <2>1, <2>2 DEF Produce
<1>2. ASSUME NEW j \in Jobs, ProcessJob(j) PROVE RowsInv'
  <2>1. CASE StartJob(j)
    <3>1. pc[j] = "popped" /\ run' = run /\ \A k \in Jobs : k # j => pc'[k] = pc[k]
      BY <1>0, <2>1 DEF StartJob
    <3>2. pc'[j] \in {"dump", "dispatch"}
      BY <1>0, <2>1 DEF StartJob
    <3>3. CASE UNCHANGED rows
      BY <1>0, <3>1, <3>2, <3>3, RowsFrame
    <3>4. CASE UpdateBackupRunStarted(run[j])
      BY <1>0, <3>1, <3>2, <3>4, StartEffect DEF RowsInv, RunIdIsOwn
    <3> QED BY <2>1, <3>3, <3>4 DEF StartJob
  <2>2. CASE Dump(j) \/ ResolveTarget(j) \/ Upload(j)
    BY <1>0, <2>2, RowsFrame DEF Dump, ResolveTarget, Upload, Return, registryVars
  <2>3. CASE Dispatch(j) \/ Poll(j) \/ PollGivesUp(j)
    BY <1>0, <2>3, RowsFrame DEF Dispatch, Poll, PollGivesUp, Return, registryVars
  <2>4. CASE ResolveDatabase(j) \/ RecordFile(j) \/ Notify(j)
    BY <1>0, <2>4, RowsFrame DEF ResolveDatabase, RecordFile, Notify, registryVars
  <2>5. CASE Record(j)
    <3>1. /\ pc[j] = "record"
          /\ run' = run
          /\ pc'[j] \in {"file", "notify"}
          /\ \A k \in Jobs : k # j => pc'[k] = pc[k]
      BY <1>0, <2>5 DEF Record
    <3>2. CASE UNCHANGED <<rows, lastId, entered>>
      BY <1>0, <3>1, <3>2, RowsFrame
    <3>3. CASE run[j] # 0 /\ FinishBackupRun(run[j], res[j], StartedAt(j))
      <4>1. /\ DOMAIN rows' = DOMAIN rows
            /\ \A i \in DOMAIN rows : rows'[i].job = rows[i].job
            /\ \A i \in DOMAIN rows : i # run[j] => rows'[i] = rows[i]
        BY <1>0, <3>3, FinishEffect
      <4>2. RunIdIsOwn'
        BY <1>0, <3>1, <4>1 DEF RowsInv, RunIdIsOwn
      <4>3. ASSUME NEW k \in Jobs, pc'[k] \in Unrecorded, Original[k] \notin Repeated', run'[k] \in DOMAIN rows'
            PROVE  rows'[run'[k]].status = "running"
        <5>1. k # j /\ pc[k] \in Unrecorded /\ Original[k] \notin Repeated /\ run[k] \in DOMAIN rows
          BY <1>0, <3>1, <4>1, <4>3
        <5>2. CASE run[k] # run[j]
          BY <3>1, <4>1, <5>1, <5>2, <1>0 DEF RowsInv
        <5>3. CASE run[k] = run[j]
          <6>1. Original[k] = Original[j]
            BY <1>0, <5>1, <5>3 DEF RowsInv, RunIdIsOwn
          <6>2. Original[k] = k /\ Original[j] = j
            BY <3>1, <5>1, <6>1, OnlyJob
          <6> QED BY <5>1, <6>1, <6>2
        <5> QED BY <5>2, <5>3
      <4> QED BY <1>0, <3>1, <4>2, <4>3 DEF RowsInv
    <3>4. CASE run[j] = 0 /\ CreateBackupRun(j, res[j], StartedAt(j))
      <4>1. /\ DOMAIN rows' = DOMAIN rows \cup {lastId + 1}
            /\ \A k \in Jobs : run[k] # lastId + 1
            /\ \A i \in DOMAIN rows : rows'[i] = rows[i]
        BY <1>0, <3>4, InsertEffect
      <4> QED BY <1>0, <3>1, <4>1 DEF RowsInv, RunIdIsOwn
    <3> QED BY <2>5, <3>2, <3>3, <3>4 DEF Record, RecordBackupRun
  <2> QED BY <1>2, <2>1, <2>2, <2>3, <2>4, <2>5 DEF ProcessJob
<1>3. ASSUME NEW j \in Jobs, AgentRuns(j) \/ AgentForgets(j) PROVE RowsInv'
  BY <1>0, <1>3, RowsFrame DEF AgentRuns, AgentForgets, registryVars, jobVars
<1>4. CASE MainLoop
  <2>1. CASE Pop \/ PopReplyLost
    <3>1. queue \in Seq(Jobs) /\ queue # <<>>
      BY <2>1 DEF Pop, PopReplyLost, IInv, TypeOK
    <3>2. Head(queue) = queue[1] /\ 1 \in 1 .. Len(queue) /\ queue[1] \in Jobs
      BY <3>1
    <3>3. pc[Head(queue)] = "queued"
      BY <1>0, <3>2 DEF QueueInv
    <3> QED BY <1>0, <2>1, <3>2, <3>3, RowsFrame DEF Pop, PopReplyLost, registryVars
  <2>2. CASE LoopTest \/ PopNothing \/ Close \/ Start
    BY <1>0, <2>2, RowsFrame DEF LoopTest, PopNothing, Close, Start, registryVars, jobVars
  <2> QED BY <1>4, <2>1, <2>2 DEF MainLoop
<1>5. CASE DeleteAllBackupRuns
  BY <1>0, <1>5 DEF DeleteAllBackupRuns, RowsInv, RunIdIsOwn, jobVars
<1>6. CASE Sigterm \/ Crash
  BY <1>0, <1>6, RowsFrame DEF Sigterm, Crash, registryVars, jobVars
<1>7. CASE UNCHANGED vars
  BY <1>0, <1>7, RowsFrame DEF vars, registryVars, jobVars
<1> QED BY <1>1, <1>c, <1>2, <1>3, <1>4, <1>5, <1>6, <1>7 DEF Next

\* A copy has its original's RunID, which is fixed once the original is pushed.
LEMMA NextCopyInv == IInv /\ [Next]_vars => CopyInv'
<1> SUFFICES ASSUME IInv, [Next]_vars, NEW c \in Copies, pc'[c] # "new"
             PROVE  /\ run'[c] = run'[Original[c]]
                    /\ pc'[Original[c]] \notin {"new", "created", "dropped"}
    BY DEF CopyInv
<1> DEFINE o == Original[c]
<1>0. /\ c \in Jobs /\ o \in Jobs /\ o \in Requests /\ o # c
      /\ run \in [Jobs -> 0 .. lastId] /\ pc \in [Jobs -> Steps]
  BY JobKinds DEF IInv, TypeOK
<1>1. CASE PushAgain(c)
  <2>1. run'[c] = run[o] /\ run'[o] = run[o] /\ pc'[o] = pc[o] /\ pc[o] \notin {"new", "created", "dropped"}
    BY <1>0, <1>1 DEF PushAgain, Goto
  <2> QED BY <2>1
<1>2. CASE ~PushAgain(c)
  <2>1. pc[c] # "new"
    BY <1>0, <1>2, PcMoves
  <2>2. run[c] = run[o] /\ pc[o] \notin {"new", "created", "dropped"}
    BY <2>1 DEF IInv, CopyInv
  <2>3. pc'[o] \notin {"new", "created", "dropped"}
    BY <1>0, <2>2, PcMoves
  <2>4. ASSUME NEW j \in Requests, Produce(j) PROVE run'[c] = run[c] /\ run'[o] = run[o]
    BY <1>0, <2>2, <2>4, JobKinds DEF Produce, CreateRun, Push, PushFails, ProducerDies
  <2>5. ASSUME NEW k \in Copies, PushAgain(k) PROVE run'[c] = run[c] /\ run'[o] = run[o]
    BY <1>0, <2>1, <2>5, JobKinds DEF PushAgain
  <2>6. ASSUME NEW j \in Jobs, ProcessJob(j) PROVE run' = run
    BY <2>6 DEF ProcessJob, StartJob, Dump, ResolveTarget, Upload, Dispatch, Poll, PollGivesUp,
         ResolveDatabase, Record, RecordFile, Notify
  <2>7. ASSUME NEW j \in Jobs, AgentRuns(j) \/ AgentForgets(j) PROVE run' = run
    BY <2>7 DEF AgentRuns, AgentForgets, jobVars
  <2>8. ASSUME MainLoop \/ DeleteAllBackupRuns \/ Sigterm \/ Crash \/ UNCHANGED vars PROVE run' = run
    BY <2>8 DEF MainLoop, Pop, PopReplyLost, LoopTest, PopNothing, Close, Start, DeleteAllBackupRuns,
         Sigterm, Crash, vars, jobVars
  <2>9. run'[c] = run[c] /\ run'[o] = run[o]
    BY <2>4, <2>5, <2>6, <2>7, <2>8 DEF Next
  <2> QED BY <2>2, <2>3, <2>9
<1> QED BY <1>1, <1>2

\* A step that leaves the list alone and moves no queued request preserves QueueInv.
LEMMA QueueFrame ==
  ASSUME TypeOK, QueueInv, queue' = queue,
         \A k \in Jobs : pc[k] = "queued" => pc'[k] = "queued"
  PROVE  QueueInv'
<1>1. \A i \in 1 .. Len(queue) : queue[i] \in Jobs
  BY DEF TypeOK
<1> QED BY <1>1 DEF QueueInv

\* Appending a job that is not in the list, and marking it queued, preserves QueueInv.
LEMMA QueueGains ==
  ASSUME TypeOK, QueueInv, NEW j \in Jobs, pc[j] # "queued", pc'[j] = "queued",
         queue' = Append(queue, j), \A k \in Jobs : k # j => pc'[k] = pc[k]
  PROVE  QueueInv'
<1>0. queue \in Seq(Jobs)
  BY DEF TypeOK
<1>1. /\ Len(queue') = Len(queue) + 1
      /\ \A i \in 1 .. Len(queue) : queue'[i] = queue[i]
      /\ queue'[Len(queue) + 1] = j
      /\ Len(queue) \in Nat
  BY <1>0, AppendProperties
<1>2. \A i \in 1 .. Len(queue) : queue[i] \in Jobs /\ queue[i] # j
  BY <1>0 DEF QueueInv
<1> QED BY <1>0, <1>1, <1>2 DEF QueueInv

\* The list holds each queued job once: RPUSH appends an entry and BLPOP removes it.
LEMMA NextQueueInv == IInv /\ [Next]_vars => QueueInv'
<1> SUFFICES ASSUME IInv, [Next]_vars PROVE QueueInv'
    OBVIOUS
<1> USE DEF Goto
<1>0. TypeOK /\ QueueInv /\ queue \in Seq(Jobs) /\ pc \in [Jobs -> Steps]
  BY DEF IInv, TypeOK
<1>1. ASSUME NEW j \in Requests, Produce(j) PROVE QueueInv'
  <2>0. j \in Jobs
    BY JobKinds
  <2>1. CASE Push(j)
    <3>1. pc[j] # "queued" /\ pc'[j] = "queued" /\ \A k \in Jobs : k # j => pc'[k] = pc[k]
      BY <1>0, <2>0, <2>1 DEF Push, ReadyToPush
    <3> QED BY <1>0, <2>0, <2>1, <3>1, QueueGains DEF Push
  <2>2. CASE CreateRun(j) \/ PushFails(j) \/ ProducerDies(j)
    BY <1>0, <2>0, <2>2, QueueFrame DEF CreateRun, PushFails, ProducerDies, ReadyToPush
  <2> QED BY <1>1, <2>1, <2>2 DEF Produce
<1>c. ASSUME NEW c \in Copies, PushAgain(c) PROVE QueueInv'
  <2>1. c \in Jobs /\ pc[c] # "queued" /\ pc'[c] = "queued" /\ \A k \in Jobs : k # c => pc'[k] = pc[k]
    BY <1>0, <1>c, JobKinds DEF PushAgain
  <2> QED BY <1>0, <1>c, <2>1, QueueGains DEF PushAgain
<1>2. ASSUME NEW j \in Jobs, ProcessJob(j) PROVE QueueInv'
  <2>1. CASE StartJob(j) \/ Dump(j) \/ ResolveTarget(j) \/ Upload(j)
    BY <1>0, <2>1, QueueFrame DEF StartJob, Dump, ResolveTarget, Upload, Return
  <2>2. CASE Dispatch(j) \/ Poll(j) \/ PollGivesUp(j)
    BY <1>0, <2>2, QueueFrame DEF Dispatch, Poll, PollGivesUp, Return
  <2>3. CASE ResolveDatabase(j) \/ Record(j) \/ RecordFile(j) \/ Notify(j)
    BY <1>0, <2>3, QueueFrame DEF ResolveDatabase, Record, RecordFile, Notify
  <2> QED BY <1>2, <2>1, <2>2, <2>3 DEF ProcessJob
<1>3. ASSUME NEW j \in Jobs, AgentRuns(j) \/ AgentForgets(j) PROVE QueueInv'
  BY <1>0, <1>3, QueueFrame DEF AgentRuns, AgentForgets, jobVars
<1>4. CASE Pop \/ PopReplyLost
  <2>1. /\ queue # <<>> /\ queue' = Tail(queue)
        /\ \A k \in Jobs : k # Head(queue) => pc'[k] = pc[k]
    BY <1>0, <1>4 DEF Pop, PopReplyLost
  <2>2. /\ Len(queue') = Len(queue) - 1 /\ Len(queue) \in Nat /\ Len(queue) > 0
        /\ \A i \in 1 .. Len(queue') : queue'[i] = queue[i + 1]
        /\ Head(queue) = queue[1]
    BY <1>0, <2>1, HeadTailProperties
  <2>3. \A i \in 1 .. Len(queue') : i + 1 \in 1 .. Len(queue) /\ i + 1 # 1
    BY <2>2
  <2>4. \A i \in 1 .. Len(queue') : queue[i + 1] # Head(queue) /\ queue[i + 1] \in Jobs
    BY <1>0, <2>2, <2>3 DEF QueueInv
  <2>5. \A i \in 1 .. Len(queue') : pc'[queue'[i]] = "queued"
    BY <1>0, <2>1, <2>2, <2>3, <2>4 DEF QueueInv
  <2>6. \A i, k \in 1 .. Len(queue') : queue'[i] = queue'[k] => i = k
    BY <1>0, <2>2, <2>3 DEF QueueInv
  <2> QED BY <2>5, <2>6 DEF QueueInv
<1>5. CASE LoopTest \/ PopNothing \/ Close \/ Start
  BY <1>0, <1>5, QueueFrame DEF LoopTest, PopNothing, Close, Start, jobVars
<1>6. CASE DeleteAllBackupRuns \/ Sigterm
  BY <1>0, <1>6, QueueFrame DEF DeleteAllBackupRuns, Sigterm, jobVars
<1>7. CASE Crash
  BY <1>0, <1>7, QueueFrame DEF Crash, Active, Working, LocalSteps
<1>8. CASE UNCHANGED vars
  BY <1>0, <1>8, QueueFrame DEF vars, jobVars
<1> QED BY <1>1, <1>c, <1>2, <1>3, <1>4, <1>5, <1>6, <1>7, <1>8 DEF Next, MainLoop

\* Storage only ever gains backups, and a success is reported for a stored one only.
LEMMA NextResultInv == IInv /\ [Next]_vars => ResultInv' /\ stored \subseteq stored'
<1> SUFFICES ASSUME IInv, [Next]_vars PROVE ResultInv' /\ stored \subseteq stored'
    OBVIOUS
<1> USE DEF ResultInv, Return
<1>0. /\ ResultInv
      /\ res \in [Jobs -> {"none", "success", "error"}]
      /\ agent \in [Jobs -> {"none", "accepted", "success", "error", "gone"}]
  BY DEF IInv, TypeOK
<1>1. ASSUME NEW j \in Requests, Produce(j) PROVE ResultInv' /\ stored \subseteq stored'
  BY <1>0, <1>1 DEF Produce, CreateRun, Push, PushFails, ProducerDies, worldVars
<1>c. ASSUME NEW c \in Copies, PushAgain(c) PROVE ResultInv' /\ stored \subseteq stored'
  BY <1>0, <1>c DEF PushAgain, worldVars
<1>2. ASSUME NEW j \in Jobs, ProcessJob(j) PROVE ResultInv' /\ stored \subseteq stored'
  <2>1. CASE StartJob(j) \/ Dump(j) \/ ResolveTarget(j)
    BY <1>0, <2>1 DEF StartJob, Dump, ResolveTarget, worldVars
  <2>2. CASE Upload(j)
    BY <1>0, <2>2 DEF Upload, MaybeStored
  <2>3. CASE Dispatch(j) \/ Poll(j) \/ PollGivesUp(j)
    BY <1>0, <2>3 DEF Dispatch, Poll, PollGivesUp, worldVars
  <2>4. CASE ResolveDatabase(j) \/ Record(j) \/ RecordFile(j) \/ Notify(j)
    BY <1>0, <2>4 DEF ResolveDatabase, Record, RecordFile, Notify, worldVars
  <2> QED BY <1>2, <2>1, <2>2, <2>3, <2>4 DEF ProcessJob
<1>3. ASSUME NEW j \in Jobs, AgentRuns(j) \/ AgentForgets(j) PROVE ResultInv' /\ stored \subseteq stored'
  BY <1>0, <1>3 DEF AgentRuns, MaybeStored, AgentForgets, jobVars
<1>4. CASE MainLoop
  BY <1>0, <1>4 DEF MainLoop, Pop, PopReplyLost, LoopTest, PopNothing, Close, Start, jobVars, worldVars
<1>5. CASE DeleteAllBackupRuns \/ Sigterm \/ Crash
  BY <1>0, <1>5 DEF DeleteAllBackupRuns, Sigterm, Crash, jobVars, worldVars
<1>6. CASE UNCHANGED vars
  BY <1>0, <1>6 DEF vars, jobVars, worldVars
<1> QED BY <1>1, <1>c, <1>2, <1>3, <1>4, <1>5, <1>6 DEF Next

\* A step that starts no goroutine and keeps the main loop where it is preserves MainInv.
LEMMA MainFrame ==
  ASSUME MainInv, main' = main, \A k \in Jobs : Active(k)' => Active(k)
  PROVE  MainInv'
BY DEF MainInv, LocalJobsAreSerial, Local, Up

\* The main loop is inside processJob whenever a local job is worked on, and no goroutine
\* outlives the process or the wait for it.
LEMMA NextMainInv == IInv /\ [Next]_vars => MainInv'
<1> SUFFICES ASSUME IInv, [Next]_vars PROVE MainInv'
    OBVIOUS
<1> USE DEF Goto, Active, Working, LocalSteps
<1>0. MainInv /\ pc \in [Jobs -> Steps] /\ queue \in Seq(Jobs)
  BY DEF IInv, TypeOK
<1>1. ASSUME NEW j \in Requests, Produce(j) PROVE MainInv'
  BY <1>0, <1>1, JobKinds, MainFrame DEF Produce, CreateRun, Push, PushFails, ProducerDies, consumerVars
<1>c. ASSUME NEW c \in Copies, PushAgain(c) PROVE MainInv'
  BY <1>0, <1>c, JobKinds, MainFrame DEF PushAgain, consumerVars
<1>2. ASSUME NEW j \in Jobs, ProcessJob(j) PROVE MainInv'
  <2>1. CASE StartJob(j) \/ Dump(j) \/ ResolveTarget(j) \/ Upload(j)
    BY <1>0, <2>1, MainFrame DEF StartJob, Dump, ResolveTarget, Upload, Return, consumerVars
  <2>2. CASE Dispatch(j) \/ Poll(j) \/ PollGivesUp(j)
    BY <1>0, <2>2, MainFrame DEF Dispatch, Poll, PollGivesUp, Return, consumerVars
  <2>3. CASE ResolveDatabase(j) \/ Record(j) \/ RecordFile(j)
    BY <1>0, <2>3, MainFrame DEF ResolveDatabase, Record, RecordFile, consumerVars
  <2>4. CASE Notify(j)
    <3>1. /\ Active(j) /\ ~Active(j)'
          /\ \A k \in Jobs : k # j => pc'[k] = pc[k]
      BY <1>0, <2>4 DEF Notify
    <3>2. CASE Local(j)
      <4>1. main' = "loop" /\ \A k \in Jobs : Local(k) => ~Active(k)'
        BY <1>0, <2>4, <3>1, <3>2 DEF Notify, MainInv, LocalJobsAreSerial
      <4> QED BY <4>1 DEF MainInv, LocalJobsAreSerial, Up, Local
    <3>3. CASE ~Local(j)
      BY <1>0, <2>4, <3>1, <3>3, MainFrame DEF Notify
    <3> QED BY <3>2, <3>3
  <2> QED BY <1>2, <2>1, <2>2, <2>3, <2>4 DEF ProcessJob
<1>3. ASSUME NEW j \in Jobs, AgentRuns(j) \/ AgentForgets(j) PROVE MainInv'
  BY <1>0, <1>3, MainFrame DEF AgentRuns, AgentForgets, jobVars, consumerVars
<1>4. CASE Pop
  <2> DEFINE h == Head(queue)
  <2>1. h \in Jobs
    BY <1>0, <1>4, HeadTailProperties DEF Pop
  <2>2. \A k \in Jobs : Local(k) => ~Active(k)
    BY <1>0, <1>4 DEF Pop, MainInv
  <2>3. \A k \in Jobs : Active(k)' => k = h \/ Active(k)
    BY <1>0, <1>4 DEF Pop
  <2>4. main' \in {"busy", "loop"} /\ (Local(h) => main' = "busy")
    BY <1>4 DEF Pop, AfterPop
  <2> HIDE DEF h
  <2> QED BY <2>1, <2>2, <2>3, <2>4 DEF MainInv, LocalJobsAreSerial, Local, Up
<1>5. CASE LoopTest \/ PopNothing \/ PopReplyLost \/ Close \/ Start
  <2>1. \A k \in Jobs : Active(k)' => Active(k)
    BY <1>0, <1>5 DEF LoopTest, PopNothing, PopReplyLost, Close, Start, jobVars
  <2>2. \A k \in Jobs : Local(k) => ~Active(k)
    BY <1>0, <1>5 DEF LoopTest, PopNothing, PopReplyLost, Close, Start, MainInv, Up
  <2>3. ~Up' => \A k \in Jobs : ~Active(k)
    BY <1>5 DEF LoopTest, PopNothing, PopReplyLost, Close, Start, Up, Drained
  <2> QED BY <2>1, <2>2, <2>3 DEF MainInv, LocalJobsAreSerial, Local
<1>6. CASE DeleteAllBackupRuns \/ Sigterm
  BY <1>0, <1>6, MainFrame DEF DeleteAllBackupRuns, Sigterm, jobVars, consumerVars
<1>7. CASE Crash
  <2>1. \A k \in Jobs : ~Active(k)'
    BY <1>0, <1>7 DEF Crash
  <2> QED BY <2>1 DEF MainInv, LocalJobsAreSerial
<1>8. CASE UNCHANGED vars
  BY <1>0, <1>8, MainFrame DEF vars, jobVars, consumerVars
<1> QED BY <1>1, <1>c, <1>2, <1>3, <1>4, <1>5, <1>6, <1>7, <1>8 DEF Next, MainLoop

\* The ways a step can change backup_runs, the RunIDs or the set of requests with a row:
\* the log is cleared, a row is inserted or finished, or its start time is set.
LEMMA RowChanges ==
  ASSUME [Next]_vars
  PROVE  \/ UNCHANGED <<rows, run, entered>>
         \/ DeleteAllBackupRuns
         \/ \E c \in Copies : PushAgain(c) /\ UNCHANGED <<rows, entered>>
         \/ \E j \in Jobs : StartJob(j) /\ UpdateBackupRunStarted(run[j])
         \/ \E j \in Requests : /\ CreateRun(j) /\ CreateBackupRun(j, "running", "blank")
                               /\ run' = [run EXCEPT ![j] = NextRunId]
         \/ \E j \in Jobs : /\ Record(j) /\ run[j] # 0 /\ UNCHANGED entered
                           /\ FinishBackupRun(run[j], res[j], StartedAt(j))
         \/ \E j \in Jobs : Record(j) /\ run[j] = 0 /\ CreateBackupRun(j, res[j], StartedAt(j))
<1> DEFINE Same == UNCHANGED <<rows, run, entered>>
<1>1. ASSUME NEW j \in Jobs, ProcessJob(j) PROVE Same \/ StartJob(j) \/ Record(j)
  BY <1>1 DEF ProcessJob, Dump, ResolveTarget, Upload, Dispatch, Poll, PollGivesUp,
       ResolveDatabase, RecordFile, Notify, registryVars
<1>c. ASSUME NEW c \in Copies, PushAgain(c) PROVE UNCHANGED <<rows, entered>>
  BY <1>c DEF PushAgain, registryVars
<1>2. ASSUME NEW j \in Requests, Produce(j) PROVE Same \/ CreateRun(j)
  BY <1>2 DEF Produce, Push, PushFails, ProducerDies, registryVars
<1>3. ASSUME NEW j \in Jobs, AgentRuns(j) \/ AgentForgets(j) PROVE Same
  BY <1>3 DEF AgentRuns, AgentForgets, registryVars, jobVars
<1>4. CASE MainLoop \/ Sigterm \/ Crash \/ UNCHANGED vars
  BY <1>4 DEF MainLoop, Pop, PopReplyLost, LoopTest, PopNothing, Close, Start, Sigterm, Crash,
       vars, registryVars, jobVars
<1>5. ASSUME NEW j \in Jobs, StartJob(j) PROVE Same \/ UpdateBackupRunStarted(run[j])
  BY <1>5 DEF StartJob
<1>6. ASSUME NEW j \in Requests, CreateRun(j)
      PROVE \/ Same
            \/ CreateBackupRun(j, "running", "blank") /\ run' = [run EXCEPT ![j] = NextRunId]
  BY <1>6 DEF CreateRun
<1>7. ASSUME NEW j \in Jobs, Record(j)
      PROVE \/ Same
            \/ run[j] # 0 /\ UNCHANGED entered /\ FinishBackupRun(run[j], res[j], StartedAt(j))
            \/ run[j] = 0 /\ CreateBackupRun(j, res[j], StartedAt(j))
  BY <1>7 DEF Record, RecordBackupRun
<1> HIDE DEF Same
<1>8. \/ Same \/ DeleteAllBackupRuns
      \/ \E j \in Requests : CreateRun(j)
      \/ \E c \in Copies : PushAgain(c)
      \/ \E j \in Jobs : StartJob(j) \/ Record(j)
  BY <1>1, <1>2, <1>3, <1>4 DEF Next, Same
<1> QED BY <1>c, <1>5, <1>6, <1>7, <1>8 DEF Same

\* Only recordBackupRun writes "success", and only for a backup that is stored.
LEMMA NextSuccessIsStored == IInv /\ [Next]_vars => SuccessIsStored'
<1> SUFFICES ASSUME IInv, [Next]_vars PROVE SuccessIsStored'
    OBVIOUS
<1>0. TypeOK /\ RunIdIsOwn /\ ResultInv /\ SuccessIsStored /\ Delivered \subseteq Delivered'
  BY NextResultInv DEF IInv, RowsInv, Delivered
<1>1. CASE UNCHANGED rows \/ DeleteAllBackupRuns
  BY <1>0, <1>1 DEF SuccessIsStored, DeleteAllBackupRuns
<1>2. ASSUME NEW j \in Jobs, UpdateBackupRunStarted(run[j]) PROVE SuccessIsStored'
  BY <1>0, <1>2, StartEffect DEF SuccessIsStored
<1>3. ASSUME NEW j \in Requests, CreateBackupRun(j, "running", "blank") PROVE SuccessIsStored'
  <2>1. /\ DOMAIN rows' = DOMAIN rows \cup {lastId + 1}
        /\ rows'[lastId + 1] = [job |-> Original[j], status |-> "running", startedAt |-> "blank"]
        /\ \A i \in DOMAIN rows : rows'[i] = rows[i]
    BY <1>0, <1>3, InsertEffect, JobKinds
  <2> QED BY <1>0, <2>1 DEF SuccessIsStored
<1>4. ASSUME NEW j \in Jobs, FinishBackupRun(run[j], res[j], StartedAt(j)) PROVE SuccessIsStored'
  <2>1. res[j] = "success" => Original[j] \in Delivered
    BY <1>0 DEF ResultInv, Delivered
  <2> QED BY <1>0, <1>4, <2>1, FinishEffect DEF SuccessIsStored, RunIdIsOwn
<1>5. ASSUME NEW j \in Jobs, CreateBackupRun(j, res[j], StartedAt(j)) PROVE SuccessIsStored'
  <2>1. res[j] = "success" => Original[j] \in Delivered
    BY <1>0 DEF ResultInv, Delivered
  <2>2. /\ DOMAIN rows' = DOMAIN rows \cup {lastId + 1}
        /\ rows'[lastId + 1] = [job |-> Original[j], status |-> res[j], startedAt |-> StartedAt(j)]
        /\ \A i \in DOMAIN rows : rows'[i] = rows[i]
    BY <1>0, <1>5, InsertEffect
  <2> QED BY <1>0, <2>1, <2>2 DEF SuccessIsStored
<1> QED BY <1>0, <1>1, <1>2, <1>3, <1>4, <1>5, RowChanges

\* The parts together are inductive.
LEMMA NextIInv == IInv /\ [Next]_vars => IInv'
BY NextTypeOK, NextRowsInv, NextCopyInv, NextQueueInv, NextResultInv, NextMainInv, NextSuccessIsStored DEF IInv

\* The inductive invariant: types, each job's own row, the list, results and the main loop.
THEOREM Invariance == Spec => []IInv
BY InitIInv, NextIInv, PTL DEF Spec

\* The log never claims a backup that is not at its storage destination, whatever fails.
THEOREM LogIsTruthful == Spec => []SuccessIsStored
BY Invariance, PTL DEF IInv

\* No job's result is ever written to another job's row, log clears included.
THEOREM RunIdsAreOwn == Spec => []RunIdIsOwn
BY Invariance, PTL DEF IInv, RowsInv

\* The consumer dumps at most one local database at a time.
THEOREM LocalSerial == Spec => []LocalJobsAreSerial
BY Invariance, PTL DEF IInv, MainInv

\* The registry is closed only after the last background goroutine has finished with it.
THEOREM CloseIsLast == Spec => []NoUseAfterClose
<1>1. IInv => NoUseAfterClose
  BY DEF IInv, MainInv, NoUseAfterClose, Up
<1> QED BY <1>1, Invariance, PTL

\* A row that no longer reads "running" never does again, and keeps what it reads unless a
\* second job of the same request is recorded.
LEMMA OutcomeKept ==
  ASSUME IInv, [Next]_vars, NEW i \in DOMAIN rows \cap DOMAIN rows', rows[i].status # "running"
  PROVE  /\ rows'[i].status # "running"
         /\ rows[i].job \in Repeated \/ rows'[i].status = rows[i].status
<1>0. TypeOK /\ RowsInv
  BY DEF IInv
<1>1. CASE UNCHANGED rows \/ DeleteAllBackupRuns
  BY <1>1 DEF DeleteAllBackupRuns
<1>2. CASE \E j \in Jobs : UpdateBackupRunStarted(run[j])
  BY <1>0, <1>2, StartEffect
<1>3. CASE \E j \in Jobs : \E status, startedAt : CreateBackupRun(j, status, startedAt)
  BY <1>0, <1>3, InsertEffect
<1>4. ASSUME NEW j \in Jobs, Record(j), FinishBackupRun(run[j], res[j], StartedAt(j))
      PROVE /\ rows'[i].status # "running"
            /\ rows[i].job \in Repeated \/ rows'[i].status = rows[i].status
  <2>1. pc[j] = "record" /\ res[j] \in {"success", "error"}
    BY <1>0, <1>4 DEF Record, TypeOK
  <2>2. CASE i # run[j]
    BY <1>0, <1>4, <2>2, FinishEffect
  <2>3. CASE i = run[j]
    <3>1. rows'[i].status = res[j]
      BY <1>0, <1>4, <2>3, FinishEffect
    <3>2. rows[i].job = Original[j]
      BY <1>0, <2>3 DEF RowsInv, RunIdIsOwn
    <3>3. Original[j] \in Repeated
      BY <1>0, <2>1, <2>3 DEF RowsInv, Unrecorded
    <3> QED BY <2>1, <3>1, <3>2, <3>3
  <2> QED BY <2>2, <2>3
<1>5. Requests \subseteq Jobs
  BY JobKinds
<1> QED BY <1>1, <1>2, <1>3, <1>4, <1>5, RowChanges

\* A recorded outcome is never taken back, and changes only for a request that a retried
\* push has put into the list twice: FinishBackupRun updates unconditionally, and is safe
\* because of all other requests each RunID is finished by one job, once.
THEOREM OutcomesAreFinal == Spec => OutcomeIsFinal
<1> DEFINE Final == \A i \in DOMAIN rows \cap DOMAIN rows' :
                      rows[i].status # "running" =>
                        /\ rows'[i].status # "running"
                        /\ rows[i].job \in Repeated \/ rows'[i].status = rows[i].status
<1>1. IInv /\ [Next]_vars => [Final]_vars
  BY OutcomeKept
<1> QED BY <1>1, Invariance, PTL DEF Spec, OutcomeIsFinal

-----------------------------------------------------------------------------
(***************************************************************************)
(* What the log page and the file list show, and the dump files left over. *)
(***************************************************************************)

\* The rows of a request that was not repeated read "running" until its outcome is recorded,
\* and it has none if it was enqueued without a RunID.
LEMMA UnrecordedRuns ==
  ASSUME IInv, EntryInv, NEW i \in DOMAIN rows, pc[rows[i].job] \in Unrecorded \cup {"new"},
         rows[i].job \notin Repeated
  PROVE  rows[i].status = "running" /\ run[rows[i].job] = i
<1>1. rows[i].job \in Jobs /\ Original[rows[i].job] = rows[i].job
  BY JobKinds DEF IInv, TypeOK, Row
<1>2. i # 0 /\ run[rows[i].job] = i
  <2>1. i # 0 /\ rows[i].job \in entered /\ run[rows[i].job] \in {0, i}
    BY DEF EntryInv, IInv, TypeOK
  <2> QED BY <2>1 DEF EntryInv
<1>3. pc[rows[i].job] \in Unrecorded
  BY <1>1, <1>2 DEF IInv, RowsInv
<1> QED BY <1>1, <1>2, <1>3 DEF IInv, RowsInv

\* A row is inserted only for a request that never had one, or that was repeated.
LEMMA NextEntryInv == IInv /\ EntryInv /\ [Next]_vars => EntryInv'
<1> SUFFICES ASSUME IInv, EntryInv, [Next]_vars PROVE EntryInv'
    OBVIOUS
<1>0. /\ TypeOK /\ run \in [Jobs -> 0 .. lastId] /\ entered \subseteq Requests /\ pc \in [Jobs -> Steps]
      /\ \A i \in DOMAIN rows : rows[i].job \in Requests /\ rows[i].job \in Jobs
      /\ \A k \in Jobs : pc'[k] \in Unrecorded \cup {"new"} => pc[k] \in Unrecorded \cup {"new"}
  BY PcMoves, JobKinds DEF IInv, TypeOK, Row
<1>r. Repeated \subseteq Repeated' /\ \A i \in DOMAIN rows : rows[i].job \notin Copies
  BY <1>0, PcMoves, RepeatedGrows, JobKinds
<1>p. entered \subseteq Jobs /\ \A k \in entered : k \notin Copies
  BY <1>0, JobKinds
<1>c. ASSUME NEW c \in Copies, PushAgain(c), UNCHANGED <<rows, entered>> PROVE EntryInv'
  <2>1. \A k \in Jobs : k \notin Copies => run'[k] = run[k]
    BY <1>0, <1>c DEF PushAgain
  <2> QED BY <1>0, <1>r, <1>p, <1>c, <2>1 DEF EntryInv, OneRowPerRequest
<1>1. CASE UNCHANGED <<rows, run, entered>>
  BY <1>0, <1>r, <1>p, <1>1 DEF EntryInv, OneRowPerRequest
<1>2. CASE DeleteAllBackupRuns
  BY <1>0, <1>r, <1>p, <1>2 DEF EntryInv, OneRowPerRequest, DeleteAllBackupRuns, jobVars
<1>3. ASSUME NEW j \in Jobs, StartJob(j), UpdateBackupRunStarted(run[j]) PROVE EntryInv'
  <2>1. run' = run /\ entered' = entered
    BY <1>3 DEF StartJob
  <2> QED BY <1>0, <1>r, <1>p, <1>3, <2>1, StartEffect DEF EntryInv, OneRowPerRequest
<1>4. ASSUME NEW j \in Requests, CreateRun(j), CreateBackupRun(j, "running", "blank"),
             run' = [run EXCEPT ![j] = NextRunId]
      PROVE EntryInv'
  <2>0. j \in Jobs /\ Original[j] = j
    BY JobKinds
  <2>1. /\ DOMAIN rows' = DOMAIN rows \cup {lastId + 1} /\ lastId + 1 \notin DOMAIN rows
        /\ rows'[lastId + 1] = [job |-> Original[j], status |-> "running", startedAt |-> "blank"]
        /\ \A i \in DOMAIN rows : rows'[i] = rows[i]
    BY <1>0, <1>4, <2>0, InsertEffect
  <2>2. j \notin entered
    <3>1. pc[j] = "new" /\ run[j] = 0
      BY <1>4, <2>0 DEF CreateRun, IInv, RowsInv
    <3>2. j \notin Repeated
      BY <3>1 DEF Repeated, IInv, CopyInv
    <3> QED BY <3>1, <3>2 DEF EntryInv
  <2>3. \A i \in DOMAIN rows : rows[i].job # j
    BY <2>2 DEF EntryInv
  <2>4. run'[j] = lastId + 1 /\ lastId + 1 # 0 /\ \A k \in Jobs : k # j => run'[k] = run[k]
    BY <1>0, <1>4, <2>0 DEF NextRunId, TypeOK
  <2>5. entered' = entered \cup {j}
    BY <1>4, <2>0 DEF CreateBackupRun
  <2>6. OneRowPerRequest'
    BY <1>0, <1>r, <2>0, <2>1, <2>3, <2>4 DEF EntryInv, OneRowPerRequest
  <2>7. ASSUME NEW i \in DOMAIN rows' PROVE rows'[i].job \in entered' /\ run'[rows'[i].job] \in {0, i}
    BY <1>0, <2>0, <2>1, <2>3, <2>4, <2>5 DEF EntryInv
  <2>8. ASSUME NEW k \in entered', run'[k] = 0, k \notin Repeated' PROVE pc'[k] \notin Unrecorded \cup {"new"}
    BY <1>0, <1>r, <1>p, <2>4, <2>5, <2>8 DEF EntryInv
  <2> QED BY <2>6, <2>7, <2>8 DEF EntryInv
<1>5. ASSUME NEW j \in Jobs, Record(j), UNCHANGED entered, FinishBackupRun(run[j], res[j], StartedAt(j))
      PROVE EntryInv'
  <2>1. run' = run
    BY <1>5 DEF Record
  <2> QED BY <1>0, <1>r, <1>p, <1>5, <2>1, FinishEffect DEF EntryInv, OneRowPerRequest
<1>6. ASSUME NEW j \in Jobs, Record(j), run[j] = 0, CreateBackupRun(j, res[j], StartedAt(j))
      PROVE EntryInv'
  <2> DEFINE o == Original[j]
  <2>1. /\ DOMAIN rows' = DOMAIN rows \cup {lastId + 1} /\ lastId + 1 \notin DOMAIN rows
        /\ rows'[lastId + 1] = [job |-> o, status |-> res[j], startedAt |-> StartedAt(j)]
        /\ \A i \in DOMAIN rows : rows'[i] = rows[i]
    BY <1>0, <1>6, InsertEffect
  <2>2. /\ run' = run /\ entered' = entered \cup {o} /\ pc'[j] \in {"file", "notify"} /\ pc[j] = "record"
        /\ o \in Jobs
    BY <1>0, <1>6, JobKinds DEF Record, CreateBackupRun, Goto
  <2>3. run[o] = 0
    BY <1>6, <2>2, JobKinds DEF IInv, CopyInv
  <2>4. CASE o \in Repeated
    <3>1. OneRowPerRequest'
      BY <1>0, <1>r, <2>1, <2>2, <2>3, <2>4 DEF EntryInv, OneRowPerRequest
    <3>2. ASSUME NEW i \in DOMAIN rows' PROVE rows'[i].job \in entered' /\ run'[rows'[i].job] \in {0, i}
      BY <2>1, <2>2, <2>3 DEF EntryInv
    <3>3. ASSUME NEW k \in entered', run'[k] = 0, k \notin Repeated'
          PROVE pc'[k] \notin Unrecorded \cup {"new"}
      BY <1>0, <1>r, <1>p, <2>2, <2>4, <3>3 DEF EntryInv
    <3> QED BY <3>1, <3>2, <3>3 DEF EntryInv
  <2>5. CASE o \notin Repeated
    <3>1. o = j
      BY <2>2, <2>5, OnlyJob
    <3>2. j \notin entered
      BY <1>6, <2>2, <2>5, <3>1 DEF EntryInv, Unrecorded
    <3>3. \A i \in DOMAIN rows : rows[i].job # j
      BY <3>2 DEF EntryInv
    <3>4. OneRowPerRequest'
      BY <1>0, <1>r, <2>1, <2>2, <3>1, <3>3 DEF EntryInv, OneRowPerRequest
    <3>5. ASSUME NEW i \in DOMAIN rows' PROVE rows'[i].job \in entered' /\ run'[rows'[i].job] \in {0, i}
      BY <2>1, <2>2, <2>3 DEF EntryInv
    <3>6. ASSUME NEW k \in entered', run'[k] = 0, k \notin Repeated'
          PROVE pc'[k] \notin Unrecorded \cup {"new"}
      BY <1>0, <1>r, <1>p, <2>2, <3>1, <3>6 DEF EntryInv, Unrecorded
    <3> QED BY <3>4, <3>5, <3>6 DEF EntryInv
  <2> QED BY <2>4, <2>5
<1> QED BY <1>c, <1>1, <1>2, <1>3, <1>4, <1>5, <1>6, RowChanges

\* What a request holds follows from where it is: each handler sets its result, notice and
\* place together.
LEMMA NextStageInv == IInv /\ StageInv /\ [Next]_vars => StageInv'
<1> SUFFICES ASSUME IInv, StageInv, [Next]_vars PROVE StageInv'
    OBVIOUS
<1> USE DEF StageInv, Goto, Return
<1>0. /\ pc \in [Jobs -> Steps]
      /\ res \in [Jobs -> {"none", "success", "error"}]
      /\ notice \in [Jobs -> {"none", "success", "error"}]
      /\ queue \in Seq(Jobs) /\ QueueInv
  BY DEF IInv, TypeOK
<1>1. ASSUME NEW j \in Requests, Produce(j) PROVE StageInv'
  BY <1>0, <1>1, JobKinds DEF Produce, CreateRun, Push, PushFails, ProducerDies, ReadyToPush, worldVars, Local
<1>c. ASSUME NEW c \in Copies, PushAgain(c) PROVE StageInv'
  BY <1>0, <1>c, JobKinds DEF PushAgain, worldVars, Local
<1>2. ASSUME NEW j \in Jobs, ProcessJob(j) PROVE StageInv'
  <2>1. CASE StartJob(j)
    BY <1>0, <2>1 DEF StartJob, worldVars, Local
  <2>2. CASE Dump(j) \/ ResolveTarget(j) \/ Upload(j)
    BY <1>0, <2>2 DEF Dump, ResolveTarget, Upload, worldVars, Local
  <2>3. CASE Dispatch(j) \/ Poll(j) \/ PollGivesUp(j)
    BY <1>0, <2>3 DEF Dispatch, Poll, PollGivesUp, worldVars, Local
  <2>4. CASE ResolveDatabase(j) \/ Record(j) \/ RecordFile(j)
    BY <1>0, <2>4 DEF ResolveDatabase, Record, RecordFile, worldVars, Local
  <2>5. CASE Notify(j)
    BY <1>0, <2>5 DEF Notify, Notified, Local
  <2> QED BY <1>2, <2>1, <2>2, <2>3, <2>4, <2>5 DEF ProcessJob
<1>3. ASSUME NEW j \in Jobs, AgentRuns(j) \/ AgentForgets(j) PROVE StageInv'
  BY <1>0, <1>3 DEF AgentRuns, AgentForgets, jobVars, Local
<1>4. CASE Pop \/ PopReplyLost
  <2>1. queue # <<>>
    BY <1>4 DEF Pop, PopReplyLost
  <2>2. Head(queue) = queue[1] /\ 1 \in 1 .. Len(queue)
    BY <1>0, <2>1
  <2>3. pc[Head(queue)] = "queued"
    BY <1>0, <2>2 DEF QueueInv
  <2>4. \A k \in Jobs : pc'[k] = pc[k] \/ (k = Head(queue) /\ pc'[k] \in {"popped", "lost"})
    BY <1>0, <1>4 DEF Pop, PopReplyLost
  <2>5. res' = res /\ notice' = notice
    BY <1>4 DEF Pop, PopReplyLost, worldVars
  <2> QED BY <2>3, <2>4, <2>5 DEF Local
<1>5. CASE LoopTest \/ PopNothing \/ Close \/ Start \/ DeleteAllBackupRuns \/ Sigterm \/ UNCHANGED vars
  BY <1>5 DEF LoopTest, PopNothing, Close, Start, DeleteAllBackupRuns, Sigterm, vars, jobVars,
              worldVars, Local
<1>6. CASE Crash
  BY <1>0, <1>6 DEF Crash, Active, Working, LocalSteps, worldVars, Local
<1> QED BY <1>1, <1>c, <1>2, <1>3, <1>4, <1>5, <1>6 DEF Next, MainLoop

\* backup_files only gains the request whose recordBackupFile runs.
LEMMA FileChanges ==
  ASSUME [Next]_vars
  PROVE  files' = files \/ \E j \in Jobs : RecordFile(j) /\ files' = files \cup {j}
<1>1. ASSUME NEW j \in Jobs, ProcessJob(j) PROVE files' = files \/ RecordFile(j)
  BY <1>1 DEF ProcessJob, StartJob, Dump, ResolveTarget, Upload, Dispatch, Poll, PollGivesUp,
       ResolveDatabase, Record, Notify, registryVars
<1>2. ASSUME NEW j \in Jobs, Produce(j) \/ PushAgain(j) \/ AgentRuns(j) \/ AgentForgets(j)
      PROVE files' = files
  BY <1>2 DEF Produce, CreateRun, Push, PushFails, ProducerDies, PushAgain, AgentRuns, AgentForgets,
       registryVars
<1>3. CASE MainLoop \/ DeleteAllBackupRuns \/ Sigterm \/ Crash \/ UNCHANGED vars
  BY <1>3 DEF MainLoop, Pop, PopReplyLost, LoopTest, PopNothing, Close, Start, DeleteAllBackupRuns,
       Sigterm, Crash, vars, registryVars
<1>4. ASSUME NEW j \in Jobs, RecordFile(j) PROVE files' = files \/ files' = files \cup {j}
  BY <1>4 DEF RecordFile
<1> QED BY <1>1, <1>2, <1>3, <1>4, JobKinds DEF Next

\* The rows that come to read "error" or "success" in a step: the row of the request
\* whose job is recording just that outcome.
LEMMA OutcomeWritten ==
  ASSUME IInv, [Next]_vars, NEW i \in DOMAIN rows', rows'[i].status # "running"
  PROVE  \/ i \in DOMAIN rows /\ rows'[i].status = rows[i].status /\ rows'[i].job = rows[i].job
         \/ \E j \in Jobs : Record(j) /\ rows'[i].job = Original[j] /\ rows'[i].status = res[j]
<1>0. TypeOK /\ RunIdIsOwn
  BY DEF IInv, RowsInv
<1>1. CASE UNCHANGED rows \/ DeleteAllBackupRuns
  BY <1>1 DEF DeleteAllBackupRuns
<1>2. CASE \E j \in Jobs : UpdateBackupRunStarted(run[j])
  BY <1>0, <1>2, StartEffect
<1>3. CASE \E j \in Jobs : CreateBackupRun(j, "running", "blank")
  <2>1. PICK j \in Jobs : CreateBackupRun(j, "running", "blank")
    BY <1>3
  <2>2. /\ DOMAIN rows' = DOMAIN rows \cup {lastId + 1}
        /\ rows'[lastId + 1] = [job |-> Original[j], status |-> "running", startedAt |-> "blank"]
        /\ \A k \in DOMAIN rows : rows'[k] = rows[k]
    BY <1>0, <2>1, InsertEffect
  <2> QED BY <2>2
<1>4. ASSUME NEW j \in Jobs, Record(j), FinishBackupRun(run[j], res[j], StartedAt(j))
      PROVE \/ i \in DOMAIN rows /\ rows'[i].status = rows[i].status /\ rows'[i].job = rows[i].job
            \/ Record(j) /\ rows'[i].job = Original[j] /\ rows'[i].status = res[j]
  BY <1>0, <1>4, FinishEffect DEF RunIdIsOwn
<1>5. ASSUME NEW j \in Jobs, Record(j), CreateBackupRun(j, res[j], StartedAt(j))
      PROVE \/ i \in DOMAIN rows /\ rows'[i].status = rows[i].status /\ rows'[i].job = rows[i].job
            \/ Record(j) /\ rows'[i].job = Original[j] /\ rows'[i].status = res[j]
  <2>1. /\ DOMAIN rows' = DOMAIN rows \cup {lastId + 1}
        /\ rows'[lastId + 1] = [job |-> Original[j], status |-> res[j], startedAt |-> StartedAt(j)]
        /\ \A k \in DOMAIN rows : rows'[k] = rows[k]
    BY <1>0, <1>5, InsertEffect
  <2> QED BY <1>5, <2>1
<1>6. Requests \subseteq Jobs
  BY JobKinds
<1> QED BY <1>1, <1>2, <1>3, <1>4, <1>5, <1>6, RowChanges

\* A file is listed after its request is recorded, and never for one recorded as failed.
LEMMA NextFilesInv == IInv /\ EntryInv /\ StageInv /\ FilesInv /\ [Next]_vars => FilesInv'
<1> SUFFICES ASSUME IInv, EntryInv, StageInv, FilesInv, [Next]_vars PROVE FilesInv'
    OBVIOUS
<1>0. /\ stored \subseteq stored' /\ ResultInv /\ pc \in [Jobs -> Steps] /\ files \subseteq Jobs
      /\ \A i \in DOMAIN rows : rows[i].job \in Jobs
  BY NextResultInv, JobKinds DEF IInv, TypeOK, Row
<1>r. Repeated \subseteq Repeated'
  BY PcMoves, RepeatedGrows
<1>1. ASSUME NEW j \in Jobs, RecordFile(j), files' = files \cup {j}
      PROVE pc[j] = "file" /\ pc'[j] = "notify" /\ j \in stored
  BY <1>0, <1>1 DEF RecordFile, Goto, StageInv, ResultInv
<1>2. files' \subseteq stored'
  BY <1>0, <1>1, FileChanges DEF FilesInv
<1>3. ASSUME NEW j \in files' PROVE pc'[j] \in {"notify", "done", "lost"}
  <2>1. CASE j \in files
    BY <1>0, <2>1, PcMoves DEF FilesInv
  <2>2. CASE j \notin files
    BY <1>1, <1>3, <2>2, FileChanges
  <2> QED BY <2>1, <2>2
<1>4. ASSUME NEW i \in DOMAIN rows', rows'[i].status = "error", rows'[i].job \notin Repeated'
      PROVE rows'[i].job \notin files' /\ pc'[rows'[i].job] # "file"
  <2>1. CASE i \in DOMAIN rows /\ rows[i].status = "error" /\ rows'[i].job = rows[i].job
    <3> DEFINE j == rows[i].job
    <3>1. j \in Jobs /\ j \notin Repeated /\ j \notin files /\ pc[j] # "file"
      BY <1>0, <1>r, <1>4, <2>1 DEF FilesInv
    <3>2. j \notin files'
      BY <1>1, <3>1, FileChanges
    <3>3. ~(Record(j) /\ res[j] = "success")
      <4>1. pc[j] \notin Unrecorded
        BY <2>1, <3>1, UnrecordedRuns
      <4> QED BY <4>1 DEF Record, Unrecorded
    <3>4. pc'[j] # "file"
      BY <3>1, <3>3, PcMoves
    <3> QED BY <2>1, <3>2, <3>4
  <2>2. ASSUME NEW j \in Jobs, Record(j), rows'[i].job = Original[j], res[j] = "error"
        PROVE rows'[i].job \notin files' /\ pc'[rows'[i].job] # "file"
    <3>1. pc[j] = "record" /\ pc'[j] = "notify" /\ files' = files
      BY <1>0, <2>2 DEF Record, Goto
    <3>2. Original[j] = j
      BY <1>r, <1>4, <2>2, <3>1, OnlyJob
    <3> QED BY <2>2, <3>1, <3>2 DEF FilesInv
  <2> QED BY <1>4, <2>1, <2>2, OutcomeWritten
<1> QED BY <1>2, <1>3, <1>4 DEF FilesInv

\* TmpDir gains a file only while its job is dumped.
LEMMA TmpChanges ==
  ASSUME "remove" \notin Faults, IInv, [Next]_vars, NEW k \in tmp'
  PROVE  (k \in tmp /\ ~(Upload(k) /\ res'[k] = "success")) \/ (k \in Jobs /\ Dump(k))
<1>0. res \in [Jobs -> {"none", "success", "error"}] /\ tmp \subseteq Jobs
  BY DEF IInv, TypeOK
<1>1. ASSUME Upload(k), k \in Jobs, res'[k] = "success" PROVE k \notin tmp'
  BY <1>0, <1>1 DEF Upload, Return
<1>2. ASSUME NEW j \in Jobs, ProcessJob(j) PROVE k \in tmp \/ (k \in Jobs /\ Dump(k))
  <2>1. CASE Dump(j)
    BY <2>1 DEF Dump, PartialDump
  <2>2. CASE Upload(j)
    BY <2>2 DEF Upload
  <2>3. CASE tmp' = tmp
    BY <2>3
  <2> QED BY <1>2, <2>1, <2>2, <2>3 DEF ProcessJob, StartJob, ResolveTarget, Dispatch, Poll,
        PollGivesUp, ResolveDatabase, Record, RecordFile, Notify
<1>3. ASSUME NEW j \in Jobs, Produce(j) \/ PushAgain(j) \/ AgentRuns(j) \/ AgentForgets(j)
      PROVE k \in tmp
  BY <1>3 DEF Produce, CreateRun, Push, PushFails, ProducerDies, PushAgain, AgentRuns, AgentForgets,
       jobVars
<1>4. ASSUME MainLoop \/ DeleteAllBackupRuns \/ Sigterm \/ Crash \/ UNCHANGED vars PROVE k \in tmp
  BY <1>4 DEF MainLoop, Pop, PopReplyLost, LoopTest, PopNothing, Close, Start, DeleteAllBackupRuns,
       Sigterm, Crash, vars, jobVars
<1>5. k \in tmp \/ (k \in Jobs /\ Dump(k))
  BY <1>2, <1>3, <1>4, JobKinds DEF Next
<1> QED BY <1>0, <1>1, <1>5

\* A result becomes a success by a local upload or an agent's report, and a notice says
\* what the result was.
LEMMA ResultChanges ==
  ASSUME IInv, [Next]_vars, NEW k \in Jobs
  PROVE  /\ res'[k] = "success" => res[k] = "success" \/ Upload(k) \/ Poll(k)
         /\ notice'[k] = "success" => notice[k] = "success" \/ res[k] = "success"
<1> DEFINE Changes == /\ res'[k] = "success" => res[k] = "success" \/ Upload(k) \/ Poll(k)
                      /\ notice'[k] = "success" => notice[k] = "success" \/ res[k] = "success"
<1>0. /\ res \in [Jobs -> {"none", "success", "error"}]
      /\ notice \in [Jobs -> {"none", "success", "error"}]
  BY DEF IInv, TypeOK
<1>1. ASSUME NEW j \in Jobs, ProcessJob(j) PROVE Changes
  <2>1. CASE Dump(j) \/ ResolveTarget(j) \/ Dispatch(j) \/ PollGivesUp(j)
    BY <1>0, <2>1 DEF Dump, ResolveTarget, Dispatch, PollGivesUp, Return, worldVars
  <2>2. CASE Upload(j) \/ Poll(j)
    BY <1>0, <2>2 DEF Upload, Poll, Return, worldVars
  <2>3. CASE StartJob(j) \/ ResolveDatabase(j) \/ Record(j) \/ RecordFile(j)
    BY <2>3 DEF StartJob, ResolveDatabase, Record, RecordFile, worldVars
  <2>4. CASE Notify(j)
    BY <1>0, <2>4 DEF Notify, Notified
  <2> QED BY <1>1, <2>1, <2>2, <2>3, <2>4 DEF ProcessJob
<1>2. ASSUME NEW j \in Jobs, Produce(j) \/ PushAgain(j) \/ AgentRuns(j) \/ AgentForgets(j)
      PROVE Changes
  BY <1>2 DEF Produce, CreateRun, Push, PushFails, ProducerDies, PushAgain, AgentRuns, AgentForgets,
       jobVars, worldVars
<1>3. ASSUME MainLoop \/ DeleteAllBackupRuns \/ Sigterm \/ Crash \/ UNCHANGED vars PROVE Changes
  BY <1>3 DEF MainLoop, Pop, PopReplyLost, LoopTest, PopNothing, Close, Start, DeleteAllBackupRuns,
       Sigterm, Crash, vars, jobVars, worldVars
<1> HIDE DEF Changes
<1>4. Requests \subseteq Jobs /\ Copies \subseteq Jobs
  BY JobKinds
<1>5. Changes
  BY <1>1, <1>2, <1>3, <1>4 DEF Next
<1> QED BY <1>5 DEF Changes

\* While os.Remove works, a dump file is removed in the step that turns its job's result
\* into a success.
LEMMA NextTmpInv ==
  ASSUME "remove" \notin Faults
  PROVE  IInv /\ EntryInv /\ StageInv /\ TmpInv /\ [Next]_vars => TmpInv'
<1> SUFFICES ASSUME IInv, EntryInv, StageInv, TmpInv, [Next]_vars, NEW k \in tmp'
             PROVE  /\ Local(k) /\ res'[k] # "success" /\ pc'[k] # "new" /\ notice'[k] # "success"
                    /\ \A i \in DOMAIN rows' :
                         rows'[i].job = Original[k] =>
                           rows'[i].status # "success" \/ Original[k] \in Repeated'
    BY DEF TmpInv, OnlyFailuresLeaveFiles, Local
<1>0. pc \in [Jobs -> Steps] /\ tmp \subseteq Jobs
  BY DEF IInv, TypeOK
<1>r. Repeated \subseteq Repeated'
  BY PcMoves, RepeatedGrows
<1>1. /\ k \in Jobs /\ Local(k) /\ res[k] # "success" /\ pc[k] # "new" /\ notice[k] # "success"
      /\ \A i \in DOMAIN rows :
           rows[i].job = Original[k] => rows[i].status # "success" \/ Original[k] \in Repeated
  <2>1. CASE k \in tmp
    BY <1>0, <2>1 DEF TmpInv, OnlyFailuresLeaveFiles
  <2>2. CASE k \in Jobs /\ Dump(k)
    <3>1. pc[k] = "dump" /\ pc[k] \in Unrecorded
      BY <2>2 DEF Dump, Unrecorded
    <3>2. ASSUME NEW i \in DOMAIN rows, rows[i].job = Original[k], Original[k] \notin Repeated
          PROVE rows[i].status # "success"
      <4>1. Original[k] = k
        BY <2>2, <3>1, <3>2, OnlyJob
      <4> QED BY <3>1, <3>2, <4>1, UnrecordedRuns
    <3> QED BY <2>2, <3>1, <3>2 DEF StageInv
  <2> QED BY <2>1, <2>2, TmpChanges
<1>2. res'[k] # "success"
  <2>1. ~Poll(k)
    BY <1>1 DEF Poll, StageInv
  <2>2. Upload(k) => res'[k] # "success"
    <3>1. Upload(k) => ~Dump(k)
      BY DEF Upload, Dump
    <3> QED BY <3>1, TmpChanges
  <2> QED BY <1>1, <2>1, <2>2, ResultChanges
<1>3. notice'[k] # "success" /\ pc'[k] # "new"
  BY <1>1, ResultChanges, PcMoves
<1>4. ASSUME NEW i \in DOMAIN rows', rows'[i].job = Original[k], Original[k] \notin Repeated'
      PROVE rows'[i].status # "success"
  <2>1. Original[k] = k /\ k \notin Repeated
    BY <1>r, <1>1, <1>4, OnlyJob
  <2>2. ASSUME NEW j \in Jobs, Record(j), rows'[i].job = Original[j] PROVE j = k
    <3>1. pc[j] # "new" /\ Original[j] = k
      BY <1>4, <2>1, <2>2 DEF Record
    <3> QED BY <2>1, <3>1, OnlyJob
  <2> QED BY <1>1, <1>4, <2>1, <2>2, OutcomeWritten
<1> QED BY <1>1, <1>2, <1>3, <1>4

\* A start time reaches an agent's row only from a report of that agent: the dispatch marks
\* local rows alone, and the outcome carries a blank when the agent was not heard.
LEMMA NextStartTime == IInv /\ StartTimeIsReported /\ [Next]_vars => StartTimeIsReported'
<1> SUFFICES ASSUME IInv, StartTimeIsReported, [Next]_vars PROVE StartTimeIsReported'
    OBVIOUS
<1>0. TypeOK /\ RunIdIsOwn /\ \A i \in DOMAIN rows : rows[i] \in Row
  BY DEF IInv, RowsInv, TypeOK
<1>1. heard \subseteq heard'
  <2>1. ASSUME NEW j \in Jobs, ProcessJob(j) PROVE heard \subseteq heard'
    BY <2>1 DEF ProcessJob, StartJob, Dump, ResolveTarget, Upload, Dispatch, Poll, PollGivesUp,
         ResolveDatabase, Record, RecordFile, Notify
  <2>2. ASSUME NEW j \in Jobs, Produce(j) \/ PushAgain(j) \/ AgentRuns(j) \/ AgentForgets(j)
        PROVE heard' = heard
    BY <2>2 DEF Produce, CreateRun, Push, PushFails, ProducerDies, PushAgain, AgentRuns, AgentForgets,
         jobVars
  <2>3. CASE MainLoop \/ DeleteAllBackupRuns \/ Sigterm \/ Crash \/ UNCHANGED vars
    BY <2>3 DEF MainLoop, Pop, PopReplyLost, LoopTest, PopNothing, Close, Start, DeleteAllBackupRuns,
         Sigterm, Crash, vars, jobVars
  <2> QED BY <2>1, <2>2, <2>3, JobKinds DEF Next
<1>k. \A j \in Jobs : Local(j) <=> Original[j] \notin RemoteJobs
  BY JobKinds DEF Local
<1>2. CASE UNCHANGED rows \/ DeleteAllBackupRuns
  BY <1>1, <1>2 DEF DeleteAllBackupRuns, StartTimeIsReported
<1>3. ASSUME NEW j \in Jobs, StartJob(j), UpdateBackupRunStarted(run[j]) PROVE StartTimeIsReported'
  <2>1. DOMAIN rows' = DOMAIN rows /\ \A i \in DOMAIN rows : i # run[j] => rows'[i] = rows[i]
    BY <1>3 DEF UpdateBackupRunStarted
  <2>2. CASE UNCHANGED rows
    BY <1>1, <2>2 DEF StartTimeIsReported
  <2>3. CASE Local(j)
    <3>1. run[j] \in DOMAIN rows => rows'[run[j]].job \notin RemoteJobs
      BY <1>0, <1>k, <1>3, <2>3, StartEffect DEF RunIdIsOwn
    <3> QED BY <1>1, <2>1, <3>1 DEF StartTimeIsReported
  <2> QED BY <1>3, <2>2, <2>3 DEF StartJob, MarksStart
<1>4. ASSUME NEW j \in Jobs, NEW status, NEW startedAt, CreateBackupRun(j, status, startedAt),
             startedAt = "blank" \/ Local(j) \/ j \in heard
      PROVE StartTimeIsReported'
  <2>1. /\ DOMAIN rows' = DOMAIN rows \cup {lastId + 1}
        /\ rows'[lastId + 1] = [job |-> Original[j], status |-> status, startedAt |-> startedAt]
        /\ \A i \in DOMAIN rows : rows'[i] = rows[i]
    BY <1>0, <1>4, InsertEffect
  <2> QED BY <1>1, <1>k, <1>4, <2>1 DEF StartTimeIsReported
<1>5. ASSUME NEW j \in Jobs, FinishBackupRun(run[j], res[j], StartedAt(j)) PROVE StartTimeIsReported'
  <2>1. /\ DOMAIN rows' = DOMAIN rows
        /\ \A i \in DOMAIN rows : rows'[i].job = rows[i].job
        /\ \A i \in DOMAIN rows : i # run[j] => rows'[i] = rows[i]
    BY <1>0, <1>5, FinishEffect
  <2>2. StartedAt(j) = "blank" \/ Local(j) \/ j \in heard
    BY DEF StartedAt
  <2>3. ASSUME run[j] \in DOMAIN rows, StartedAt(j) = "blank"
        PROVE rows'[run[j]].startedAt = rows[run[j]].startedAt
    BY <1>0, <1>5, <2>3 DEF FinishBackupRun, Row
  <2>4. run[j] \in DOMAIN rows => rows[run[j]].job = Original[j]
    BY <1>0 DEF RunIdIsOwn
  <2> QED BY <1>1, <1>k, <2>1, <2>2, <2>3, <2>4 DEF StartTimeIsReported
<1>6. \A j \in Jobs : StartedAt(j) = "blank" \/ Local(j) \/ j \in heard
  BY DEF StartedAt
<1>7. Requests \subseteq Jobs
  BY JobKinds
<1> QED BY <1>2, <1>3, <1>4, <1>5, <1>6, <1>7, RowChanges

\* The invariant behind the log page and the file list.
LogInv == IInv /\ EntryInv /\ StageInv /\ FilesInv /\ StartTimeIsReported

\* An empty log satisfies it, and every step keeps it.
THEOREM LogInvariance == Spec => []LogInv
<1>1. Init => LogInv
  <2> SUFFICES ASSUME Init PROVE LogInv
      OBVIOUS
  <2>1. DOMAIN rows = {} /\ IInv
    BY InitIInv DEF Init
  <2>2. EntryInv /\ StartTimeIsReported
    BY <2>1 DEF Init, EntryInv, OneRowPerRequest, StartTimeIsReported
  <2>3. StageInv
    BY DEF Init, StageInv
  <2>4. FilesInv
    BY <2>1 DEF Init, FilesInv
  <2> QED BY <2>1, <2>2, <2>3, <2>4 DEF LogInv
<1>2. LogInv /\ [Next]_vars => LogInv'
  BY NextIInv, NextEntryInv, NextStageInv, NextFilesInv, NextStartTime DEF LogInv
<1> QED BY <1>1, <1>2, PTL DEF Spec

\* A request never has two rows, although its row is written by the producer and its
\* outcome by the consumer, and either write may fail: an outcome with a RunID updates that
\* row, or nothing once the log was cleared.  Only a request that has no RunID and whose
\* push was retried gets a row for each of its jobs.
THEOREM OneRow == Spec => []OneRowPerRequest
BY LogInvariance, PTL DEF LogInv, EntryInv

\* A file in the file list is stored, and the log never calls its request failed, unless
\* that request was backed up twice.
THEOREM FileListIsTrue == Spec => []FileListAgreesWithLog
<1>1. LogInv => FileListAgreesWithLog
  <2> SUFFICES ASSUME LogInv, NEW j \in files
               PROVE  /\ j \in stored
                      /\ \A i \in DOMAIN rows :
                           rows[i].job = Original[j] =>
                             rows[i].status # "error" \/ Original[j] \in Repeated
      BY DEF FileListAgreesWithLog
  <2>1. j \in Jobs /\ j \in stored /\ pc[j] # "new"
    BY DEF LogInv, IInv, TypeOK, FilesInv
  <2>2. Original[j] \notin Repeated => Original[j] = j
    BY <2>1, OnlyJob
  <2> QED BY <2>1, <2>2 DEF LogInv, FilesInv
<1> QED BY <1>1, LogInvariance, PTL

\* The start time of an agent's job is the agent's.
THEOREM StartTimesAreReported == Spec => []StartTimeIsReported
BY LogInvariance, PTL DEF LogInv

\* As long as os.Remove works, a dump file left in TmpDir is never one of a job reported as
\* a success.
THEOREM LeftoversAreFailures ==
  ASSUME "remove" \notin Faults
  PROVE  Spec => []OnlyFailuresLeaveFiles
<1>1. Init => TmpInv
  BY DEF Init, TmpInv, OnlyFailuresLeaveFiles
<1>2. LogInv /\ TmpInv /\ [Next]_vars => TmpInv'
  BY NextTmpInv DEF LogInv
<1>3. TmpInv => OnlyFailuresLeaveFiles
  BY DEF TmpInv
<1> QED BY <1>1, <1>2, <1>3, LogInvariance, PTL DEF Spec

\* While no signal arrives and no statement fails, the context is never cancelled and the
\* rows of the requests past recordBackupRun are settled.
LEMMA NextRecordedInv ==
  ASSUME Faults \cap {"registry", "sigterm"} = {}
  PROVE  IInv /\ RecordedInv /\ [Next]_vars => RecordedInv'
<1> SUFFICES ASSUME IInv, RecordedInv, [Next]_vars PROVE RecordedInv'
    OBVIOUS
<1>0. /\ TypeOK /\ run \in [Jobs -> 0 .. lastId] /\ pc \in [Jobs -> Steps] /\ lastId \in Nat
      /\ DOMAIN rows \subseteq 1 .. lastId
  BY DEF IInv, TypeOK
<1>1. ~cancelled'
  <2>1. ~Sigterm
    BY DEF Sigterm
  <2>2. ASSUME NEW j \in Jobs, ProcessJob(j) PROVE cancelled' = cancelled
    BY <2>2 DEF ProcessJob, StartJob, Dump, ResolveTarget, Upload, Dispatch, Poll, PollGivesUp,
         ResolveDatabase, Record, RecordFile, Notify, consumerVars
  <2>3. ASSUME NEW j \in Jobs, Produce(j) \/ PushAgain(j) \/ AgentRuns(j) \/ AgentForgets(j)
        PROVE  cancelled' = cancelled
    BY <2>3 DEF Produce, CreateRun, Push, PushFails, ProducerDies, PushAgain, AgentRuns, AgentForgets,
         consumerVars
  <2>4. CASE MainLoop \/ DeleteAllBackupRuns \/ Crash \/ UNCHANGED vars
    BY <2>4 DEF RecordedInv, MainLoop, Pop, PopReplyLost, LoopTest, PopNothing, Close, Start,
         DeleteAllBackupRuns, Crash, vars, consumerVars
  <2> QED BY <2>1, <2>2, <2>3, <2>4, JobKinds DEF Next, RecordedInv
<1>2. ASSUME NEW k \in Jobs, pc'[k] \in {"file", "notify", "done"}, run'[k] \in DOMAIN rows'
      PROVE rows'[run'[k]].status # "running"
  <2>1. run'[k] = run[k]
    <3>1. ASSUME NEW j \in Jobs, CreateRun(j), run' = [run EXCEPT ![j] = NextRunId]
          PROVE run'[k] = run[k]
      BY <1>0, <1>2, <3>1 DEF CreateRun, Goto
    <3>2. CASE UNCHANGED run
      BY <3>2
    <3>3. ASSUME NEW c \in Copies, PushAgain(c) PROVE run'[k] = run[k]
      BY <1>0, <1>2, <3>3, JobKinds DEF PushAgain, Goto
    <3>4. Requests \subseteq Jobs
      BY JobKinds
    <3> QED BY <3>1, <3>2, <3>3, <3>4, RowChanges DEF DeleteAllBackupRuns, StartJob, Record, jobVars
  <2>2. run[k] \in DOMAIN rows
    <3>1. ASSUME NEW j \in Jobs, NEW status, NEW startedAt, CreateBackupRun(j, status, startedAt)
          PROVE run[k] \in DOMAIN rows
      BY <1>0, <1>2, <2>1, <3>1, InsertEffect
    <3>2. CASE UNCHANGED rows \/ DeleteAllBackupRuns
      BY <1>2, <2>1, <3>2 DEF DeleteAllBackupRuns
    <3>3. ASSUME NEW id, UpdateBackupRunStarted(id) PROVE run[k] \in DOMAIN rows
      BY <1>0, <1>2, <2>1, <3>3, StartEffect
    <3>4. ASSUME NEW id, NEW status, NEW startedAt, FinishBackupRun(id, status, startedAt)
          PROVE run[k] \in DOMAIN rows
      BY <1>0, <1>2, <2>1, <3>4, FinishEffect
    <3>5. Requests \subseteq Jobs
      BY JobKinds
    <3> QED BY <3>1, <3>2, <3>3, <3>4, <3>5, RowChanges
  <2>3. CASE pc[k] \in {"file", "notify", "done"}
    BY <1>2, <2>1, <2>2, <2>3, OutcomeKept DEF RecordedInv
  <2>4. CASE Record(k)
    <3>1. ~StatementFails /\ run[k] # 0
      BY <1>0, <2>2 DEF StatementFails, RecordedInv
    <3>2. FinishBackupRun(run[k], res[k], StartedAt(k))
      BY <2>4, <3>1 DEF Record, RecordBackupRun
    <3>3. res[k] # "running"
      BY DEF IInv, TypeOK
    <3> QED BY <1>0, <2>1, <2>2, <3>2, <3>3, FinishEffect
  <2> QED BY <1>2, <2>3, <2>4, PcMoves
<1> QED BY <1>1, <1>2 DEF RecordedInv

\* Without a signal or a registry failure, and whatever agents, Redis and crashes do,
\* processJob never returns with its request's row still at "running".
THEOREM ReturnsAreRecorded ==
  ASSUME Faults \cap {"registry", "sigterm"} = {}
  PROVE  Spec => []ReturnedIsRecorded
<1>1. Init => RecordedInv
  BY DEF Init, RecordedInv
<1>2. IInv /\ RecordedInv /\ [Next]_vars => RecordedInv'
  BY NextRecordedInv
<1>3. RecordedInv => ReturnedIsRecorded
  BY DEF RecordedInv, ReturnedIsRecorded
<1> QED BY <1>1, <1>2, <1>3, Invariance, PTL DEF Spec

-----------------------------------------------------------------------------
(***************************************************************************)
(* The refinement.  LogView is the function of the rows that the log page  *)
(* shows: of each request in the table, the statuses of its rows.          *)
(***************************************************************************)

Entries(r, j) == {r[i].status : i \in {i \in DOMAIN r : r[i].job = j}}

StatusView(r) == [j \in {r[i].job : i \in DOMAIN r} |-> Entries(r, j)]

\* A view with the entry of j written: what RunLedger calls Write.
WithEntry(view, j, statuses) ==
  [k \in DOMAIN view \cup {j} |-> IF k = j THEN statuses ELSE view[k]]

\* Two tables with the same rows, start times apart, are shown alike.
LEMMA ViewSame ==
  ASSUME NEW r, NEW s, DOMAIN s = DOMAIN r,
         \A i \in DOMAIN r : s[i].job = r[i].job /\ s[i].status = r[i].status
  PROVE  StatusView(s) = StatusView(r)
<1>1. {s[i].job : i \in DOMAIN s} = {r[i].job : i \in DOMAIN r}
  OBVIOUS
<1>2. ASSUME NEW j PROVE Entries(s, j) = Entries(r, j)
  BY DEF Entries
<1> QED BY <1>1, <1>2 DEF StatusView

\* The view changes as the entries of its requests do.
LEMMA ViewWrite ==
  ASSUME NEW r, NEW s, NEW j, NEW statuses,
         {s[i].job : i \in DOMAIN s} = {r[i].job : i \in DOMAIN r} \cup {j},
         Entries(s, j) = statuses,
         \A k \in {r[i].job : i \in DOMAIN r} : k # j => Entries(s, k) = Entries(r, k)
  PROVE  StatusView(s) = WithEntry(StatusView(r), j, statuses)
<1> DEFINE D == {r[i].job : i \in DOMAIN r}
           E == {s[i].job : i \in DOMAIN s}
<1>1. E = D \cup {j} /\ \A k \in D : k # j => Entries(s, k) = Entries(r, k)
  OBVIOUS
<1>2. StatusView(s) = [k \in E |-> Entries(s, k)] /\ StatusView(r) = [k \in D |-> Entries(r, k)]
  BY DEF StatusView
<1> HIDE DEF D, E
<1>3. DOMAIN StatusView(r) = D /\ \A k \in D : StatusView(r)[k] = Entries(r, k)
  BY <1>2
<1> QED BY <1>1, <1>2, <1>3 DEF WithEntry

\* Inserting a row for j adds its status to the entry of j alone.
LEMMA ViewInsert ==
  ASSUME NEW r, NEW s, NEW id, id \notin DOMAIN r, NEW j, NEW status,
         DOMAIN s = DOMAIN r \cup {id}, s[id].job = j, s[id].status = status,
         \A i \in DOMAIN r : s[i] = r[i]
  PROVE  StatusView(s) = WithEntry(StatusView(r), j, {status} \cup Entries(r, j))
<1>1. {s[i].job : i \in DOMAIN s} = {r[i].job : i \in DOMAIN r} \cup {j}
  OBVIOUS
<1> DEFINE both == {status} \cup Entries(r, j)
<1>2. Entries(s, j) = both
  BY DEF Entries
<1>3. \A k \in {r[i].job : i \in DOMAIN r} : k # j => Entries(s, k) = Entries(r, k)
  BY DEF Entries
<1> HIDE DEF both
<1>4. StatusView(s) = WithEntry(StatusView(r), j, both)
  BY <1>1, <1>2, <1>3, ViewWrite
<1> QED BY <1>4 DEF both

\* Setting the status of the only row of j makes it the entry of j.
LEMMA ViewUpdate ==
  ASSUME NEW r, NEW s, NEW id \in DOMAIN r, NEW j, NEW status,
         DOMAIN s = DOMAIN r, r[id].job = j, s[id].job = j, s[id].status = status,
         \A i \in DOMAIN r : i # id => s[i] = r[i] /\ r[i].job # j
  PROVE  StatusView(s) = WithEntry(StatusView(r), j, {status})
<1>1. {s[i].job : i \in DOMAIN s} = {r[i].job : i \in DOMAIN r} \cup {j}
  OBVIOUS
<1>2. Entries(s, j) = {status}
  BY DEF Entries
<1>3. ASSUME NEW k, k # j PROVE Entries(s, k) = Entries(r, k)
  BY <1>3 DEF Entries
<1> QED BY <1>1, <1>2, <1>3, ViewWrite

\* A step stores at most one backup.
LEMMA StoredChanges ==
  ASSUME [Next]_vars
  PROVE  stored' = stored \/ \E j \in Jobs : stored' = stored \cup {j}
<1>1. ASSUME NEW j \in Jobs, ProcessJob(j) PROVE stored' = stored \/ stored' = stored \cup {j}
  BY <1>1 DEF ProcessJob, StartJob, Dump, ResolveTarget, Upload, MaybeStored, Dispatch, Poll,
       PollGivesUp, ResolveDatabase, Record, RecordFile, Notify, worldVars
<1>2. ASSUME NEW j \in Jobs, AgentRuns(j) \/ AgentForgets(j)
      PROVE stored' = stored \/ stored' = stored \cup {j}
  BY <1>2 DEF AgentRuns, MaybeStored, AgentForgets
<1>3. ASSUME NEW j \in Jobs, Produce(j) \/ PushAgain(j) PROVE stored' = stored
  BY <1>3 DEF Produce, CreateRun, Push, PushFails, ProducerDies, PushAgain, worldVars
<1>4. CASE MainLoop \/ DeleteAllBackupRuns \/ Sigterm \/ Crash \/ UNCHANGED vars
  BY <1>4 DEF MainLoop, Pop, PopReplyLost, LoopTest, PopNothing, Close, Start, DeleteAllBackupRuns,
       Sigterm, Crash, vars, worldVars
<1> QED BY <1>1, <1>2, <1>3, <1>4, JobKinds DEF Next

\* Every step of the pipeline is a step of the ledger or leaves it alone.
LEMMA StepSimulates == LogInv /\ [Next]_vars => [LedgerView!Next]_(LedgerView!vars)
<1> SUFFICES ASSUME LogInv, [Next]_vars PROVE LedgerView!Next \/ UNCHANGED LedgerView!vars
    OBVIOUS
<1>0. IInv /\ TypeOK /\ EntryInv /\ RunIdIsOwn
  BY DEF LogInv, IInv, RowsInv
<1>1. LogView = StatusView(rows) /\ LogView' = StatusView(rows')
  BY DEF LogView, StatusView, Entries
<1>j. Requests \subseteq Jobs /\ \A j \in Requests : Original[j] = j
  BY JobKinds
<1>d. stored' = stored => Delivered' = Delivered
  BY DEF Delivered
<1>2. CASE \E c \in Copies : PushAgain(c)
  <2>1. PICK c \in Copies : PushAgain(c)
    BY <1>2
  <2>2. UNCHANGED <<rows, entered, stored>> /\ Original[c] \in Requests
    BY <2>1, JobKinds DEF PushAgain, registryVars, worldVars
  <2>3. Repeated' = Repeated \cup {Original[c]}
    <3>1. pc \in [Jobs -> Steps] /\ c \in Jobs
      BY <1>0, JobKinds DEF TypeOK
    <3>2. pc' = [pc EXCEPT ![c] = "queued"]
      BY <2>1 DEF PushAgain, Goto
    <3>3. \A k \in Copies : pc'[k] # "new" <=> k = c \/ pc[k] # "new"
      BY <3>1, <3>2, JobKinds
    <3> QED BY <3>3 DEF Repeated
  <2>4. LogView' = LogView /\ Delivered' = Delivered
    BY <1>1, <1>d, <2>2
  <2> QED BY <2>2, <2>3, <2>4 DEF LedgerView!Next, LedgerView!Repeat
<1>n. ASSUME ~(\E c \in Copies : PushAgain(c)) PROVE Repeated' = Repeated
  BY <1>0, <1>n, RepeatedChanges
<1>3. CASE UNCHANGED <<rows, run, entered>> /\ Repeated' = Repeated
  <2>1. LogView' = LogView /\ entered' = entered
    BY <1>1, <1>3
  <2>2. CASE stored' = stored
    BY <1>d, <1>3, <2>1, <2>2 DEF LedgerView!vars
  <2>3. ASSUME NEW j \in Jobs, stored' = stored \cup {j} PROVE LedgerView!Next
    <3>1. Delivered' = Delivered \cup {Original[j]} /\ Original[j] \in Requests
      BY <2>3, JobKinds DEF Delivered
    <3> QED BY <1>3, <2>1, <3>1 DEF LedgerView!Next, LedgerView!Store
  <2> QED BY <2>2, <2>3, StoredChanges
<1>4. CASE DeleteAllBackupRuns
  <2>1. DOMAIN rows' = {} /\ UNCHANGED <<entered, stored, pc>>
    BY <1>4 DEF DeleteAllBackupRuns, worldVars, jobVars
  <2>2. LogView' = [j \in {} |-> {}]
    BY <1>1, <2>1 DEF StatusView
  <2>3. Repeated' = Repeated /\ Delivered' = Delivered
    BY <2>1 DEF Repeated, Delivered
  <2> QED BY <2>1, <2>2, <2>3 DEF LedgerView!Next, LedgerView!Clear
<1>5. ASSUME NEW j \in Jobs, StartJob(j), UpdateBackupRunStarted(run[j]), Repeated' = Repeated
      PROVE UNCHANGED LedgerView!vars
  <2>1. LogView' = LogView
    BY <1>0, <1>1, <1>5, StartEffect, ViewSame
  <2> QED BY <1>d, <1>5, <2>1 DEF StartJob, worldVars, LedgerView!vars
<1>6. ASSUME NEW j \in Requests, CreateRun(j), CreateBackupRun(j, "running", "blank"),
             Repeated' = Repeated
      PROVE LedgerView!Next
  <2>1. pc[j] = "new" /\ run[j] = 0 /\ j \notin Repeated
    BY <1>0, <1>j, <1>6 DEF CreateRun, IInv, RowsInv, CopyInv, Repeated
  <2>2. j \notin entered /\ entered' = entered \cup {j} /\ stored' = stored
    BY <1>0, <1>j, <1>6, <2>1 DEF CreateRun, CreateBackupRun, EntryInv, worldVars
  <2>3. Entries(rows, j) = {}
    BY <1>0, <2>2 DEF EntryInv, Entries
  <2>4. LogView' = WithEntry(LogView, j, {"running"} \cup Entries(rows, j))
    <3> DEFINE id == lastId + 1
    <3>1. /\ DOMAIN rows' = DOMAIN rows \cup {id} /\ id \notin DOMAIN rows
          /\ rows'[id] = [job |-> j, status |-> "running", startedAt |-> "blank"]
          /\ \A i \in DOMAIN rows : rows'[i] = rows[i]
      BY <1>0, <1>j, <1>6, InsertEffect
    <3> HIDE DEF id
    <3>2. /\ rows'[id].job = j /\ rows'[id].status = "running"
          /\ DOMAIN rows' = DOMAIN rows \cup {id} /\ id \notin DOMAIN rows
          /\ \A i \in DOMAIN rows : rows'[i] = rows[i]
      BY <3>1
    <3>3. StatusView(rows') = WithEntry(StatusView(rows), j, {"running"} \cup Entries(rows, j))
      BY <3>2, ViewInsert
    <3> QED BY <1>1, <3>3
  <2>5. LogView' = WithEntry(LogView, j, {"running"})
    BY <2>3, <2>4
  <2>6. LedgerView!Enqueue(j)
    BY <1>d, <1>6, <2>2, <2>5 DEF LedgerView!Enqueue, WithEntry, LedgerView!Write, LedgerView!Shown
  <2> QED BY <2>6 DEF LedgerView!Next
<1>7. ASSUME NEW j \in Jobs, Record(j)
      PROVE /\ pc[j] = "record" /\ stored' = stored /\ res[j] \in {"success", "error"}
            /\ Original[j] \in Requests
            /\ res[j] = "success" => Original[j] \in Delivered
  BY <1>0, <1>7, JobKinds DEF Record, worldVars, TypeOK, IInv, ResultInv, Delivered
<1>8. ASSUME NEW j \in Jobs, Record(j), run[j] # 0, UNCHANGED entered, Repeated' = Repeated,
             FinishBackupRun(run[j], res[j], StartedAt(j))
      PROVE LedgerView!Next \/ UNCHANGED LedgerView!vars
  <2>1. /\ DOMAIN rows' = DOMAIN rows
        /\ \A i \in DOMAIN rows : rows'[i].job = rows[i].job
        /\ \A i \in DOMAIN rows : i # run[j] => rows'[i] = rows[i]
        /\ \A i \in DOMAIN rows : i = run[j] => rows'[i].status = res[j]
    BY <1>0, <1>8, FinishEffect
  <2>2. CASE run[j] \in DOMAIN rows
    <3>1. rows[run[j]].job = Original[j]
      BY <1>0, <2>2 DEF RunIdIsOwn
    <3>2. run[Original[j]] = run[j]
      BY <1>0, <1>7, <1>8, JobKinds DEF IInv, CopyInv
    <3>3. \A i \in DOMAIN rows : i # run[j] => rows[i].job # Original[j]
      BY <1>0, <1>8, <3>1, <3>2 DEF EntryInv
    <3>4. Original[j] \in DOMAIN LogView /\ LogView[Original[j]] = {rows[run[j]].status}
      <4>1. Original[j] \in {rows[i].job : i \in DOMAIN rows}
        BY <2>2, <3>1
      <4>2. Entries(rows, Original[j]) = {rows[run[j]].status}
        BY <2>2, <3>1, <3>3 DEF Entries
      <4> QED BY <1>1, <4>1, <4>2 DEF StatusView
    <3>5. rows[run[j]].status = "running" \/ Original[j] \in Repeated
      BY <1>0, <1>7, <1>8, <2>2 DEF IInv, RowsInv, Unrecorded
    <3>6. LogView' = WithEntry(LogView, Original[j], {res[j]})
      <4> DEFINE id == run[j]
                 o == Original[j]
      <4>1. /\ id \in DOMAIN rows /\ DOMAIN rows' = DOMAIN rows
            /\ rows[id].job = o /\ rows'[id].job = o /\ rows'[id].status = res[j]
            /\ \A i \in DOMAIN rows : i # id => rows'[i] = rows[i] /\ rows[i].job # o
        BY <2>1, <2>2, <3>1, <3>3
      <4> HIDE DEF id, o
      <4>2. LogView' = WithEntry(LogView, o, {res[j]})
        BY <1>1, <4>1, ViewUpdate
      <4> QED BY <4>2 DEF o
    <3>7. LedgerView!Settle(Original[j], res[j])
      BY <1>d, <1>7, <1>8, <3>4, <3>5, <3>6
         DEF LedgerView!Settle, WithEntry, LedgerView!Write, LedgerView!Shown, LedgerView!Justified
    <3> QED BY <1>7, <1>8, <3>7 DEF LedgerView!Next, LedgerView!Outcome
  <2>3. CASE run[j] \notin DOMAIN rows
    <3>1. LogView' = LogView
      BY <1>1, <2>1, <2>3, ViewSame
    <3> QED BY <1>d, <1>7, <1>8, <3>1 DEF LedgerView!vars
  <2> QED BY <2>2, <2>3
<1>9. ASSUME NEW j \in Jobs, Record(j), run[j] = 0, CreateBackupRun(j, res[j], StartedAt(j)),
             Repeated' = Repeated
      PROVE LedgerView!Next
  <2> DEFINE o == Original[j]
  <2>1. entered' = entered \cup {o}
    BY <1>9 DEF CreateBackupRun
  <2>2. o \notin entered \/ o \in Repeated
    <3> SUFFICES ASSUME o \notin Repeated PROVE o \notin entered
        OBVIOUS
    <3>1. o = j
      BY <1>7, <1>9, OnlyJob
    <3> QED BY <1>0, <1>7, <1>9, <3>1 DEF EntryInv, Unrecorded
  <2>3. LogView' = WithEntry(LogView, o, {res[j]} \cup Entries(rows, o))
    <3> DEFINE id == lastId + 1
               status == res[j]
    <3>1. /\ DOMAIN rows' = DOMAIN rows \cup {id} /\ id \notin DOMAIN rows
          /\ rows'[id] = [job |-> o, status |-> status, startedAt |-> StartedAt(j)]
          /\ \A i \in DOMAIN rows : rows'[i] = rows[i]
      BY <1>0, <1>9, InsertEffect
    <3> HIDE DEF id, o, status
    <3>2. /\ rows'[id].job = o /\ rows'[id].status = status
          /\ DOMAIN rows' = DOMAIN rows \cup {id} /\ id \notin DOMAIN rows
          /\ \A i \in DOMAIN rows : rows'[i] = rows[i]
      BY <3>1
    <3>3. StatusView(rows') = WithEntry(StatusView(rows), o, {status} \cup Entries(rows, o))
      BY <3>2, ViewInsert
    <3> QED BY <1>1, <3>3 DEF status
  <2>4. Entries(rows, o) = IF o \in DOMAIN LogView THEN LogView[o] ELSE {}
    <3>1. DOMAIN LogView = {rows[i].job : i \in DOMAIN rows}
      BY <1>1 DEF StatusView
    <3>2. CASE o \in DOMAIN LogView
      BY <1>1, <3>1, <3>2 DEF StatusView
    <3>3. CASE o \notin DOMAIN LogView
      BY <3>1, <3>3 DEF Entries
    <3> QED BY <3>2, <3>3
  <2>5. o \in Requests /\ (res[j] = "success" => o \in Delivered) /\ Delivered' = Delivered
    BY <1>d, <1>7, <1>9
  <2> HIDE DEF o
  <2>6. LedgerView!RecordFinished(o, res[j])
    BY <1>9, <2>1, <2>2, <2>3, <2>4, <2>5
       DEF LedgerView!RecordFinished, WithEntry, LedgerView!Write, LedgerView!Shown,
           LedgerView!Justified
  <2> QED BY <1>7, <1>9, <2>5, <2>6 DEF LedgerView!Next, LedgerView!Outcome
<1> QED BY <1>2, <1>n, <1>3, <1>4, <1>5, <1>6, <1>8, <1>9, RowChanges

\* The pipeline implements the ledger: whatever fails, clears or restarts, the log page
\* shows each request once, settles it at most once, and truthfully; a request that a
\* retried push delivered again may be settled again, as truthfully.
THEOREM LedgerImplemented == Spec => Ledger
<1>1. Init => LedgerView!Init
  <2> SUFFICES ASSUME Init PROVE LedgerView!Init
      OBVIOUS
  <2>1. DOMAIN rows = {}
    BY DEF Init
  <2>2. LogView = [j \in {} |-> {}]
    BY <2>1 DEF LogView
  <2>3. Repeated = {} /\ Delivered = {}
    BY JobKinds DEF Init, Repeated, Delivered
  <2> QED BY <2>2, <2>3 DEF Init, LedgerView!Init
<1> QED BY <1>1, StepSimulates, LogInvariance, PTL DEF Spec, Ledger, LedgerView!Spec
==============================================================================
