-------------------------------- MODULE Agent --------------------------------
(***************************************************************************)
(* The agent's jobStore: POST /run inserts an entry and queues the job on  *)
(* a bounded channel, a single worker goroutine runs the jobs in order,    *)
(* GET /run/{id} reads an entry, and every POST sweeps results older than  *)
(* the retention time.  Everything is in memory and gone after a restart.  *)
(*                                                                         *)
(* Each POST gets a job id of 96 random bits, which is taken to be fresh;  *)
(* the id is identified with the request.  The lock is released between    *)
(* the insertion and the send on the channel, so these are two steps.      *)
(***************************************************************************)
EXTENDS Integers, Sequences

CONSTANTS
  Requests,    \* backup requests, each posted at most once
  Capacity,    \* queueCapacity
  Retention,   \* how long a result is kept (24 hours)
  MaxTime,     \* the last instant considered (bounds the clock)
  MaxRestarts  \* bounds the restarts of the agent

ASSUME AgentAssumption ==
  /\ "idle" \notin Requests
  /\ Capacity \in Nat \ {0}
  /\ Retention \in Nat
  /\ MaxTime \in Nat
  /\ MaxRestarts \in Nat

VARIABLES
  clock,     \* the time, the same on both machines
  jobs,      \* jobStore.jobs: id -> [state, completedAt]; done, with or without success
  queue,     \* jobStore.queue
  worker,    \* the job being run, or "idle"
  handling,  \* jobs whose handleRun is between its insertion and its send
  forgotten, \* jobs lost in a restart
  ended,     \* history: how the job's dump and upload ended
  restarts   \* restarts so far

agentVars == <<jobs, queue, worker, handling, forgotten, ended, restarts>>

Results == {"success", "error"}
Entry == [state : {"pending"} \cup Results, completedAt : Nat]
NoJobs == [r \in {} |-> <<>>]
Pending == [state |-> "pending", completedAt |-> 0]

Done(r) == jobs[r].state # "pending"

Waiting == {queue[k] : k \in 1 .. Len(queue)}

\* The jobs the agent has in hand, from their handlers to the end of their run.
Held == handling \cup Waiting \cup ({worker} \cap Requests)

AgentInit ==
  /\ clock = 0
  /\ jobs = NoJobs
  /\ queue = <<>>
  /\ worker = "idle"
  /\ handling = {}
  /\ forgotten = {}
  /\ ended = [r \in Requests |-> "none"]
  /\ restarts = 0

\* Seeded fault: sweepLocked does not look at done; a pending entry's completedAt is the
\* zero time, which is before any cutoff.
SweptPending(js) ==
  {r \in DOMAIN js : js[r].state = "pending" \/ js[r].completedAt < clock - Retention}

\* The ids sweepLocked deletes.
Swept(js) ==
  {r \in DOMAIN js : js[r].state # "pending" /\ js[r].completedAt < clock - Retention}

\* handleRun, under the lock: insert a pending entry, then sweep.
HandleRun(r) ==
  LET inserted == [x \in DOMAIN jobs \cup {r} |-> IF x = r THEN Pending ELSE jobs[x]]
  IN  /\ jobs' = [x \in DOMAIN inserted \ Swept(inserted) |-> inserted[x]]
      /\ handling' = handling \cup {r}
      /\ UNCHANGED <<clock, queue, worker, forgotten, ended, restarts>>

\* The send succeeds: 202.
Accept(r) ==
  /\ r \in handling
  /\ Len(queue) < Capacity
  /\ queue' = Append(queue, r)
  /\ handling' = handling \ {r}
  /\ UNCHANGED <<clock, jobs, worker, forgotten, ended, restarts>>

\* Seeded fault: the entry of a refused job is left behind.
RefuseLeavesEntry(r) ==
  /\ r \in handling
  /\ Len(queue) >= Capacity
  /\ handling' = handling \ {r}
  /\ UNCHANGED <<clock, jobs, queue, worker, forgotten, ended, restarts>>

\* The channel is full: the entry is deleted again, 503.
Refuse(r) ==
  /\ r \in handling
  /\ Len(queue) >= Capacity
  /\ jobs' = [x \in DOMAIN jobs \ {r} |-> jobs[x]]
  /\ handling' = handling \ {r}
  /\ UNCHANGED <<clock, queue, worker, forgotten, ended, restarts>>

Take ==
  /\ worker = "idle"
  /\ queue # <<>>
  /\ worker' = Head(queue)
  /\ queue' = Tail(queue)
  /\ UNCHANGED <<clock, jobs, handling, forgotten, ended, restarts>>

\* The end of run: the result goes into the entry, if there still is one.
Report(r, result) ==
  jobs' = [x \in DOMAIN jobs |->
             IF x = r THEN [state |-> result, completedAt |-> clock] ELSE jobs[x]]

\* Seeded fault: the worker goroutine returns after a job that failed.
FinishStops(result) ==
  /\ worker \in Requests
  /\ ended' = [ended EXCEPT ![worker] = result]
  /\ Report(worker, result)
  /\ worker' = IF result = "success" THEN "idle" ELSE "stopped"
  /\ UNCHANGED <<clock, queue, handling, forgotten, restarts>>

\* runBackupJob succeeds or fails, and run records it.
Finish(result) ==
  /\ worker \in Requests
  /\ ended' = [ended EXCEPT ![worker] = result]
  /\ Report(worker, result)
  /\ worker' = "idle"
  /\ UNCHANGED <<clock, queue, handling, forgotten, restarts>>

\* Crash, or SIGTERM (the process exits without waiting for the worker), and a new start.
\* The backup that was running may have reached its destination.
Restart ==
  /\ restarts < MaxRestarts
  /\ restarts' = restarts + 1
  /\ jobs' = NoJobs
  /\ queue' = <<>>
  /\ worker' = "idle"
  /\ handling' = {}
  /\ forgotten' = forgotten \cup DOMAIN jobs \cup Held
  /\ \/ worker \in Requests /\ ended' = [ended EXCEPT ![worker] = "success"]
     \/ UNCHANGED ended
  /\ UNCHANGED clock

Work == Take \/ \E result \in Results : Finish(result)

(***************************************************************************)
(* Properties.                                                             *)
(***************************************************************************)

AgentTypeOK ==
  /\ clock \in 0 .. MaxTime
  /\ DOMAIN jobs \subseteq Requests
  /\ jobs \in [DOMAIN jobs -> Entry]
  /\ queue \in Seq(Requests)
  /\ worker \in Requests \cup {"idle"}
  /\ handling \subseteq Requests
  /\ forgotten \subseteq Requests
  /\ ended \in [Requests -> {"none"} \cup Results]
  /\ restarts \in 0 .. MaxRestarts

\* A job the agent has taken on is known to GET /run/{id}, as pending, until it has run:
\* neither the sweep nor the refusal of another job removes its entry.
KnownUntilDone ==
  \A r \in Held : r \in DOMAIN jobs /\ ~Done(r)

\* No entry stays pending for ever: one that is not done belongs to a job that is still to
\* run.  Only done entries are swept, so any other would stay in the map.
PendingIsHeld ==
  \A r \in DOMAIN jobs : ~Done(r) => r \in Held
==============================================================================
