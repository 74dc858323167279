------------------------------ MODULE Scheduler ------------------------------
(***************************************************************************)
(* runScheduler: every 30 seconds it lists the schedules due at this       *)
(* minute and not yet marked with today's date, and for each due database  *)
(* inserts a log row, pushes a job and marks the schedule.  A "trigger" is *)
(* a row with a time_of_day and a last_run_date: a schedules row (one      *)
(* database) or a shared_schedule_times row (all databases of its group).  *)
(*                                                                         *)
(* Time is counted in ticker periods of 30 seconds.  What the wall clock   *)
(* shows in each is a constant, so that days on which the clocks change    *)
(* are among the instances; only the date must not go back.                *)
(***************************************************************************)
EXTENDS Integers, FiniteSets

CONSTANTS
  Dbs,            \* databases
  OwnTriggers,    \* rows of schedules
  SharedTriggers, \* rows of shared_schedule_times, of one shared schedule
  Members,        \* trigger -> the databases it backs up
  TimeOfDay,      \* trigger -> its time_of_day, as text
  Horizon,        \* the last period considered (bounds the clock)
  Hhmm, Day,      \* period -> now.Format("15:04"), now's date as a day number
  MaxFailures,    \* bounds the failing queries, inserts and pushes
  MaxSlips,       \* bounds the crashes, failed marks and lost push replies
  Calm            \* periods in which passes end in time, nothing crashes and nobody switches

Triggers == OwnTriggers \cup SharedTriggers
Periods == 0 .. Horizon
Items == {i \in Triggers \X Dbs : i[2] \in Members[i[1]]}
Days == {Day[p] : p \in Periods}
Never == -1       \* last_run_date = ''

ASSUME SchedulerAssumption ==
  /\ OwnTriggers \cap SharedTriggers = {}
  /\ Members \in [Triggers -> SUBSET Dbs]
  /\ \A t \in OwnTriggers : \A d, e \in Members[t] : d = e
  /\ Horizon \in Nat
  /\ Day \in [Periods -> Nat]
  /\ \A p, q \in Periods : p <= q => Day[p] <= Day[q]
  /\ MaxFailures \in Nat
  /\ MaxSlips \in Nat
  /\ Calm \subseteq Periods

VARIABLES
  now,      \* the current period
  tick,     \* the ticker's channel (capacity 1) holds a tick
  last,     \* trigger -> last_run_date
  off,      \* disabled databases, and the shared triggers if their group is disabled
  phase,    \* where checkAndEnqueue is
  at,       \* its variable now: read once, at the start of the pass
  due,      \* the listed items not taken yet (listed in no particular order)
  cur,      \* the item enqueueDue works on
  step,     \* where enqueueDue is
  runID,    \* enqueueDue's runID: 0 if the insert failed, 1 for the id of the row
  fired,    \* <<item, day>> -> jobs pushed for that item with that date
  orphans,  \* "running" rows whose job never got into the queue
  failures, \* failed queries, inserts and pushes
  slips,    \* crashes, failed marks and lost push replies
  failed    \* history: the calm periods in which a query, an insert or a push failed

passVars == <<phase, at, due, cur, step, runID>>
failureVars == <<failures, failed>>
vars == <<now, tick, last, off, passVars, fired, orphans, failureVars, slips>>

NoItem == <<>>
Today == Day[at]

Init ==
  /\ now = 0
  /\ tick = TRUE     \* runScheduler checks once before the ticker starts
  /\ last = [t \in Triggers |-> Never]
  /\ off = {}
  /\ phase = "idle"
  /\ at = 0
  /\ due = {}
  /\ cur = NoItem
  /\ step = "take"
  /\ runID = 0
  /\ fired = [x \in Items \X Days |-> 0]
  /\ orphans = 0
  /\ failures = 0
  /\ slips = 0
  /\ failed = {}

\* One more failure, within the bound.
Fails ==
  /\ failures < MaxFailures
  /\ failures' = failures + 1
  /\ failed' = failed \cup ({now} \cap Calm)

SlipsBy(n) == now \notin Calm /\ slips + n <= MaxSlips /\ slips' = slips + n
Slips == SlipsBy(1)

(***************************************************************************)
(* ListDueSchedules and ListDueSharedSchedules.                            *)
(***************************************************************************)

\* Seeded fault: last_run_date is not looked at.
DueUnmarked(triggers, p) ==
  {i \in Items : /\ i[1] \in triggers /\ i[1] \notin off /\ i[2] \notin off
                 /\ TimeOfDay[i[1]] = Hhmm[p]}

\* Seeded fault: a schedule that has a last_run_date is done for good.
DueOnlyOnce(triggers, p) ==
  {i \in Items : /\ i[1] \in triggers /\ i[1] \notin off /\ i[2] \notin off
                 /\ TimeOfDay[i[1]] = Hhmm[p]
                 /\ last[i[1]] = Never}

Due(triggers, p) ==
  {i \in Items : /\ i[1] \in triggers /\ i[1] \notin off /\ i[2] \notin off
                 /\ TimeOfDay[i[1]] = Hhmm[p]
                 /\ last[i[1]] # Day[p]}

\* An error while the result is read leaves what was read so far; the pass goes on with it.
List(triggers, p) ==
  \/ due' = Due(triggers, p) /\ UNCHANGED failureVars
  \/ due' \in SUBSET Due(triggers, p) /\ Fails

(***************************************************************************)
(* checkAndEnqueue and enqueueDue.                                         *)
(***************************************************************************)

BeginPass ==
  /\ phase = "idle"
  /\ tick
  /\ tick' = FALSE
  /\ phase' = "own"
  /\ at' = now
  /\ List(OwnTriggers, now)
  /\ UNCHANGED <<now, last, off, cur, step, runID, fired, orphans, slips>>

\* enqueueDue starts with CreateBackupRun; if that fails the job is pushed without a row.
Take(i) ==
  /\ step = "take"
  /\ i \in due
  /\ due' = due \ {i}
  /\ cur' = i
  /\ step' = "push"
  /\ \/ runID' = 1 /\ UNCHANGED failureVars
     \/ runID' = 0 /\ Fails
  /\ UNCHANGED <<now, tick, last, off, phase, at, fired, orphans, slips>>

\* How often go-redis sends a command again whose reply was lost, by default.
MaxRetries == 3

\* Redis has appended the job, with the RunID of its row, n times.
Enqueued(n) == fired' = [fired EXCEPT ![<<cur, Today>>] = @ + n]

\* The row inserted for the job stays, at "running".
Abandoned == orphans' = orphans + runID

\* Seeded fault: the schedule is marked before its job is pushed.
PushAfterMark ==
  /\ step = "push"
  /\ last' = [last EXCEPT ![cur[1]] = Today]
  /\ step' = "mark"
  /\ UNCHANGED <<now, tick, off, phase, at, due, cur, runID, fired, orphans, failureVars, slips>>

Push ==
  /\ step = "push"
  /\ Enqueued(1)
  /\ step' = "mark"
  /\ UNCHANGED <<now, tick, last, off, phase, at, due, cur, runID, orphans, failureVars, slips>>

\* Push returns an error and so does enqueueDue: no mark, the next pass may try again.
PushFails ==
  /\ step = "push"
  /\ Fails
  /\ Abandoned
  /\ step' = "take"
  /\ UNCHANGED <<now, tick, last, off, phase, at, due, cur, runID, fired, slips>>

\* n replies were lost and the client sent the command again: the list gets every copy.
PushRetried(n) ==
  /\ step = "push"
  /\ SlipsBy(n)
  /\ Enqueued(n + 1)
  /\ step' = "mark"
  /\ UNCHANGED <<now, tick, last, off, phase, at, due, cur, runID, orphans, failureVars>>

\* Redis appended the job, n times, and Push returns an error for want of a reply.
PushReplyLost(n) ==
  /\ step = "push"
  /\ SlipsBy(n)
  /\ Enqueued(n)
  /\ step' = "take"
  /\ UNCHANGED <<now, tick, last, off, phase, at, due, cur, runID, orphans, failureVars>>

\* MarkScheduleRun or MarkSharedScheduleRun, with the date of the pass.
Mark ==
  /\ step = "mark"
  /\ last' = [last EXCEPT ![cur[1]] = Today]
  /\ step' = "take"
  /\ UNCHANGED <<now, tick, off, phase, at, due, cur, runID, fired, orphans, failureVars, slips>>

\* A failed mark is only logged.
MarkFails ==
  /\ step = "mark"
  /\ Slips
  /\ step' = "take"
  /\ UNCHANGED <<now, tick, last, off, phase, at, due, cur, runID, fired, orphans, failureVars>>

\* The own schedules are through; the shared ones are listed only now.
ListShared ==
  /\ phase = "own"
  /\ step = "take"
  /\ due = {}
  /\ phase' = "shared"
  /\ List(SharedTriggers, at)
  /\ UNCHANGED <<now, tick, last, off, at, cur, step, runID, fired, orphans, slips>>

\* Seeded fault: the first item that is not enqueued ends the pass with items in hand.
EndPassEarly ==
  /\ phase = "shared"
  /\ step = "take"
  /\ phase' = "idle"
  /\ cur' = NoItem
  /\ UNCHANGED <<now, tick, last, off, at, due, step, runID, fired, orphans, failureVars, slips>>

EndPass ==
  /\ phase = "shared"
  /\ step = "take"
  /\ due = {}
  /\ phase' = "idle"
  /\ cur' = NoItem
  /\ UNCHANGED <<now, tick, last, off, at, due, step, runID, fired, orphans, failureVars, slips>>

(***************************************************************************)
(* The clock, the admin's switches, crashes.                               *)
(***************************************************************************)

\* The ticker drops a tick when the previous one is still waiting.  A calm period begins
\* with everything up and switched on, and ends after its pass.
Advance ==
  /\ now < Horizon
  /\ {now, now + 1} \cap Calm # {} => phase = "idle" /\ ~tick
  /\ now + 1 \in Calm => off = {}
  /\ now' = now + 1
  /\ tick' = (phase # "down")
  /\ UNCHANGED <<last, off, passVars, fired, orphans, failureVars, slips>>

\* handleToggle, handleSharedScheduleToggle
Toggle(xs) ==
  /\ now \notin Calm
  /\ off' = IF xs \subseteq off THEN off \ xs ELSE off \cup xs
  /\ UNCHANGED <<now, tick, last, passVars, fired, orphans, failureVars, slips>>

\* The process is killed.  A SIGTERM looks the same from outside: every statement and push
\* of the pass that comes after it fails with the cancelled context, and nothing is marked.
Crash ==
  /\ phase # "down"
  /\ Slips
  /\ phase' = "down"
  /\ due' = {}
  /\ cur' = NoItem
  /\ step' = "take"
  /\ tick' = FALSE
  /\ IF step = "push" THEN Abandoned ELSE UNCHANGED orphans
  /\ UNCHANGED <<now, last, off, at, runID, fired, failureVars>>

\* Docker restarts the scheduler, which checks once at once.
Restart ==
  /\ phase = "down"
  /\ phase' = "idle"
  /\ tick' = TRUE
  /\ UNCHANGED <<now, last, off, at, due, cur, step, runID, fired, orphans, failureVars, slips>>

EnqueueDue ==
  \/ \E i \in Items : Take(i)
  \/ Push \/ PushFails
  \/ \E n \in 1 .. MaxRetries : PushRetried(n)
  \/ \E n \in 1 .. MaxRetries + 1 : PushReplyLost(n)
  \/ Mark \/ MarkFails

Switches == {{d} : d \in Dbs} \cup {SharedTriggers}

Next ==
  \/ BeginPass \/ EnqueueDue \/ ListShared \/ EndPass
  \/ Advance \/ (\E xs \in Switches : Toggle(xs))
  \/ Crash \/ Restart

Spec == Init /\ [][Next]_vars

(***************************************************************************)
(* Properties.                                                             *)
(***************************************************************************)

\* Every variable stays in its type; enqueueDue works on an item exactly from its Take on;
\* nothing is listed or in hand outside a pass; the pass is not ahead of the clock.
TypeOK ==
  /\ now \in Periods
  /\ tick \in BOOLEAN
  /\ last \in [Triggers -> Days \cup {Never}]
  /\ off \subseteq Dbs \cup SharedTriggers
  /\ phase \in {"idle", "own", "shared", "down"}
  /\ at \in 0 .. now
  /\ due \subseteq Items
  /\ cur \in Items \cup {NoItem}
  /\ step \in {"take", "push", "mark"}
  /\ runID \in {0, 1}
  /\ fired \in [Items \X Days -> Nat]
  /\ orphans \in Nat
  /\ failures \in 0 .. MaxFailures
  /\ slips \in 0 .. MaxSlips
  /\ failed \subseteq Calm
  /\ step # "take" => cur \in Items
  /\ phase \in {"idle", "down"} => due = {} /\ step = "take"

\* A trigger pushes a database's job at most once a day, plus once for every crash, failed
\* mark or lost reply: last_run_date holds back the second tick of the minute, the repeated
\* hour when the clocks go back, and ticks that queued up behind a slow pass.
FiringsBounded ==
  \A i \in Items, d \in Days : fired[<<i, d>>] <= 1 + slips

\* A trigger is marked with a date only if a job of it was pushed in a pass of that date:
\* enqueueDue marks after the push, so that a failed push is tried again by the next tick.
MarkedMeansPushed ==
  \A t \in Triggers : last[t] # Never => \E i \in Items : i[1] = t /\ fired[<<i, last[t]>>] > 0

\* Each "running" row without a job is the trace of one failed push or one crash.
OrphansBounded == orphans <= failures + slips

\* Trigger t's minute, entered as the clock shows it, was shown in both of
\* the calm periods u and u + 1, now over.
Passed(t, u) ==
  /\ u + 1 < now
  /\ u \in Calm /\ u + 1 \in Calm
  /\ Hhmm[u] = TimeOfDay[t]
  /\ Hhmm[u + 1] = Hhmm[u]
  /\ Day[u + 1] = Day[u]

PushedOnTime(triggers) ==
  \A i \in Items, u \in Periods :
    i[1] \in triggers /\ u + 1 \in Periods /\ Passed(i[1], u) /\ ~({u, u + 1} \subseteq failed)
      => fired[<<i, Day[u]>>] > 0

\* Whatever happened before, a database's own schedule is not missed because of failures in
\* one of the two passes its minute gets: the other one pushes the job.
OwnFiredOnTime == PushedOnTime(OwnTriggers)

\* What the admin page says of a shared schedule: each of its times pushes a job of its own
\* for every database of the group.
SharedFiredOnTime == PushedOnTime(SharedTriggers)

(***************************************************************************)
(* The inductive invariants behind FiringsBounded, MarkedMeansPushed and   *)
(* OwnFiredOnTime.                                                         *)
(***************************************************************************)

\* No pass has fired anything for a day it has not come to.
FutureUnfired == \A i \in Items, d \in Days : d > Today => fired[<<i, d>>] = 0

\* Today's job of an item has used up its one regular firing only if the trigger is marked
\* or about to be; what is listed or about to be pushed has not.
TodayFirings ==
  \A i \in Items :
    /\ fired[<<i, Today>>] > slips => last[i[1]] = Today \/ (step = "mark" /\ cur = i)
    /\ i \in due \/ (step = "push" /\ cur = i) => fired[<<i, Today>>] <= slips
    /\ step # "take" /\ cur = i => i \notin due

\* The mark that comes next follows a push.
MarkFollowsPush == step = "mark" => fired[<<cur, Today>>] > 0

(***************************************************************************)
(* The inductive invariant behind OwnFiredOnTime.                          *)
(***************************************************************************)

\* A calm period has the process up and everything switched on; its tick waits only until
\* the one pass of the period begins.
CalmPass ==
  now \in Calm =>
    /\ phase # "down"
    /\ off = {}
    /\ tick => phase = "idle"
    /\ ~tick => at = now

OwnDue(p) == {i \in Items : i[1] \in OwnTriggers /\ TimeOfDay[i[1]] = Hhmm[p]}

\* The pass of a calm period, if nothing fails in it, has every item due in hand until it
\* is pushed.
CalmProgress ==
  now \in Calm \ failed /\ ~tick =>
    \A i \in OwnDue(now) :
      fired[<<i, Day[now]>>] > 0 \/ (phase = "own" /\ (i \in due \/ (step = "push" /\ cur = i)))

\* Every calm period that is over, with nothing failed in it, has pushed what was due.
CalmPushed ==
  \A p \in Calm \ failed : p < now => \A i \in OwnDue(p) : fired[<<i, Day[p]>>] > 0
==============================================================================
