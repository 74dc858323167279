------------------------------ MODULE Migration ------------------------------
(***************************************************************************)
(* registry.Open: the admin server, the scheduler, the consumer and the    *)
(* one-shot commands all open the same SQLite file, and each of them       *)
(* brings an outdated file up to date.  Docker starts them together, so on *)
(* the first start of a new version they do so at the same time.           *)
(*                                                                         *)
(* Every migration first looks whether the file still has the outdated     *)
(* trait and then, in a later transaction, removes it; another process may *)
(* have removed it in between.  A transaction is one step: SQLite has one  *)
(* writer at a time and rolls back what a crash cuts short.                *)
(*                                                                         *)
(* The repository's README (src/README.md:107) still says that there is no *)
(* automatic migration and that the volume is to be deleted instead; the   *)
(* migrations below are what Open does.                                    *)
(***************************************************************************)
EXTENDS Integers, FiniteSets

CONSTANTS
  Procs,      \* the processes that open the file
  Triples,    \* (name, agent_id, driver) triples, all of one name
  MaxEdits,   \* bounds the databases and schedules added or deleted meanwhile
  MaxCrashes  \* bounds the crashes and the statements that fail with SQLITE_BUSY

ASSUME MigrationAssumption ==
  /\ MaxEdits \in Nat
  /\ MaxCrashes \in Nat

\* The migrations, in the order Open runs them, named for the trait they remove.
SharedTimes == 1    \* shared_schedules has time_of_day and last_run_date
NotifyEvents == 2   \* notify_channels has notify_on_success and notify_on_error
NoAgentID == 3      \* databases lacks agent_id
UniqueName == 4     \* databases has UNIQUE(name)
NoGroupName == 7    \* shared_schedules lacks name

Traits == {SharedTimes, NotifyEvents, NoAgentID, UniqueName, NoGroupName}
Tables == {"databases", "shared_schedules", "notify_channels"}

TableOf(m) ==
  CASE m \in {SharedTimes, NoGroupName} -> "shared_schedules"
    [] m = NotifyEvents -> "notify_channels"
    [] OTHER -> "databases"

VARIABLES
  tables,    \* the tables in the file
  old,       \* the outdated traits of the file
  index,     \* idx_databases_name_agent_driver exists
  rows,      \* databases: triple -> number of rows
  schedules, \* triples of the databases that have rows in schedules
  groups,    \* shared schedules that were there before (0 or 1)
  times,     \* rows in shared_schedule_times for them
  enforcing, \* processes whose connection has foreign_keys=ON (SQLite starts with OFF)
  stage,     \* process -> the step of Open it is at
  needed,    \* processes that found the trait of their stage and will remove it
  edits,
  crashes

fileVars == <<tables, old, index, rows, schedules, groups, times>>
procVars == <<enforcing, stage, needed>>
vars == <<fileVars, procVars, edits, crashes>>

\* The steps of Open before, between and after the migrations.
Down == -2
Pragmas == -1
Schema == 0
Rebuild == 5        \* foreign keys are off, the table with UNIQUE(name) is to be rebuilt
Verify == 6         \* it is rebuilt, foreign_key_check comes next
Index == 8
Opened == 9

\* A file written by some earlier version, or none.  UNIQUE(name) went when agent_id came,
\* and the name of a group came after its times had a table of their own.
Init ==
  /\ tables \in SUBSET Tables
  /\ old \in SUBSET Traits
  /\ \A m \in old : TableOf(m) \in tables
  /\ NoAgentID \in old => UniqueName \in old
  /\ SharedTimes \in old => NoGroupName \in old
  /\ index = ("databases" \in tables /\ UniqueName \notin old)
  /\ rows \in [Triples -> {0, 1}]
  /\ \A t \in Triples : rows[t] = 1 => "databases" \in tables
  /\ UniqueName \in old => \A t, u \in Triples : rows[t] = 1 /\ rows[u] = 1 => t = u
  /\ schedules = {t \in Triples : rows[t] = 1}
  /\ groups \in {0, 1}
  /\ groups = 1 => "shared_schedules" \in tables
  /\ times = IF SharedTimes \in old THEN 0 ELSE groups
  /\ stage = [p \in Procs |-> Pragmas]
  /\ enforcing = {}
  /\ needed = {}
  /\ edits = 0
  /\ crashes = 0

Goto(p, s) == stage' = [stage EXCEPT ![p] = s]

\* Open returns an error and the command ends with it, and with its connection.
Fail(p) ==
  /\ Goto(p, Down)
  /\ enforcing' = enforcing \ {p}
  /\ needed' = needed \ {p}
  /\ UNCHANGED fileVars

SetPragmas(p) ==
  /\ stage[p] = Pragmas
  /\ enforcing' = enforcing \cup {p}
  /\ Goto(p, Schema)
  /\ UNCHANGED <<fileVars, needed, edits, crashes>>

\* CREATE TABLE IF NOT EXISTS, in today's shape; a table that exists is left as it is.
CreateTable(p) ==
  /\ stage[p] = Schema
  /\ \E t \in Tables \ tables : tables' = tables \cup {t}
  /\ UNCHANGED <<old, index, rows, schedules, groups, times, procVars, edits, crashes>>

SchemaApplied(p) ==
  /\ stage[p] = Schema
  /\ tables = Tables
  /\ Goto(p, SharedTimes)
  /\ UNCHANGED <<fileVars, enforcing, needed, edits, crashes>>

\* The step after a migration; the one of UNIQUE(name) has steps of its own to skip.
After(m) == IF m = UniqueName THEN NoGroupName ELSE m + 1

\* Seeded fault: a migration does not look first.
CheckAlways(p) ==
  /\ stage[p] \in Traits
  /\ p \notin needed
  /\ needed' = needed \cup {p}
  /\ UNCHANGED <<fileVars, enforcing, stage, edits, crashes>>

\* hasColumn, hasSingleColumnUniqueIndex: is there anything to do?
Check(p) ==
  /\ stage[p] \in Traits
  /\ p \notin needed
  /\ IF stage[p] \in old
     THEN needed' = needed \cup {p} /\ UNCHANGED stage
     ELSE Goto(p, After(stage[p])) /\ UNCHANGED needed
  /\ UNCHANGED <<fileVars, enforcing, edits, crashes>>

Removes(p, m) ==
  /\ stage[p] = m
  /\ p \in needed
  /\ UNCHANGED <<edits, crashes>>

Done(p, m) ==
  /\ old' = old \ {m}
  /\ Goto(p, After(m))
  /\ needed' = needed \ {p}
  /\ UNCHANGED enforcing

\* Seeded fault: the old columns are kept.
SharedTimesKept(p) ==
  /\ Removes(p, SharedTimes)
  /\ times' = times + groups
  /\ Goto(p, After(SharedTimes))
  /\ needed' = needed \ {p}
  /\ UNCHANGED <<tables, old, index, rows, schedules, groups, enforcing>>

\* Copy the times and drop the columns.  If they are gone already the copy fails.
MigrateSharedScheduleTimes(p) ==
  /\ Removes(p, SharedTimes)
  /\ IF SharedTimes \in old
     THEN /\ times' = times + groups
          /\ Done(p, SharedTimes)
          /\ UNCHANGED <<tables, index, rows, schedules, groups>>
     ELSE Fail(p)

\* Seeded fault: a migration that fails is skipped.
SkipFailed(p, m) ==
  /\ Removes(p, m)
  /\ Goto(p, After(m))
  /\ needed' = needed \ {p}
  /\ old' \in {old, old \ {m}}
  /\ UNCHANGED <<tables, index, rows, schedules, groups, times, enforcing>>

\* ALTER TABLE fails on a column that is already gone, or already there.
AlterTable(p, m) ==
  /\ Removes(p, m)
  /\ IF m \in old
     THEN Done(p, m) /\ UNCHANGED <<tables, index, rows, schedules, groups, times>>
     ELSE Fail(p)

MigrateNotifyChannelEvents(p) == AlterTable(p, NotifyEvents)
MigrateAgentIDColumn(p) == AlterTable(p, NoAgentID)
MigrateSharedScheduleNameColumn(p) == AlterTable(p, NoGroupName)

(***************************************************************************)
(* migrateDatabasesNameUniqueScope, which rebuilds the table.  Dropping a  *)
(* table deletes its rows first, and that deletes what refers to them if   *)
(* the connection enforces foreign keys.                                   *)
(***************************************************************************)

\* Seeded fault: the pragma is issued inside the transaction, where SQLite ignores it.
ForeignKeysOffIgnored(p) ==
  /\ Removes(p, UniqueName)
  /\ Goto(p, Rebuild)
  /\ needed' = needed \ {p}
  /\ UNCHANGED <<fileVars, enforcing>>

ForeignKeysOff(p) ==
  /\ Removes(p, UniqueName)
  /\ enforcing' = enforcing \ {p}
  /\ Goto(p, Rebuild)
  /\ needed' = needed \ {p}
  /\ UNCHANGED fileVars

\* Copy, drop and rename in one transaction.  Rows keep their ids, so that what refers to
\* them still does; an index on the old table goes with it.  Rebuilding a table that another
\* process has rebuilt is no error.
RebuildDatabases(p) ==
  /\ stage[p] = Rebuild
  /\ old' = old \ {UniqueName}
  /\ index' = FALSE
  /\ schedules' = IF p \in enforcing THEN {} ELSE schedules
  /\ Goto(p, Verify)
  /\ UNCHANGED <<tables, rows, groups, times, enforcing, needed, edits, crashes>>

\* Seeded fault: foreign keys are not switched on again.
ForeignKeysStayOff(p) ==
  /\ stage[p] = Verify
  /\ Goto(p, After(UniqueName))
  /\ UNCHANGED <<fileVars, enforcing, needed, edits, crashes>>

\* PRAGMA foreign_key_check, then the deferred PRAGMA foreign_keys=ON.
ForeignKeyCheck(p) ==
  /\ stage[p] = Verify
  /\ IF \A t \in schedules : rows[t] > 0
     THEN /\ enforcing' = enforcing \cup {p}
          /\ Goto(p, After(UniqueName))
          /\ UNCHANGED <<fileVars, needed>>
     ELSE Fail(p)
  /\ UNCHANGED <<edits, crashes>>

\* CREATE UNIQUE INDEX IF NOT EXISTS fails if two rows have the same triple.
CreateIndex(p) ==
  /\ stage[p] = Index
  /\ IF index \/ \A t \in Triples : rows[t] <= 1
     THEN /\ index' = TRUE
          /\ Goto(p, Opened)
          /\ UNCHANGED <<tables, old, rows, schedules, groups, times, enforcing, needed>>
     ELSE Fail(p)
  /\ UNCHANGED <<edits, crashes>>

\* A statement of a process that has opened the file.
Edits(p) ==
  /\ stage[p] = Opened
  /\ edits < MaxEdits
  /\ edits' = edits + 1
  /\ UNCHANGED <<tables, old, index, groups, times, procVars, crashes>>

\* Create; the unique indexes reject some rows.
Insert(p, t) ==
  /\ Edits(p)
  /\ index => rows[t] = 0
  /\ UniqueName \in old => \A u \in Triples : rows[u] = 0
  /\ rows' = [rows EXCEPT ![t] = @ + 1]
  /\ UNCHANGED schedules

\* CreateSchedule, which the foreign key rejects for a database that is gone.
CreateSchedule(p, t) ==
  /\ Edits(p)
  /\ p \in enforcing => rows[t] > 0
  /\ schedules' = schedules \cup {t}
  /\ UNCHANGED rows

\* Delete of one row, with its schedules if foreign keys are enforced; of several rows with
\* this triple, another one may have schedules as well.
Delete(p, t) ==
  /\ Edits(p)
  /\ rows[t] > 0
  /\ rows' = [rows EXCEPT ![t] = @ - 1]
  /\ IF p \in enforcing
     THEN schedules' \in {schedules \ {t}} \cup IF rows[t] > 1 THEN {schedules} ELSE {}
     ELSE UNCHANGED schedules

\* The process is killed, or gives up on a lock held for longer than busy_timeout.
Crash(p) ==
  /\ stage[p] # Down
  /\ crashes < MaxCrashes
  /\ crashes' = crashes + 1
  /\ Fail(p)
  /\ UNCHANGED edits

\* Docker restarts it.
Restart(p) ==
  /\ stage[p] = Down
  /\ Goto(p, Pragmas)
  /\ UNCHANGED <<fileVars, enforcing, needed, edits, crashes>>

MigrateDatabasesNameUniqueScope(p) == ForeignKeysOff(p) \/ RebuildDatabases(p) \/ ForeignKeyCheck(p)

Migrate(p) ==
  \/ MigrateSharedScheduleTimes(p)
  \/ MigrateNotifyChannelEvents(p)
  \/ MigrateAgentIDColumn(p)
  \/ MigrateDatabasesNameUniqueScope(p)
  \/ MigrateSharedScheduleNameColumn(p)

Open(p) ==
  \/ SetPragmas(p) \/ CreateTable(p) \/ SchemaApplied(p)
  \/ Check(p) \/ Migrate(p) \/ CreateIndex(p)

Next ==
  \E p \in Procs :
    \/ Open(p) \/ Restart(p) \/ Crash(p)
    \/ \E t \in Triples : Insert(p, t) \/ CreateSchedule(p, t) \/ Delete(p, t)

Spec == Init /\ [][Next]_vars

\* Open runs on, and Docker restarts what has ended (restart: unless-stopped).
FairSpec == Spec /\ \A p \in Procs : WF_vars(Open(p) \/ Restart(p))

(***************************************************************************)
(* Properties.                                                             *)
(***************************************************************************)

\* Every variable stays in its type, and only a process at a migration has one to apply.
TypeOK ==
  /\ tables \subseteq Tables
  /\ old \subseteq Traits
  /\ index \in BOOLEAN
  /\ rows \in [Triples -> Nat]
  /\ schedules \subseteq Triples
  /\ groups \in {0, 1}
  /\ times \in Nat
  /\ enforcing \subseteq Procs
  /\ stage \in [Procs -> Down .. Opened]
  /\ needed \subseteq Procs
  /\ edits \in 0 .. MaxEdits
  /\ crashes \in 0 .. MaxCrashes
  /\ \A p \in needed : stage[p] \in Traits

\* A process that has opened the registry finds today's tables and columns, whatever the
\* other processes were migrating when they did, failed or crashed.  (src/README.md:107
\* says not to expect such an upgrade in place; Open performs it.)
OpenedIsCurrent ==
  \A p \in Procs : stage[p] = Opened => old = {} /\ tables = Tables

\* The time of a shared schedule is in one place: still in the old column, or in exactly one
\* row of shared_schedule_times.  Two processes that both found the column copy it once, in
\* the upgrade in place that src/README.md:107 says not to expect.
TimesMovedOnce == times = IF SharedTimes \in old THEN 0 ELSE groups

\* Schedules go only with their database, when somebody deletes that: the DROP TABLE of the
\* rebuild deletes none, because the connection that drops the table has switched foreign
\* keys off, before its transaction and for itself alone.
SchedulesSurvive == [][\A t \in schedules \ schedules' : rows'[t] < rows[t]]_vars

\* A schedule has a database: whoever has opened the file enforces foreign keys, also after
\* having switched them off for the rebuild, and its deletions take the schedules along.
NoOrphanSchedules == \A t \in schedules : rows[t] > 0

\* No two databases have the same (name, agent_id, driver).  While one process rebuilds the
\* table that another one has already opened, nothing enforces this.
TripleIsUnique == \A t \in Triples : rows[t] <= 1

\* Everybody opens the registry in the end: who loses a race against another process's
\* migration ends with an error, and finds nothing left to do when it is restarted.  Only
\* rows with the same triple keep it shut, as the index cannot be created then.  Unlike what
\* the repository's README advises, no volume has to be deleted for that.
AllOpen == []TripleIsUnique => <>[](\A p \in Procs : stage[p] = Opened)

(***************************************************************************)
(* The inductive invariant behind OpenedIsCurrent and NoOrphanSchedules.   *)
(***************************************************************************)

\* What a process has gone past is done, and nobody undoes it.
PassedIsDone ==
  \A p \in Procs :
    /\ stage[p] > Schema => tables = Tables
    /\ \A m \in Traits : stage[p] > m /\ ~(m = UniqueName /\ stage[p] = Rebuild) => m \notin old

\* Foreign keys are off before the pragma and around the rebuild, and nowhere else.
EnforcedWhere ==
  \A p \in Procs : p \in enforcing <=> stage[p] \notin {Down, Pragmas, Rebuild, Verify}
==============================================================================
