--------------------------- MODULE MigrationProofs ---------------------------
(***************************************************************************)
(* Proofs about Migration.  The traits only ever leave the file, so what a *)
(* process has gone past (PassedIsDone) stays done; OpenedIsCurrent is the *)
(* instance of that for the last stage.  Foreign keys are off only around  *)
(* the rebuild (EnforcedWhere), so the rebuild deletes no schedule and the *)
(* edits of an opened file leave none without its database.                *)
(***************************************************************************)
EXTENDS Migration, TLAPS

FileInv == PassedIsDone /\ TimesMovedOnce
KeysInv == EnforcedWhere /\ NoOrphanSchedules
IInv == TypeOK /\ FileInv /\ KeysInv

\* The steps of Open are in this order.
LEMMA Stages ==
  /\ Down = -2 /\ Pragmas = -1 /\ Schema = 0 /\ Rebuild = 5 /\ Verify = 6 /\ Index = 8 /\ Opened = 9
  /\ SharedTimes = 1 /\ NotifyEvents = 2 /\ NoAgentID = 3 /\ UniqueName = 4 /\ NoGroupName = 7
  /\ Traits = {1, 2, 3, 4, 7}
  /\ \A m \in Traits : After(m) = IF m = 4 THEN 7 ELSE m + 1
BY DEF Down, Pragmas, Schema, Rebuild, Verify, Index, Opened, SharedTimes, NotifyEvents, NoAgentID,
       UniqueName, NoGroupName, Traits, After

\* What a file of an earlier version looks like satisfies the invariant.
LEMMA InitIInv == Init => IInv
<1> SUFFICES ASSUME Init PROVE IInv
  OBVIOUS
<1>1. TypeOK
  BY Stages, MigrationAssumption DEF Init, TypeOK
<1>2. FileInv
  BY Stages DEF Init, FileInv, PassedIsDone, TimesMovedOnce
<1>3. KeysInv
  BY Stages DEF Init, KeysInv, EnforcedWhere, NoOrphanSchedules
<1> QED
  BY <1>1, <1>2, <1>3 DEF IInv

\* A step that takes one process to another stage, and changes of the file at most the traits
\* it removes, keeps FileInv if what the process has gone past is done.
LEMMA FileFrame ==
  ASSUME TypeOK, FileInv, NEW p \in Procs, NEW s \in Int, Goto(p, s),
         old' \subseteq old, tables \subseteq tables', tables' \subseteq Tables,
         s > Schema => tables' = Tables,
         \A m \in Traits : s > m /\ ~(m = UniqueName /\ s = Rebuild) => m \notin old',
         TimesMovedOnce'
  PROVE  FileInv'
<1>1. \A q \in Procs : stage'[q] = IF q = p THEN s ELSE stage[q]
  BY DEF TypeOK, Goto
<1>2. ASSUME NEW q \in Procs
      PROVE  /\ stage'[q] > Schema => tables' = Tables
             /\ \A m \in Traits : stage'[q] > m /\ ~(m = UniqueName /\ stage'[q] = Rebuild) => m \notin old'
  BY <1>1 DEF FileInv, PassedIsDone
<1> QED
  BY <1>2 DEF FileInv, PassedIsDone

\* A step that takes one process to another stage and leaves databases and schedules alone
\* keeps KeysInv if the process enforces foreign keys where it should.
LEMMA KeysFrame ==
  ASSUME TypeOK, KeysInv, NEW p \in Procs, NEW s \in Int, Goto(p, s), UNCHANGED <<rows, schedules>>,
         \/ enforcing' = enforcing \cup {p} /\ s \notin {Down, Pragmas, Rebuild, Verify}
         \/ enforcing' = enforcing \ {p} /\ s \in {Down, Pragmas, Rebuild, Verify}
         \/ enforcing' = enforcing /\ (p \in enforcing <=> s \notin {Down, Pragmas, Rebuild, Verify})
  PROVE  KeysInv'
<1>1. \A q \in Procs : stage'[q] = IF q = p THEN s ELSE stage[q]
  BY DEF TypeOK, Goto
<1>2. EnforcedWhere'
  BY <1>1 DEF KeysInv, EnforcedWhere
<1>3. NoOrphanSchedules'
  BY DEF KeysInv, NoOrphanSchedules
<1> QED
  BY <1>2, <1>3 DEF KeysInv

\* A failing Open changes nothing in the file, and its process starts over.
LEMMA FailPreserves ==
  ASSUME IInv, NEW p \in Procs, Fail(p), edits' \in 0 .. MaxEdits, crashes' \in 0 .. MaxCrashes
  PROVE  IInv'
<1>0. /\ Goto(p, Down) /\ enforcing' = enforcing \ {p} /\ needed' = needed \ {p}
      /\ UNCHANGED <<tables, old, index, rows, schedules, groups, times>>
  BY DEF Fail, fileVars
<1>1. TypeOK'
  BY <1>0, Stages DEF IInv, TypeOK, Goto
<1>2. TimesMovedOnce'
  BY <1>0 DEF IInv, FileInv, TimesMovedOnce
<1>3. FileInv'
  BY <1>0, <1>2, Stages, FileFrame DEF IInv, TypeOK
<1>4. KeysInv'
  BY <1>0, Stages, KeysFrame DEF IInv
<1> QED
  BY <1>1, <1>3, <1>4 DEF IInv

\* A process that removes its trait moves on, and nobody's past is undone.
LEMMA DonePreserves ==
  ASSUME IInv, NEW p \in Procs, NEW m \in Traits, m # UniqueName, Removes(p, m), Done(p, m),
         UNCHANGED <<tables, index, rows, schedules, groups>>, times' \in Nat, TimesMovedOnce'
  PROVE  IInv'
<1>0. /\ stage[p] = m /\ Goto(p, After(m)) /\ needed' = needed \ {p} /\ old' = old \ {m}
      /\ UNCHANGED <<enforcing, edits, crashes>>
  BY DEF Removes, Done
<1>1. TypeOK'
  BY <1>0, Stages DEF IInv, TypeOK, Goto
<1>2. FileInv'
  <2>1. /\ After(m) \in Int /\ After(m) > Schema /\ stage[p] > Schema
        /\ \A k \in Traits : After(m) > k => k = m \/ stage[p] > k
        /\ stage[p] # Rebuild
    BY <1>0, Stages
  <2>2. tables = Tables /\ \A k \in Traits : After(m) > k => k \notin old'
    BY <1>0, <2>1 DEF IInv, FileInv, PassedIsDone
  <2> QED
    BY <1>0, <2>1, <2>2, FileFrame DEF IInv, TypeOK
<1>3. KeysInv'
  <2>1. After(m) \in Int /\ {m, After(m)} \cap {Down, Pragmas, Rebuild, Verify} = {}
    BY Stages
  <2>2. p \in enforcing
    BY <1>0, <2>1 DEF IInv, KeysInv, EnforcedWhere
  <2> QED
    BY <1>0, <2>1, <2>2, KeysFrame DEF IInv
<1> QED
  BY <1>1, <1>2, <1>3 DEF IInv

\* The three migrations that only change the columns of a table.
LEMMA AlterPreserves ==
  ASSUME IInv, NEW p \in Procs, NEW m \in Traits \ {SharedTimes, UniqueName}, AlterTable(p, m)
  PROVE  IInv'
<1>1. CASE m \in old
  <2>1. Done(p, m) /\ Removes(p, m) /\ UNCHANGED <<tables, index, rows, schedules, groups, times>>
    BY <1>1 DEF AlterTable
  <2>2. TimesMovedOnce' /\ times' \in Nat
    BY <2>1 DEF IInv, TypeOK, FileInv, TimesMovedOnce, Done
  <2> QED
    BY <2>1, <2>2, DonePreserves
<1>2. CASE m \notin old
  BY <1>2, FailPreserves DEF AlterTable, Removes, IInv, TypeOK
<1> QED
  BY <1>1, <1>2

\* The rebuild and what surrounds it: foreign keys are off when the table is dropped.
LEMMA RebuildPreserves ==
  ASSUME IInv, NEW p \in Procs, MigrateDatabasesNameUniqueScope(p)
  PROVE  IInv'
<1>1. CASE ForeignKeysOff(p)
  <2>0. /\ stage[p] = UniqueName /\ Goto(p, Rebuild) /\ enforcing' = enforcing \ {p}
        /\ needed' = needed \ {p}
        /\ UNCHANGED <<tables, old, index, rows, schedules, groups, times, edits, crashes>>
    BY <1>1 DEF ForeignKeysOff, Removes, fileVars
  <2>1. TypeOK'
    BY <2>0, Stages DEF IInv, TypeOK, Goto
  <2>2. FileInv'
    <3>1. TimesMovedOnce' /\ tables = Tables
      BY <2>0, Stages DEF IInv, FileInv, TimesMovedOnce, PassedIsDone
    <3>2. \A m \in Traits : Rebuild > m /\ m # UniqueName => m \notin old'
      BY <2>0, Stages DEF IInv, FileInv, PassedIsDone
    <3> QED
      BY <2>0, <3>1, <3>2, Stages, FileFrame DEF IInv, TypeOK
  <2>3. KeysInv'
    BY <2>0, Stages, KeysFrame DEF IInv
  <2> QED
    BY <2>1, <2>2, <2>3 DEF IInv
<1>2. CASE RebuildDatabases(p)
  <2>0. /\ stage[p] = Rebuild /\ Goto(p, Verify) /\ old' = old \ {UniqueName} /\ index' = FALSE
        /\ UNCHANGED <<tables, rows, groups, times, enforcing, needed, edits, crashes>>
    BY <1>2 DEF RebuildDatabases
  <2>1. p \notin enforcing
    BY <2>0, Stages DEF IInv, KeysInv, EnforcedWhere
  <2>2. schedules' = schedules
    BY <1>2, <2>1 DEF RebuildDatabases
  <2>3. TypeOK'
    <3>1. index' \in BOOLEAN
      BY <2>0
    <3>2. stage' \in [Procs -> Down .. Opened]
      BY <2>0, Stages DEF IInv, TypeOK, Goto
    <3>3. \A q \in needed' : stage'[q] \in Traits
      BY <2>0, Stages DEF IInv, TypeOK, Goto
    <3>4. old' \subseteq Traits /\ schedules' \subseteq Triples
      BY <2>0, <2>2 DEF IInv, TypeOK
    <3> QED
      BY <2>0, <3>1, <3>2, <3>3, <3>4 DEF IInv, TypeOK
  <2>4. FileInv'
    <3>1. TimesMovedOnce' /\ tables = Tables
      BY <2>0, Stages DEF IInv, FileInv, TimesMovedOnce, PassedIsDone
    <3>2. \A m \in Traits : Verify > m => m \notin old'
      BY <2>0, Stages DEF IInv, FileInv, PassedIsDone
    <3> QED
      BY <2>0, <3>1, <3>2, Stages, FileFrame DEF IInv, TypeOK
  <2>5. KeysInv'
    BY <2>0, <2>1, <2>2, Stages, KeysFrame DEF IInv
  <2> QED
    BY <2>3, <2>4, <2>5 DEF IInv
<1>3. CASE ForeignKeyCheck(p)
  <2>0. (\A t \in schedules : rows[t] > 0) /\ stage[p] = Verify
    BY <1>3 DEF ForeignKeyCheck, IInv, KeysInv, NoOrphanSchedules
  <2>1. /\ enforcing' = enforcing \cup {p} /\ Goto(p, After(UniqueName))
        /\ UNCHANGED <<tables, old, index, rows, schedules, groups, times, needed, edits, crashes>>
    BY <1>3, <2>0 DEF ForeignKeyCheck, fileVars
  <2>2. After(UniqueName) = 7
    BY Stages
  <2>3. TypeOK'
    BY <2>0, <2>1, <2>2, Stages DEF IInv, TypeOK, Goto
  <2>4. FileInv'
    <3>1. TimesMovedOnce' /\ tables = Tables
      BY <2>0, <2>1, Stages DEF IInv, FileInv, TimesMovedOnce, PassedIsDone
    <3>2. \A m \in Traits : 7 > m => m \notin old'
      BY <2>0, <2>1, Stages DEF IInv, FileInv, PassedIsDone
    <3> QED
      BY <2>1, <2>2, <3>1, <3>2, Stages, FileFrame DEF IInv, TypeOK
  <2>5. KeysInv'
    BY <2>1, <2>2, Stages, KeysFrame DEF IInv
  <2> QED
    BY <2>3, <2>4, <2>5 DEF IInv
<1> QED
  BY <1>1, <1>2, <1>3 DEF MigrateDatabasesNameUniqueScope

\* Each step of Open preserves the invariant.
LEMMA OpenPreserves ==
  ASSUME IInv, NEW p \in Procs, Open(p)
  PROVE  IInv'
<1>1. CASE CreateTable(p)
  <2>1. TypeOK'
    BY <1>1 DEF IInv, TypeOK, CreateTable, procVars
  <2>2. FileInv'
    BY <1>1 DEF IInv, TypeOK, FileInv, PassedIsDone, TimesMovedOnce, CreateTable, procVars
  <2>3. KeysInv'
    BY <1>1 DEF IInv, KeysInv, EnforcedWhere, NoOrphanSchedules, CreateTable, procVars
  <2> QED
    BY <2>1, <2>2, <2>3 DEF IInv
<1>2. CASE SetPragmas(p) \/ SchemaApplied(p)
  <2>0. /\ stage[p] \in {Pragmas, Schema} /\ needed' = needed
        /\ UNCHANGED <<tables, old, index, rows, schedules, groups, times, edits, crashes>>
        /\ \/ stage[p] = Pragmas /\ Goto(p, Schema) /\ enforcing' = enforcing \cup {p}
           \/ stage[p] = Schema /\ Goto(p, SharedTimes) /\ enforcing' = enforcing /\ tables = Tables
    BY <1>2 DEF SetPragmas, SchemaApplied, fileVars
  <2>1. TypeOK'
    BY <2>0, Stages DEF IInv, TypeOK, Goto
  <2>2. FileInv'
    <3>1. TimesMovedOnce'
      BY <2>0 DEF IInv, FileInv, TimesMovedOnce
    <3> QED
      BY <2>0, <3>1, Stages, FileFrame DEF IInv, TypeOK
  <2>3. KeysInv'
    <3>1. stage[p] = Schema => p \in enforcing
      BY Stages DEF IInv, KeysInv, EnforcedWhere
    <3> QED
      BY <2>0, <3>1, Stages, KeysFrame DEF IInv
  <2> QED
    BY <2>1, <2>2, <2>3 DEF IInv
<1>3. CASE Check(p)
  <2>0. /\ stage[p] \in Traits /\ enforcing' = enforcing
        /\ UNCHANGED <<tables, old, index, rows, schedules, groups, times, edits, crashes>>
        /\ \/ needed' = needed \cup {p} /\ stage' = stage
           \/ stage[p] \notin old /\ Goto(p, After(stage[p])) /\ needed' = needed
    BY <1>3 DEF Check, fileVars
  <2>1. TypeOK'
    <3>1. CASE needed' = needed \cup {p} /\ stage' = stage
      BY <2>0, <3>1 DEF IInv, TypeOK
    <3>2. CASE Goto(p, After(stage[p])) /\ needed' = needed
      <4>1. After(stage[p]) \in Down .. Opened /\ p \notin needed
        BY <1>3, <2>0, Stages DEF Check
      <4>2. stage' \in [Procs -> Down .. Opened]
        BY <3>2, <4>1 DEF IInv, TypeOK, Goto
      <4>3. \A q \in needed' : stage'[q] \in Traits
        BY <3>2, <4>1 DEF IInv, TypeOK, Goto
      <4> QED
        BY <2>0, <3>2, <4>2, <4>3 DEF IInv, TypeOK
    <3> QED
      BY <2>0, <3>1, <3>2
  <2>2. TimesMovedOnce' /\ NoOrphanSchedules'
    BY <2>0 DEF IInv, FileInv, KeysInv, TimesMovedOnce, NoOrphanSchedules
  <2>3. CASE stage' = stage
    BY <2>0, <2>1, <2>2, <2>3 DEF IInv, FileInv, KeysInv, PassedIsDone, EnforcedWhere
  <2>4. CASE stage[p] \notin old /\ Goto(p, After(stage[p]))
    <3> DEFINE m == stage[p]
    <3>1. /\ After(m) \in Int /\ After(m) > Schema /\ m > Schema /\ m # Rebuild
          /\ \A k \in Traits : After(m) > k => k = m \/ m > k
          /\ {m, After(m)} \cap {Down, Pragmas, Rebuild, Verify} = {}
      BY <2>0, Stages
    <3>2. tables = Tables /\ \A k \in Traits : After(m) > k => k \notin old'
      BY <2>0, <2>4, <3>1 DEF IInv, FileInv, PassedIsDone
    <3>3. p \in enforcing
      BY <2>0, <3>1 DEF IInv, KeysInv, EnforcedWhere
    <3>4. Goto(p, After(m))
      BY <2>4
    <3> HIDE DEF m
    <3>5. FileInv'
      BY <2>0, <2>2, <3>1, <3>2, <3>4, FileFrame DEF IInv, TypeOK
    <3>6. KeysInv'
      BY <2>0, <3>1, <3>3, <3>4, KeysFrame DEF IInv
    <3> QED
      BY <2>1, <3>5, <3>6 DEF IInv
  <2> QED
    BY <2>0, <2>3, <2>4
<1>4. CASE MigrateSharedScheduleTimes(p)
  <2>1. CASE SharedTimes \in old
    <3>1. /\ Done(p, SharedTimes) /\ Removes(p, SharedTimes) /\ times' = times + groups
          /\ UNCHANGED <<tables, index, rows, schedules, groups>>
      BY <1>4, <2>1 DEF MigrateSharedScheduleTimes
    <3>2. times' \in Nat /\ times' = groups
      BY <2>1, <3>1 DEF IInv, TypeOK, FileInv, TimesMovedOnce
    <3>3. TimesMovedOnce'
      BY <3>1, <3>2 DEF TimesMovedOnce, Done
    <3>4. SharedTimes \in Traits /\ SharedTimes # UniqueName
      BY Stages
    <3> QED
      BY <3>1, <3>2, <3>3, <3>4, DonePreserves
  <2>2. CASE SharedTimes \notin old
    BY <1>4, <2>2, FailPreserves DEF MigrateSharedScheduleTimes, Removes, IInv, TypeOK
  <2> QED
    BY <2>1, <2>2
<1>5. CASE MigrateNotifyChannelEvents(p) \/ MigrateAgentIDColumn(p) \/ MigrateSharedScheduleNameColumn(p)
  <2>1. {NotifyEvents, NoAgentID, NoGroupName} \subseteq Traits \ {SharedTimes, UniqueName}
    BY Stages
  <2> QED
    BY <1>5, <2>1, AlterPreserves
       DEF MigrateNotifyChannelEvents, MigrateAgentIDColumn, MigrateSharedScheduleNameColumn
<1>6. CASE MigrateDatabasesNameUniqueScope(p)
  BY <1>6, RebuildPreserves
<1>7. CASE CreateIndex(p)
  <2>1. CASE index \/ \A t \in Triples : rows[t] <= 1
    <3>0. /\ stage[p] = Index /\ index' = TRUE /\ Goto(p, Opened)
          /\ UNCHANGED <<tables, old, rows, schedules, groups, times, enforcing, needed, edits, crashes>>
      BY <1>7, <2>1, Zenon DEF CreateIndex
    <3>1. TypeOK'
      BY <3>0, Stages DEF IInv, TypeOK, Goto
    <3>2. FileInv'
      <4>1. TimesMovedOnce' /\ tables = Tables /\ \A m \in Traits : m \notin old
        BY <3>0, Stages DEF IInv, FileInv, TimesMovedOnce, PassedIsDone
      <4> QED
        BY <3>0, <4>1, Stages, FileFrame DEF IInv, TypeOK
    <3>3. KeysInv'
      <4>1. p \in enforcing
        BY <3>0, Stages DEF IInv, KeysInv, EnforcedWhere
      <4> QED
        BY <3>0, <4>1, Stages, KeysFrame DEF IInv
    <3> QED
      BY <3>1, <3>2, <3>3 DEF IInv
  <2>2. CASE ~(index \/ \A t \in Triples : rows[t] <= 1)
    BY <1>7, <2>2, FailPreserves DEF CreateIndex, IInv, TypeOK
  <2> QED
    BY <2>1, <2>2
<1> QED
  BY <1>1, <1>2, <1>3, <1>4, <1>5, <1>6, <1>7 DEF Open, Migrate

\* The edits of a process that has opened the file: it enforces foreign keys.
LEMMA EditPreserves ==
  ASSUME IInv, NEW p \in Procs, NEW t \in Triples, Insert(p, t) \/ CreateSchedule(p, t) \/ Delete(p, t)
  PROVE  IInv'
<1>0. /\ stage[p] = Opened /\ edits < MaxEdits /\ edits' = edits + 1
      /\ UNCHANGED <<tables, old, index, groups, times, enforcing, stage, needed, crashes>>
  BY DEF Insert, CreateSchedule, Delete, Edits, procVars
<1>1. p \in enforcing
  BY <1>0, Stages DEF IInv, KeysInv, EnforcedWhere
<1>2. rows' \in [Triples -> Nat] /\ schedules' \subseteq Triples
  BY DEF Insert, CreateSchedule, Delete, IInv, TypeOK
<1>3. TypeOK'
  BY <1>0, <1>2, MigrationAssumption DEF IInv, TypeOK
<1>4. FileInv' /\ EnforcedWhere'
  BY <1>0 DEF IInv, FileInv, KeysInv, PassedIsDone, TimesMovedOnce, EnforcedWhere
<1>5. NoOrphanSchedules'
  <2>0. (\A u \in schedules : rows[u] > 0) /\ rows \in [Triples -> Nat] /\ schedules \subseteq Triples
    BY DEF IInv, TypeOK, KeysInv, NoOrphanSchedules
  <2>1. CASE Insert(p, t)
    BY <2>0, <2>1 DEF Insert, NoOrphanSchedules
  <2>2. CASE CreateSchedule(p, t)
    BY <1>1, <2>0, <2>2 DEF CreateSchedule, NoOrphanSchedules
  <2>3. CASE Delete(p, t)
    <3>1. schedules' = schedules \ {t} \/ (rows[t] > 1 /\ schedules' = schedules)
      BY <1>1, <2>3 DEF Delete
    <3>2. \A u \in Triples : rows'[u] = IF u = t THEN rows[u] - 1 ELSE rows[u]
      BY <2>0, <2>3 DEF Delete
    <3>3. ASSUME NEW u \in schedules' PROVE rows'[u] > 0
      <4>1. u \in schedules /\ u \in Triples /\ rows[u] > 0 /\ rows[u] \in Nat
        BY <2>0, <3>1
      <4> QED
        BY <3>1, <3>2, <4>1
    <3> QED
      BY <3>3 DEF NoOrphanSchedules
  <2> QED
    BY <2>1, <2>2, <2>3
<1> QED
  BY <1>3, <1>4, <1>5 DEF IInv, KeysInv

\* Every step preserves the invariant.
LEMMA NextIInv == IInv /\ [Next]_vars => IInv'
<1> SUFFICES ASSUME IInv, [Next]_vars PROVE IInv'
  OBVIOUS
<1>1. CASE UNCHANGED vars
  BY <1>1 DEF IInv, TypeOK, FileInv, KeysInv, PassedIsDone, TimesMovedOnce, EnforcedWhere,
       NoOrphanSchedules, vars, fileVars, procVars
<1>2. CASE Next
  <2> PICK p \in Procs :
        \/ Open(p) \/ Restart(p) \/ Crash(p)
        \/ \E t \in Triples : Insert(p, t) \/ CreateSchedule(p, t) \/ Delete(p, t)
    BY <1>2 DEF Next
  <2>1. CASE Open(p)
    BY <2>1, OpenPreserves
  <2>2. CASE Restart(p)
    <3>0. /\ stage[p] = Down /\ Goto(p, Pragmas)
          /\ UNCHANGED <<tables, old, index, rows, schedules, groups, times, enforcing, needed, edits, crashes>>
      BY <2>2 DEF Restart, fileVars
    <3>1. TypeOK'
      BY <3>0, Stages DEF IInv, TypeOK, Goto
    <3>2. FileInv'
      <4>1. TimesMovedOnce'
        BY <3>0 DEF IInv, FileInv, TimesMovedOnce
      <4> QED
        BY <3>0, <4>1, Stages, FileFrame DEF IInv, TypeOK
    <3>3. KeysInv'
      <4>1. p \notin enforcing
        BY <3>0 DEF IInv, KeysInv, EnforcedWhere
      <4> QED
        BY <3>0, <4>1, Stages, KeysFrame DEF IInv
    <3> QED
      BY <3>1, <3>2, <3>3 DEF IInv
  <2>3. CASE Crash(p)
    <3>1. crashes' \in 0 .. MaxCrashes /\ edits' \in 0 .. MaxEdits
      BY <2>3, MigrationAssumption DEF IInv, TypeOK, Crash
    <3> QED
      BY <2>3, <3>1, FailPreserves DEF Crash
  <2>4. CASE \E t \in Triples : Insert(p, t) \/ CreateSchedule(p, t) \/ Delete(p, t)
    BY <2>4, EditPreserves
  <2> QED
    BY <2>1, <2>2, <2>3, <2>4
<1> QED
  BY <1>1, <1>2

\* The invariant holds in every behaviour of Open.
LEMMA Invariance == Spec => []IInv
BY InitIInv, NextIInv, PTL DEF Spec

\* The variables of registry.Open's model keep their types.
THEOREM TypeCorrect == Spec => []TypeOK
<1>1. IInv => TypeOK
  BY DEF IInv
<1> QED
  BY <1>1, Invariance, PTL

\* For any number of processes and any earlier file: when Open returns to one of them, no
\* outdated table or column is left, and none comes back.
THEOREM OpenedSeesCurrent == Spec => []OpenedIsCurrent
<1>1. IInv => OpenedIsCurrent
  BY Stages DEF IInv, TypeOK, FileInv, PassedIsDone, OpenedIsCurrent
<1> QED
  BY <1>1, Invariance, PTL

\* However many processes race to migrate it, the time of a shared schedule is copied once.
THEOREM TimesAreMovedOnce == Spec => []TimesMovedOnce
<1>1. IInv => TimesMovedOnce
  BY DEF IInv, FileInv
<1> QED
  BY <1>1, Invariance, PTL

\* No deletion, rebuild or crash leaves a schedule without its database.
THEOREM NoOrphans == Spec => []NoOrphanSchedules
<1>1. IInv => NoOrphanSchedules
  BY DEF IInv, KeysInv
<1> QED
  BY <1>1, Invariance, PTL

\* The rebuild of databases deletes no schedule, in whatever order the processes run: the
\* process that drops the table does not enforce foreign keys.
THEOREM SchedulesAreKept == Spec => SchedulesSurvive
<1> DEFINE Kept == \A t \in schedules \ schedules' : rows'[t] < rows[t]
<1>1. ASSUME IInv, [Next]_vars PROVE [Kept]_vars
  <2>1. UNCHANGED vars => schedules' = schedules
    BY DEF vars, fileVars
  <2>2. ASSUME NEW p \in Procs, RebuildDatabases(p) PROVE schedules' = schedules
    <3>1. p \notin enforcing
      BY <1>1, <2>2, Stages DEF RebuildDatabases, IInv, KeysInv, EnforcedWhere
    <3> QED
      BY <2>2, <3>1 DEF RebuildDatabases
  <2>3. ASSUME NEW p \in Procs, Open(p) PROVE schedules' = schedules
    BY <2>2, <2>3 DEF Open, SetPragmas, CreateTable, SchemaApplied, Check, Migrate,
       MigrateSharedScheduleTimes, MigrateNotifyChannelEvents, MigrateAgentIDColumn,
       MigrateDatabasesNameUniqueScope, ForeignKeysOff, ForeignKeyCheck,
       MigrateSharedScheduleNameColumn, AlterTable, CreateIndex, Fail, fileVars
  <2>4. ASSUME NEW p \in Procs, Restart(p) \/ Crash(p) PROVE schedules' = schedules
    BY <2>4 DEF Restart, Crash, Fail, fileVars
  <2>5. ASSUME NEW p \in Procs, NEW t \in Triples, Insert(p, t) \/ CreateSchedule(p, t) \/ Delete(p, t)
        PROVE  Kept
    <3>1. CASE Insert(p, t) \/ CreateSchedule(p, t)
      BY <3>1 DEF Insert, CreateSchedule
    <3>2. CASE Delete(p, t)
      <4>1. schedules \ schedules' \subseteq {t}
        BY <3>2 DEF Delete
      <4>2. rows'[t] < rows[t]
        BY <1>1, <3>2 DEF Delete, IInv, TypeOK
      <4> QED
        BY <4>1, <4>2
    <3> QED
      BY <2>5, <3>1, <3>2
  <2> QED
    BY <1>1, <2>1, <2>3, <2>4, <2>5 DEF Next
<1> QED
  BY <1>1, Invariance, PTL DEF Spec, SchedulesSurvive
==============================================================================
