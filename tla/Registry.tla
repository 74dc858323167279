------------------------------ MODULE Registry ------------------------------
(***************************************************************************)
(* The admin server's requests on the registry.  net/http runs every       *)
(* request in a goroutine of its own, and the handlers use no transaction: *)
(* the statements of two requests, and of the consumer, interleave freely. *)
(* A request also ends early, between two statements, when the browser     *)
(* goes away (its context is cancelled) or a statement fails.              *)
(*                                                                         *)
(* Databases, shared schedules ("groups") and notification channels are    *)
(* rows; a "link" is a row of shared_schedule_databases (group, database)  *)
(* or of database_notify_channels (database, channel); a "timer" is a row  *)
(* of schedules (of a database) or shared_schedule_times (of a group).     *)
(* Ids are AUTOINCREMENT: an id that was given out is not given out again. *)
(***************************************************************************)
EXTENDS FiniteSets

CONSTANTS
  DbIds, GroupIds, ChannelIds, TimerIds,
  Keys,       \* (name, agent_id, driver) triples
  Requests,   \* admin requests, each handled once
  Existing,   \* the rows that are there at the start
  None

Ids == DbIds \cup GroupIds \cup ChannelIds
Owners == DbIds \cup GroupIds

\* What the rows of an owner's link table may refer to.
LinksOf(o) == IF o \in GroupIds THEN DbIds ELSE ChannelIds
Links == {l \in Owners \X Ids : l[2] \in LinksOf(l[1])}

ASSUME RegistryAssumption ==
  /\ DbIds \cap GroupIds = {}
  /\ DbIds \cap ChannelIds = {}
  /\ GroupIds \cap ChannelIds = {}
  /\ Existing \subseteq Ids
  /\ None \notin Ids \cup Keys

VARIABLES
  alive,    \* rows of databases, shared_schedules and notify_channels
  used,     \* ids ever given out
  key,      \* database -> its triple, None before there is a row
  enabled,  \* the databases and groups whose enabled is 1
  links,
  timers,   \* rows of schedules and shared_schedule_times: timer -> owner, None for no row
  req,      \* the request's goroutine: where it is and its variables
  jobs,     \* request -> the job it pushed: its triple, and the database it is for
  filed     \* request -> the database its finished job was recorded under (0 is None)

tableVars == <<alive, used, key, enabled, links, timers>>
vars == <<tableVars, req, jobs, filed>>

NoJob == [db |-> None, key |-> None]
NewRequest == [at |-> "new", op |-> "none", id |-> None, chosen |-> {}, todo |-> {}, seen |-> FALSE]

\* A registry with some rows, any links between them, and no request under way.
Init ==
  /\ alive = Existing
  /\ used = Existing
  /\ key \in [DbIds -> Keys \cup {None}]
  /\ \A d \in DbIds : key[d] = None <=> d \notin Existing
  /\ \A d, e \in Existing \cap DbIds : key[d] = key[e] => d = e
  /\ enabled = Existing \cap Owners
  /\ links \in SUBSET {l \in Links : l[1] \in Existing /\ l[2] \in Existing}
  /\ timers = [i \in TimerIds |-> None]
  /\ req = [r \in Requests |-> NewRequest]
  /\ jobs = [r \in Requests |-> NoJob]
  /\ filed = [r \in Requests |-> None]

(***************************************************************************)
(* Statements.                                                             *)
(***************************************************************************)

\* Seeded fault: the index is missing.
NeverTaken(k, d) == FALSE

\* UNIQUE(name, agent_id, driver) rejects the triple k for the row d.
Taken(k, d) == \E e \in alive \cap DbIds : e # d /\ key[e] = k

Create(d, k, on) ==
  /\ alive' = alive \cup {d}
  /\ used' = used \cup {d}
  /\ key' = [key EXCEPT ![d] = k]
  /\ enabled' = IF on THEN enabled \cup {d} ELSE enabled \ {d}
  /\ UNCHANGED <<links, timers>>

\* Seeded fault: the row is written without looking whether it is still there.
UpdateBlindly(d, k, on) ==
  /\ key' = [key EXCEPT ![d] = k]
  /\ enabled' = IF on THEN enabled \cup {d} ELSE enabled \ {d}
  /\ UNCHANGED <<alive, used, links, timers>>

\* An UPDATE of a row that is gone changes nothing and is no error.
Update(d, k, on) ==
  /\ key' = IF d \in alive THEN [key EXCEPT ![d] = k] ELSE key
  /\ enabled' = IF d \in alive /\ on THEN enabled \cup {d} ELSE enabled \ {d}
  /\ UNCHANGED <<alive, used, links, timers>>

SetEnabled(x, on) ==
  /\ enabled' = IF x \in alive /\ on THEN enabled \cup {x} ELSE enabled \ {x}
  /\ UNCHANGED <<alive, used, key, links, timers>>

\* CreateSharedSchedule, CreateNotifyChannel: a row that starts enabled and without links.
InsertRow(x) ==
  /\ alive' = alive \cup {x}
  /\ used' = used \cup {x}
  /\ enabled' = enabled \cup ({x} \cap GroupIds)
  /\ UNCHANGED <<key, links, timers>>

\* Seeded fault: foreign_keys is off, and nothing is deleted along with the row.
DeleteNoCascade(x) ==
  /\ alive' = alive \ {x}
  /\ enabled' = enabled \ {x}
  /\ UNCHANGED <<used, key, links, timers>>

\* DELETE, with ON DELETE CASCADE on everything that refers to the row.
Delete(x) ==
  /\ alive' = alive \ {x}
  /\ enabled' = enabled \ {x}
  /\ links' = {l \in links : l[1] # x /\ l[2] # x}
  /\ timers' = [i \in TimerIds |-> IF timers[i] = x THEN None ELSE timers[i]]
  /\ UNCHANGED <<used, key>>

\* CreateSchedule, CreateSharedScheduleTime: the foreign key needs the owner.
CreateSchedule(i, x) ==
  /\ x \in alive
  /\ timers' = [timers EXCEPT ![i] = x]
  /\ UNCHANGED <<alive, used, key, enabled, links>>

\* DeleteSchedule, DeleteSharedScheduleTime
DeleteSchedule(i) ==
  /\ timers' = [timers EXCEPT ![i] = None]
  /\ UNCHANGED <<alive, used, key, enabled, links>>

\* An INSERT into a link table passes its foreign keys and its primary key.
Linkable(o, t) == o \in alive /\ t \in alive /\ <<o, t>> \notin links

\* GetByNameAgentDriver: the rows with this triple, of which the query returns the first.
Matches(k) == {d \in alive \cap DbIds : key[d] = k}

(***************************************************************************)
(* Handlers.  A handler is a chain of steps through req[r].at that ends in *)
(* "ok" (303), "error" (4xx or 5xx) or "missing" (404).                    *)
(***************************************************************************)

Final == {"ok", "error", "missing"}

At(r, step) == req[r].at = step
Goto(r, step) == req' = [req EXCEPT ![r].at = step]
Keep == UNCHANGED tableVars
NoJobs == UNCHANGED <<jobs, filed>>

\* The form does not parse or is refused, or the handler's first statement fails.
Reject(r) ==
  /\ At(r, "new")
  /\ Goto(r, "error")
  /\ Keep
  /\ NoJobs

\* The request goes on to overwrite the links of o with chosen.
BeginSave(r, o, chosen) ==
  req' = [req EXCEPT ![r] = [NewRequest EXCEPT !.at = "clear", !.op = "save", !.id = o, !.chosen = chosen]]

\* handleCreate
HandleCreate(r, d, k, on, chosen) ==
  /\ At(r, "new")
  /\ d \in DbIds \ used
  /\ IF Taken(k, d)
     THEN Goto(r, "error") /\ Keep
     ELSE Create(d, k, on) /\ BeginSave(r, d, chosen)
  /\ NoJobs

\* runMigrate: a line of databases.txt is created enabled and without links, or skipped if
\* its triple is taken.  Each line counts as a request of its own.
ImportLine(r, d, k) ==
  /\ At(r, "new")
  /\ d \in DbIds \ used
  /\ IF Taken(k, d) THEN Keep ELSE Create(d, k, TRUE)
  /\ Goto(r, "ok")
  /\ NoJobs

\* handleUpdate: the form may be of a database that has been deleted since.
HandleUpdate(r, d, k, on, chosen) ==
  /\ At(r, "new")
  /\ d \in DbIds \cap used
  /\ IF d \in alive /\ Taken(k, d)
     THEN Goto(r, "error") /\ Keep
     ELSE Update(d, k, on) /\ BeginSave(r, d, chosen)
  /\ NoJobs

\* handleSharedScheduleCreate; a form with no database ticked comes back with an error.
HandleSharedScheduleCreate(r, g, chosen) ==
  /\ At(r, "new")
  /\ g \in GroupIds \ used
  /\ IF chosen = {}
     THEN Goto(r, "error") /\ Keep
     ELSE InsertRow(g) /\ BeginSave(r, g, chosen)
  /\ NoJobs

\* handleSharedScheduleUpdate, up to the UPDATE of the name.
HandleSharedScheduleUpdate(r, g, chosen) ==
  /\ At(r, "new")
  /\ g \in GroupIds \cap used
  /\ \/ g \notin alive /\ Goto(r, "missing")
     \/ g \in alive /\ chosen = {} /\ Goto(r, "error")
     \/ g \in alive /\ chosen # {} /\ BeginSave(r, g, chosen)
  /\ Keep
  /\ NoJobs

\* Seeded fault: the old links are not deleted first.
ClearNothing(r) ==
  /\ At(r, "clear")
  /\ req' = [req EXCEPT ![r].at = "insert", ![r].todo = {t \in req[r].chosen : <<req[r].id, t>> \notin links}]
  /\ Keep
  /\ NoJobs

\* setSharedScheduleDatabases, SetDatabaseNotifyChannels: delete all links of the owner ...
Clear(r) ==
  /\ At(r, "clear")
  /\ links' = {l \in links : l[1] # req[r].id}
  /\ req' = [req EXCEPT ![r].at = "insert", ![r].todo = req[r].chosen]
  /\ UNCHANGED <<alive, used, key, enabled, timers>>
  /\ NoJobs

\* ... and insert the chosen ones, one by one.  The first that fails ends the request.
Insert(r, t) ==
  /\ At(r, "insert")
  /\ t \in req[r].todo
  /\ IF Linkable(req[r].id, t)
     THEN /\ links' = links \cup {<<req[r].id, t>>}
          /\ req' = [req EXCEPT ![r].todo = @ \ {t}]
          /\ UNCHANGED <<alive, used, key, enabled, timers>>
     ELSE Goto(r, "error") /\ Keep
  /\ NoJobs

Saved(r) ==
  /\ At(r, "insert")
  /\ req[r].todo = {}
  /\ Goto(r, "ok")
  /\ Keep
  /\ NoJobs

DeleteRow(r, x) ==
  /\ At(r, "new")
  /\ x \in used
  /\ Delete(x)
  /\ Goto(r, "ok")
  /\ NoJobs

HandleDelete(r, d) == d \in DbIds /\ DeleteRow(r, d)
HandleSharedScheduleDelete(r, g) == g \in GroupIds /\ DeleteRow(r, g)
HandleNotifyDelete(r, c) == c \in ChannelIds /\ DeleteRow(r, c)

\* handleNotifyAddTelegram
HandleNotifyAdd(r, c) ==
  /\ At(r, "new")
  /\ c \in ChannelIds \ used
  /\ InsertRow(c)
  /\ Goto(r, "ok")
  /\ NoJobs

\* handleNotifyUpdateTelegram: label and config are not modelled, only what the handler finds.
HandleNotifyUpdate(r, c) ==
  /\ At(r, "new")
  /\ c \in ChannelIds \cap used
  /\ Goto(r, IF c \in alive THEN "ok" ELSE "missing")
  /\ Keep
  /\ NoJobs

\* handleToggle, handleSharedScheduleToggle: read ...
HandleToggle(r, x) ==
  /\ At(r, "new")
  /\ x \in Owners \cap used
  /\ IF x \in alive
     THEN req' = [req EXCEPT ![r] = [NewRequest EXCEPT !.at = "set", !.op = "toggle", !.id = x, !.seen = x \in enabled]]
     ELSE Goto(r, "missing")
  /\ Keep
  /\ NoJobs

\* ... and write the opposite.
ToggleSets(r) ==
  /\ At(r, "set")
  /\ SetEnabled(req[r].id, ~req[r].seen)
  /\ Goto(r, "ok")
  /\ NoJobs

\* A page of an owner that has been deleted since can still post a time for it.
AddTimer(r, i, x) ==
  /\ At(r, "new")
  /\ timers[i] = None
  /\ x \in used
  /\ \/ CreateSchedule(i, x) /\ Goto(r, "ok")
     \/ x \notin alive /\ Keep /\ Goto(r, "error")
  /\ NoJobs

HandleAddSchedule(r, i, d) == d \in DbIds /\ AddTimer(r, i, d)
HandleAddSharedScheduleTime(r, i, g) == g \in GroupIds /\ AddTimer(r, i, g)

\* The row may go between the two statements, and the second one then deletes nothing.
DeleteTimer(r, i) ==
  /\ At(r, "new")
  /\ DeleteSchedule(i)
  /\ Goto(r, "ok")
  /\ NoJobs

NoTimer(r) == At(r, "new") /\ Keep /\ Goto(r, "missing") /\ NoJobs

\* Each handler looks in its own table: a time of a group is no row of schedules.
HandleDeleteSchedule(r, i) == IF timers[i] \in DbIds THEN DeleteTimer(r, i) ELSE NoTimer(r)
HandleDeleteSharedScheduleTime(r, i) == IF timers[i] \in GroupIds THEN DeleteTimer(r, i) ELSE NoTimer(r)

\* handleBackupNow, and likewise the scheduler and the backup command: the job carries the
\* triple read here, not the id of the database.
HandleBackupNow(r, d) ==
  /\ At(r, "new")
  /\ d \in DbIds \cap used
  /\ \/ d \in alive /\ Goto(r, "ok") /\ jobs' = [jobs EXCEPT ![r] = [db |-> d, key |-> key[d]]]
     \/ d \in alive /\ Goto(r, "error") /\ UNCHANGED jobs   \* the push fails
     \/ d \notin alive /\ Goto(r, "missing") /\ UNCHANGED jobs
  /\ Keep
  /\ UNCHANGED filed

\* The consumer has finished the job and files it under the row it finds by the triple.
FileJob(r) ==
  /\ jobs[r].key # None
  /\ \E d \in IF Matches(jobs[r].key) = {} THEN {None} ELSE Matches(jobs[r].key) :
       filed' = [filed EXCEPT ![r] = d]
  /\ jobs' = [jobs EXCEPT ![r].key = None]
  /\ Keep
  /\ UNCHANGED req

\* The browser has gone or the next statement fails.
Abort(r) ==
  /\ req[r].at \in {"clear", "insert", "set"}
  /\ Goto(r, "error")
  /\ Keep
  /\ NoJobs

Handle(r) ==
  \/ \E d \in DbIds, k \in Keys, on \in BOOLEAN, chosen \in SUBSET ChannelIds :
       HandleCreate(r, d, k, on, chosen) \/ HandleUpdate(r, d, k, on, chosen)
  \/ \E d \in DbIds, k \in Keys : ImportLine(r, d, k)
  \/ \E g \in GroupIds, chosen \in SUBSET DbIds :
       HandleSharedScheduleCreate(r, g, chosen) \/ HandleSharedScheduleUpdate(r, g, chosen)
  \/ \E x \in Ids : HandleDelete(r, x) \/ HandleSharedScheduleDelete(r, x) \/ HandleNotifyDelete(r, x)
  \/ \E c \in ChannelIds : HandleNotifyAdd(r, c) \/ HandleNotifyUpdate(r, c)
  \/ \E x \in Owners : HandleToggle(r, x)
  \/ \E i \in TimerIds, x \in Owners : HandleAddSchedule(r, i, x) \/ HandleAddSharedScheduleTime(r, i, x)
  \/ \E i \in TimerIds : HandleDeleteSchedule(r, i) \/ HandleDeleteSharedScheduleTime(r, i)
  \/ Reject(r)
  \/ \E d \in DbIds : HandleBackupNow(r, d)

Continue(r) ==
  \/ Clear(r) \/ (\E t \in Ids : Insert(r, t)) \/ Saved(r)
  \/ ToggleSets(r) \/ Abort(r)

Next == \E r \in Requests : Handle(r) \/ Continue(r) \/ FileJob(r)

Spec == Init /\ [][Next]_vars

(***************************************************************************)
(* Properties.                                                             *)
(***************************************************************************)

Request ==
  [at : {"new", "clear", "insert", "set"} \cup Final, op : {"none", "save", "toggle"},
   id : Ids \cup {None}, chosen : SUBSET Ids, todo : SUBSET Ids, seen : BOOLEAN]

TablesOK ==
  /\ alive \subseteq used
  /\ used \subseteq Ids
  /\ key \in [DbIds -> Keys \cup {None}]
  /\ enabled \subseteq alive \cap Owners
  /\ links \subseteq Links
  /\ timers \in [TimerIds -> Owners \cup {None}]
  /\ jobs \in [Requests -> [db : DbIds \cup {None}, key : Keys \cup {None}]]
  /\ filed \in [Requests -> DbIds \cup {None}]

\* Every variable stays in its type; a row that is there has been given out, and only a
\* database or a group that is there is enabled.
TypeOK == TablesOK /\ req \in [Requests -> Request]

\* Whatever requests interleave, no link and no timer refers to a row that is gone: the
\* scheduler and the notifier never meet one in their joins.
NothingDangles ==
  /\ \A l \in links : l[1] \in alive /\ l[2] \in alive
  /\ \A i \in TimerIds : timers[i] # None => timers[i] \in alive

\* A job whose database is still there and still has the same triple is filed under that
\* database and notifies its channels: no two rows ever share a triple.
ResolvesToOwn ==
  \A r \in Requests :
    jobs[r].key # None /\ jobs[r].db \in alive /\ key[jobs[r].db] = jobs[r].key
      => Matches(jobs[r].key) = {jobs[r].db}

LinkedTo(o) == {l[2] : l \in {m \in links : m[1] = o}}

SaversOf(o) == {r \in Requests : req[r].op = "save" /\ req[r].id = o}

\* If nobody else saves the same form, a save that was answered with success has left exactly
\* the chosen links, less the rows that were deleted since.
SavedIsChosen ==
  \A r \in Requests :
    At(r, "ok") /\ SaversOf(req[r].id) = {r} /\ req[r].id \in alive
      => LinkedTo(req[r].id) = req[r].chosen \cap alive

(***************************************************************************)
(* The inductive invariant behind the properties, part by part.            *)
(***************************************************************************)

KeysDiffer == \A d, e \in alive \cap DbIds : key[d] = key[e] => d = e

\* What a request knows of the form it saves or of the row it toggles.
RequestOK(r) ==
  /\ At(r, "new") => req[r].op = "none"
  /\ req[r].at \in {"clear", "insert"} => req[r].op = "save"
  /\ At(r, "set") => req[r].op = "toggle" /\ req[r].id \in Owners
  /\ req[r].op = "save" =>
       /\ req[r].id \in Owners \cap used
       /\ req[r].chosen \subseteq LinksOf(req[r].id)
       /\ req[r].todo \subseteq req[r].chosen
       /\ At(r, "insert") => req[r].chosen \ req[r].todo \subseteq used
       /\ At(r, "ok") => req[r].todo = {} /\ req[r].chosen \subseteq used

RequestsOK == \A r \in Requests : RequestOK(r)

\* How far a save that nobody interferes with has come.
SaveInProgress ==
  \A r \in Requests :
    SaversOf(req[r].id) = {r} /\ req[r].at \in {"insert", "ok"} /\ req[r].id \in alive
      => LinkedTo(req[r].id) = (req[r].chosen \ req[r].todo) \cap alive

IInv == TypeOK /\ NothingDangles /\ KeysDiffer /\ RequestsOK /\ SaveInProgress
==============================================================================
