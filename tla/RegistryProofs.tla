--------------------------- MODULE RegistryProofs ---------------------------
(***************************************************************************)
(* Proofs about Registry, for any number of rows, requests and triples.    *)
(* The invariants are proved together: that a link has its type needs what *)
(* a request knows of its form (RequestsOK), and that a save leaves what   *)
(* was chosen needs how far it has come (SaveInProgress).                  *)
(***************************************************************************)
EXTENDS Registry, TLAPS

\* The empty registry satisfies the invariant.
LEMMA InitIInv == Init => IInv
<1> SUFFICES ASSUME Init PROVE IInv
    OBVIOUS
<1> USE RegistryAssumption
<1>1. TypeOK
      BY DEF Init, TypeOK, TablesOK, Request, NewRequest, NoJob, Ids, Owners, Links
<1>2. NothingDangles
      BY DEF Init, NothingDangles, Links
<1>3. KeysDiffer
      BY DEF Init, KeysDiffer
<1>4. RequestsOK
      BY DEF Init, RequestsOK, RequestOK, At, NewRequest
<1>5. SaveInProgress
      BY DEF Init, SaveInProgress, NewRequest
<1> QED
    BY <1>1, <1>2, <1>3, <1>4, <1>5 DEF IInv

\* The cases that the proofs below go through: one per handler or continuation, where
\* handlers that do the same in their own tables are one case.
LEMMA HandlerCases ==
  ASSUME NEW r \in Requests, Handle(r) \/ Continue(r) \/ FileJob(r)
  PROVE
         \/ \E d \in DbIds, k \in Keys, on \in BOOLEAN, chosen \in SUBSET ChannelIds : HandleCreate(r, d, k, on, chosen)
         \/ \E d \in DbIds, k \in Keys, on \in BOOLEAN, chosen \in SUBSET ChannelIds : HandleUpdate(r, d, k, on, chosen)
         \/ \E g \in GroupIds, chosen \in SUBSET DbIds : HandleSharedScheduleCreate(r, g, chosen)
         \/ \E g \in GroupIds, chosen \in SUBSET DbIds : HandleSharedScheduleUpdate(r, g, chosen)
         \/ \E x \in Ids : DeleteRow(r, x)
         \/ \E c \in ChannelIds : HandleNotifyAdd(r, c)
         \/ \E x \in Owners : HandleToggle(r, x)
         \/ \E i \in TimerIds, x \in Owners : AddTimer(r, i, x)
         \/ \E i \in TimerIds : DeleteTimer(r, i)
         \/ \E d \in DbIds : HandleBackupNow(r, d)
         \/ Clear(r)
         \/ \E t \in Ids : Insert(r, t)
         \/ Saved(r)
         \/ ToggleSets(r)
         \/ Abort(r)
         \/ FileJob(r)
         \/ NoTimer(r)
         \/ \E c \in ChannelIds : HandleNotifyUpdate(r, c)
         \/ Reject(r)
         \/ \E d \in DbIds, k \in Keys : ImportLine(r, d, k)
BY DEF Handle, Continue, HandleDelete, HandleSharedScheduleDelete, HandleNotifyDelete,
   HandleAddSchedule,
   HandleAddSharedScheduleTime, HandleDeleteSchedule, HandleDeleteSharedScheduleTime

\* A request that goes on to its next statement is well typed.
LEMMA GotoType ==
  ASSUME TypeOK, NEW r \in Requests, NEW step \in {"new", "clear", "insert", "set"} \cup Final, Goto(r, step)
  PROVE  req' \in [Requests -> Request]
BY DEF Goto, TypeOK, Request

\* A request that begins a save is well typed.
LEMMA BeginSaveType ==
  ASSUME TypeOK, NEW r \in Requests, NEW o \in Ids, NEW chosen \in SUBSET Ids, BeginSave(r, o, chosen)
  PROVE  req' \in [Requests -> Request]
BY DEF BeginSave, NewRequest, TypeOK, Request

\* Types of the requests' variables.
LEMMA RequestTypeStep ==
  ASSUME IInv, NEW r \in Requests, Handle(r) \/ Continue(r) \/ FileJob(r)
  PROVE  (req \in [Requests -> Request])'
<1> USE RegistryAssumption DEF IInv
<1>1. CASE \E d \in DbIds, k \in Keys, on \in BOOLEAN, chosen \in SUBSET ChannelIds :
           HandleCreate(r, d, k, on, chosen)
      BY <1>1, GotoType, BeginSaveType DEF HandleCreate, Final, Ids
<1>2. CASE \E d \in DbIds, k \in Keys, on \in BOOLEAN, chosen \in SUBSET ChannelIds :
           HandleUpdate(r, d, k, on, chosen)
      BY <1>2, GotoType, BeginSaveType DEF HandleUpdate, Final, Ids
<1>3. CASE \E g \in GroupIds, chosen \in SUBSET DbIds :
           HandleSharedScheduleCreate(r, g, chosen)
      BY <1>3, GotoType, BeginSaveType DEF HandleSharedScheduleCreate, Final, Ids
<1>4. CASE \E g \in GroupIds, chosen \in SUBSET DbIds :
           HandleSharedScheduleUpdate(r, g, chosen)
      BY <1>4, GotoType, BeginSaveType DEF HandleSharedScheduleUpdate, Final, Ids
<1>5. CASE \E x \in Ids : DeleteRow(r, x)
      BY <1>5, GotoType DEF DeleteRow, Final
<1>6. CASE \E c \in ChannelIds : HandleNotifyAdd(r, c)
      BY <1>6, GotoType DEF HandleNotifyAdd, Final
<1>7. CASE \E x \in Owners : HandleToggle(r, x)
      <2>1. PICK x \in Owners : HandleToggle(r, x)
            BY <1>7
      <2>2. CASE x \in alive
            <3>1. req' = [req EXCEPT ![r] = [NewRequest EXCEPT !.at = "set", !.op = "toggle", !.id = x, !.seen = x \in enabled]]
                  BY <2>1, <2>2 DEF HandleToggle
            <3>2. \A b \in BOOLEAN : [NewRequest EXCEPT !.at = "set", !.op = "toggle", !.id = x, !.seen = b] \in Request
                  BY DEF NewRequest, Request, Ids, Owners
            <3>3. [NewRequest EXCEPT !.at = "set", !.op = "toggle", !.id = x, !.seen = x \in enabled] \in Request
                  <4>1. (x \in enabled) \in BOOLEAN
                        BY SMT
                  <4> QED
                      BY <3>2, <4>1, Zenon
            <3> QED
                BY <3>1, <3>3 DEF TypeOK
      <2>3. CASE x \notin alive
            BY <2>1, <2>3, GotoType DEF HandleToggle, Final
      <2> QED
          BY <2>2, <2>3
<1>8. CASE \E i \in TimerIds, x \in Owners : AddTimer(r, i, x)
      BY <1>8, GotoType DEF AddTimer, Final
<1>9. CASE \E i \in TimerIds : DeleteTimer(r, i)
      BY <1>9, GotoType DEF DeleteTimer, Final
<1>10. CASE \E d \in DbIds : HandleBackupNow(r, d)
      BY <1>10, GotoType DEF HandleBackupNow, Final
<1>11. CASE Clear(r)
      <2>1. req' = [req EXCEPT ![r] = [req[r] EXCEPT !.at = "insert", !.todo = req[r].chosen]]
            BY <1>11 DEF Clear
      <2>2. [req[r] EXCEPT !.at = "insert", !.todo = req[r].chosen] \in Request
            BY DEF TypeOK, Request
      <2> QED
          BY <2>1, <2>2 DEF TypeOK
<1>12. CASE \E t \in Ids : Insert(r, t)
      BY <1>12, GotoType DEF Insert, Final, TypeOK, Request
<1>13. CASE Saved(r)
      BY <1>13, GotoType DEF Saved, Final
<1>14. CASE ToggleSets(r)
      BY <1>14, GotoType DEF ToggleSets, Final
<1>15. CASE Abort(r)
      BY <1>15, GotoType DEF Abort, Final
<1>16. CASE FileJob(r)
      BY <1>16 DEF FileJob, TypeOK
<1>17. CASE NoTimer(r)
      BY <1>17, GotoType DEF NoTimer, Final
<1>18. CASE \E c \in ChannelIds : HandleNotifyUpdate(r, c)
      BY <1>18, GotoType DEF HandleNotifyUpdate, Final
<1>19. CASE Reject(r)
      BY <1>19, GotoType DEF Reject, Final
<1>20. CASE \E d \in DbIds, k \in Keys : ImportLine(r, d, k)
      BY <1>20, GotoType DEF ImportLine, Final
<1> QED
    BY <1>1, <1>2, <1>3, <1>4, <1>5, <1>6, <1>7, <1>8, <1>9, <1>10, <1>11, <1>12, <1>13, <1>14,
       <1>15, <1>16, <1>17, <1>18, <1>19, <1>20, HandlerCases

\* Types of the tables: Insert makes a link of what the request remembers.
LEMMA TableTypeStep ==
  ASSUME IInv, NEW r \in Requests, Handle(r) \/ Continue(r) \/ FileJob(r)
  PROVE  TablesOK'
<1> USE RegistryAssumption DEF IInv
<1>1. CASE \E d \in DbIds, k \in Keys, on \in BOOLEAN, chosen \in SUBSET ChannelIds :
           HandleCreate(r, d, k, on, chosen)
      BY <1>1 DEF HandleCreate, Create, Taken, Keep, NoJobs, tableVars, TypeOK, TablesOK, Ids,
         Owners
<1>2. CASE \E d \in DbIds, k \in Keys, on \in BOOLEAN, chosen \in SUBSET ChannelIds :
           HandleUpdate(r, d, k, on, chosen)
      BY <1>2 DEF HandleUpdate, Update, Taken, Keep, NoJobs, tableVars, TypeOK, TablesOK, Ids,
         Owners
<1>3. CASE \E g \in GroupIds, chosen \in SUBSET DbIds :
           HandleSharedScheduleCreate(r, g, chosen)
      BY <1>3 DEF HandleSharedScheduleCreate, InsertRow, Keep, NoJobs, tableVars, TypeOK,
         TablesOK, Ids, Owners
<1>4. CASE \E g \in GroupIds, chosen \in SUBSET DbIds :
           HandleSharedScheduleUpdate(r, g, chosen)
      BY <1>4 DEF HandleSharedScheduleUpdate, Keep, NoJobs, tableVars, TypeOK, TablesOK, Ids,
         Owners
<1>5. CASE \E x \in Ids : DeleteRow(r, x)
      BY <1>5 DEF DeleteRow, Delete, NoJobs, TypeOK, TablesOK, Ids, Owners
<1>6. CASE \E c \in ChannelIds : HandleNotifyAdd(r, c)
      BY <1>6 DEF HandleNotifyAdd, InsertRow, NoJobs, TypeOK, TablesOK, Ids, Owners
<1>7. CASE \E x \in Owners : HandleToggle(r, x)
      BY <1>7 DEF HandleToggle, Keep, NoJobs, tableVars, TypeOK, TablesOK, Ids, Owners
<1>8. CASE \E i \in TimerIds, x \in Owners : AddTimer(r, i, x)
      BY <1>8 DEF AddTimer, CreateSchedule, Keep, NoJobs, tableVars, TypeOK, TablesOK, Ids,
         Owners
<1>9. CASE \E i \in TimerIds : DeleteTimer(r, i)
      BY <1>9 DEF DeleteTimer, DeleteSchedule, NoJobs, TypeOK, TablesOK, Ids, Owners
<1>10. CASE \E d \in DbIds : HandleBackupNow(r, d)
      BY <1>10 DEF HandleBackupNow, Keep, NoJobs, tableVars, TypeOK, TablesOK, Ids, Owners
<1>11. CASE Clear(r)
      BY <1>11 DEF Clear, NoJobs, TypeOK, TablesOK, Ids, Owners
<1>12. CASE \E t \in Ids : Insert(r, t)
      <2>1. PICK t \in Ids : Insert(r, t)
            BY <1>12
      <2>2. Linkable(req[r].id, t) => <<req[r].id, t>> \in Links
            BY <2>1 DEF Insert, At, RequestsOK, RequestOK, Links, Owners
      <2> QED
          BY <2>1, <2>2 DEF Insert, Linkable, Keep, NoJobs, tableVars, TypeOK, TablesOK
<1>13. CASE Saved(r)
      BY <1>13 DEF Saved, Keep, NoJobs, tableVars, TypeOK, TablesOK, Ids, Owners
<1>14. CASE ToggleSets(r)
      BY <1>14 DEF ToggleSets, SetEnabled, At, NoJobs, TypeOK, TablesOK, RequestsOK, RequestOK
<1>15. CASE Abort(r)
      BY <1>15 DEF Abort, Keep, NoJobs, tableVars, TypeOK, TablesOK, Ids, Owners
<1>16. CASE FileJob(r)
      BY <1>16 DEF FileJob, Matches, Keep, NoJobs, tableVars, TypeOK, TablesOK, Ids, Owners
<1>17. CASE NoTimer(r)
      BY <1>17 DEF NoTimer, Keep, NoJobs, tableVars, TypeOK, TablesOK, Ids, Owners
<1>18. CASE \E c \in ChannelIds : HandleNotifyUpdate(r, c)
      BY <1>18 DEF HandleNotifyUpdate, Keep, NoJobs, tableVars, TypeOK, TablesOK, Ids, Owners
<1>19. CASE Reject(r)
      BY <1>19 DEF Reject, Keep, NoJobs, tableVars, TypeOK, TablesOK, Ids, Owners
<1>20. CASE \E d \in DbIds, k \in Keys : ImportLine(r, d, k)
      BY <1>20 DEF ImportLine, Create, Taken, Keep, NoJobs, tableVars, TypeOK, TablesOK, Ids,
         Owners
<1> QED
    BY <1>1, <1>2, <1>3, <1>4, <1>5, <1>6, <1>7, <1>8, <1>9, <1>10, <1>11, <1>12, <1>13, <1>14,
       <1>15, <1>16, <1>17, <1>18, <1>19, <1>20, HandlerCases

\* Foreign keys: an INSERT looks for both ends, a DELETE takes along what refers to the row.
LEMMA DangleStep ==
  ASSUME IInv, NEW r \in Requests, Handle(r) \/ Continue(r) \/ FileJob(r)
  PROVE  NothingDangles'
<1> USE RegistryAssumption DEF IInv
<1>1. CASE \E d \in DbIds, k \in Keys, on \in BOOLEAN, chosen \in SUBSET ChannelIds :
           HandleCreate(r, d, k, on, chosen)
      BY <1>1 DEF HandleCreate, Create, Taken, Keep, tableVars, TypeOK, TablesOK, NothingDangles
<1>2. CASE \E d \in DbIds, k \in Keys, on \in BOOLEAN, chosen \in SUBSET ChannelIds :
           HandleUpdate(r, d, k, on, chosen)
      BY <1>2 DEF HandleUpdate, Update, Taken, Keep, tableVars, TypeOK, TablesOK, NothingDangles
<1>3. CASE \E g \in GroupIds, chosen \in SUBSET DbIds :
           HandleSharedScheduleCreate(r, g, chosen)
      BY <1>3 DEF HandleSharedScheduleCreate, InsertRow, Keep, tableVars, TypeOK, TablesOK,
         NothingDangles
<1>4. CASE \E g \in GroupIds, chosen \in SUBSET DbIds :
           HandleSharedScheduleUpdate(r, g, chosen)
      BY <1>4 DEF HandleSharedScheduleUpdate, Keep, tableVars, TypeOK, TablesOK, NothingDangles
<1>5. CASE \E x \in Ids : DeleteRow(r, x)
      BY <1>5 DEF DeleteRow, Delete, TypeOK, TablesOK, NothingDangles
<1>6. CASE \E c \in ChannelIds : HandleNotifyAdd(r, c)
      BY <1>6 DEF HandleNotifyAdd, InsertRow, TypeOK, TablesOK, NothingDangles
<1>7. CASE \E x \in Owners : HandleToggle(r, x)
      BY <1>7 DEF HandleToggle, Keep, tableVars, TypeOK, TablesOK, NothingDangles
<1>8. CASE \E i \in TimerIds, x \in Owners : AddTimer(r, i, x)
      BY <1>8 DEF AddTimer, CreateSchedule, Keep, tableVars, TypeOK, TablesOK, NothingDangles
<1>9. CASE \E i \in TimerIds : DeleteTimer(r, i)
      BY <1>9 DEF DeleteTimer, DeleteSchedule, TypeOK, TablesOK, NothingDangles
<1>10. CASE \E d \in DbIds : HandleBackupNow(r, d)
      BY <1>10 DEF HandleBackupNow, Keep, tableVars, TypeOK, TablesOK, NothingDangles
<1>11. CASE Clear(r)
      BY <1>11 DEF Clear, TypeOK, TablesOK, NothingDangles
<1>12. CASE \E t \in Ids : Insert(r, t)
      BY <1>12 DEF Insert, Linkable, Keep, tableVars, TypeOK, TablesOK, NothingDangles
<1>13. CASE Saved(r)
      BY <1>13 DEF Saved, Keep, tableVars, TypeOK, TablesOK, NothingDangles
<1>14. CASE ToggleSets(r)
      BY <1>14 DEF ToggleSets, SetEnabled, TypeOK, TablesOK, NothingDangles
<1>15. CASE Abort(r)
      BY <1>15 DEF Abort, Keep, tableVars, TypeOK, TablesOK, NothingDangles
<1>16. CASE FileJob(r)
      BY <1>16 DEF FileJob, Matches, Keep, tableVars, TypeOK, TablesOK, NothingDangles
<1>17. CASE NoTimer(r)
      BY <1>17 DEF NoTimer, Keep, tableVars, TypeOK, TablesOK, NothingDangles
<1>18. CASE \E c \in ChannelIds : HandleNotifyUpdate(r, c)
      BY <1>18 DEF HandleNotifyUpdate, Keep, tableVars, TypeOK, TablesOK, NothingDangles
<1>19. CASE Reject(r)
      BY <1>19 DEF Reject, Keep, tableVars, TypeOK, TablesOK, NothingDangles
<1>20. CASE \E d \in DbIds, k \in Keys : ImportLine(r, d, k)
      BY <1>20 DEF ImportLine, Create, Taken, Keep, tableVars, TypeOK, TablesOK, NothingDangles
<1> QED
    BY <1>1, <1>2, <1>3, <1>4, <1>5, <1>6, <1>7, <1>8, <1>9, <1>10, <1>11, <1>12, <1>13, <1>14,
       <1>15, <1>16, <1>17, <1>18, <1>19, <1>20, HandlerCases

\* The unique index: only Create and Update write a triple.
LEMMA KeyStep ==
  ASSUME IInv, NEW r \in Requests, Handle(r) \/ Continue(r) \/ FileJob(r)
  PROVE  KeysDiffer'
<1> USE RegistryAssumption DEF IInv
<1>1. CASE \E d \in DbIds, k \in Keys, on \in BOOLEAN, chosen \in SUBSET ChannelIds :
           HandleCreate(r, d, k, on, chosen)
      BY <1>1 DEF HandleCreate, Create, Taken, Keep, tableVars, TypeOK, TablesOK, KeysDiffer
<1>2. CASE \E d \in DbIds, k \in Keys, on \in BOOLEAN, chosen \in SUBSET ChannelIds :
           HandleUpdate(r, d, k, on, chosen)
      BY <1>2 DEF HandleUpdate, Update, Taken, Keep, tableVars, TypeOK, TablesOK, KeysDiffer
<1>3. CASE \E g \in GroupIds, chosen \in SUBSET DbIds :
           HandleSharedScheduleCreate(r, g, chosen)
      BY <1>3 DEF HandleSharedScheduleCreate, InsertRow, Keep, tableVars, TypeOK, TablesOK,
         KeysDiffer
<1>4. CASE \E g \in GroupIds, chosen \in SUBSET DbIds :
           HandleSharedScheduleUpdate(r, g, chosen)
      BY <1>4 DEF HandleSharedScheduleUpdate, Keep, tableVars, TypeOK, TablesOK, KeysDiffer
<1>5. CASE \E x \in Ids : DeleteRow(r, x)
      BY <1>5 DEF DeleteRow, Delete, TypeOK, TablesOK, KeysDiffer
<1>6. CASE \E c \in ChannelIds : HandleNotifyAdd(r, c)
      BY <1>6 DEF HandleNotifyAdd, InsertRow, TypeOK, TablesOK, KeysDiffer
<1>7. CASE \E x \in Owners : HandleToggle(r, x)
      BY <1>7 DEF HandleToggle, Keep, tableVars, TypeOK, TablesOK, KeysDiffer
<1>8. CASE \E i \in TimerIds, x \in Owners : AddTimer(r, i, x)
      BY <1>8 DEF AddTimer, CreateSchedule, Keep, tableVars, TypeOK, TablesOK, KeysDiffer
<1>9. CASE \E i \in TimerIds : DeleteTimer(r, i)
      BY <1>9 DEF DeleteTimer, DeleteSchedule, TypeOK, TablesOK, KeysDiffer
<1>10. CASE \E d \in DbIds : HandleBackupNow(r, d)
      BY <1>10 DEF HandleBackupNow, Keep, tableVars, TypeOK, TablesOK, KeysDiffer
<1>11. CASE Clear(r)
      BY <1>11 DEF Clear, TypeOK, TablesOK, KeysDiffer
<1>12. CASE \E t \in Ids : Insert(r, t)
      BY <1>12 DEF Insert, Linkable, Keep, tableVars, TypeOK, TablesOK, KeysDiffer
<1>13. CASE Saved(r)
      BY <1>13 DEF Saved, Keep, tableVars, TypeOK, TablesOK, KeysDiffer
<1>14. CASE ToggleSets(r)
      BY <1>14 DEF ToggleSets, SetEnabled, TypeOK, TablesOK, KeysDiffer
<1>15. CASE Abort(r)
      BY <1>15 DEF Abort, Keep, tableVars, TypeOK, TablesOK, KeysDiffer
<1>16. CASE FileJob(r)
      BY <1>16 DEF FileJob, Matches, Keep, tableVars, TypeOK, TablesOK, KeysDiffer
<1>17. CASE NoTimer(r)
      BY <1>17 DEF NoTimer, Keep, tableVars, TypeOK, TablesOK, KeysDiffer
<1>18. CASE \E c \in ChannelIds : HandleNotifyUpdate(r, c)
      BY <1>18 DEF HandleNotifyUpdate, Keep, tableVars, TypeOK, TablesOK, KeysDiffer
<1>19. CASE Reject(r)
      BY <1>19 DEF Reject, Keep, tableVars, TypeOK, TablesOK, KeysDiffer
<1>20. CASE \E d \in DbIds, k \in Keys : ImportLine(r, d, k)
      BY <1>20 DEF ImportLine, Create, Taken, Keep, tableVars, TypeOK, TablesOK, KeysDiffer
<1> QED
    BY <1>1, <1>2, <1>3, <1>4, <1>5, <1>6, <1>7, <1>8, <1>9, <1>10, <1>11, <1>12, <1>13, <1>14,
       <1>15, <1>16, <1>17, <1>18, <1>19, <1>20, HandlerCases

\* What one step of r's handler leaves alone: the other requests, the ids given out, what
\* form r itself saves, and the rows that are gone.
Frame(r) ==
  /\ \A q \in Requests \ {r} : req'[q] = req[q]
  /\ used \subseteq used'
  /\ \A x \in used : x \in alive' => x \in alive
  /\ req[r].op = "save" => req'[r].op = "save" /\ req'[r].id = req[r].id

\* A step of r keeps to its frame.
LEMMA FrameStep ==
  ASSUME IInv, NEW r \in Requests, Handle(r) \/ Continue(r) \/ FileJob(r)
  PROVE  Frame(r)
<1> USE RegistryAssumption DEF IInv
<1>1. CASE \E d \in DbIds, k \in Keys, on \in BOOLEAN, chosen \in SUBSET ChannelIds :
           HandleCreate(r, d, k, on, chosen)
      BY <1>1 DEF HandleCreate, Create, BeginSave, Goto, NewRequest, At, Keep, tableVars,
         TypeOK, TablesOK, Frame, RequestsOK, RequestOK
<1>2. CASE \E d \in DbIds, k \in Keys, on \in BOOLEAN, chosen \in SUBSET ChannelIds :
           HandleUpdate(r, d, k, on, chosen)
      BY <1>2 DEF HandleUpdate, Update, BeginSave, Goto, NewRequest, At, Keep, tableVars,
         TypeOK, TablesOK, Frame, RequestsOK, RequestOK
<1>3. CASE \E g \in GroupIds, chosen \in SUBSET DbIds :
           HandleSharedScheduleCreate(r, g, chosen)
      BY <1>3 DEF HandleSharedScheduleCreate, InsertRow, BeginSave, Goto, NewRequest, At, Keep,
         tableVars, TypeOK, TablesOK, Frame, RequestsOK, RequestOK
<1>4. CASE \E g \in GroupIds, chosen \in SUBSET DbIds :
           HandleSharedScheduleUpdate(r, g, chosen)
      BY <1>4 DEF HandleSharedScheduleUpdate, BeginSave, Goto, NewRequest, At, Keep, tableVars,
         TypeOK, TablesOK, Frame, RequestsOK, RequestOK
<1>5. CASE \E x \in Ids : DeleteRow(r, x)
      BY <1>5 DEF DeleteRow, Delete, Goto, At, TypeOK, TablesOK, Frame, RequestsOK, RequestOK
<1>6. CASE \E c \in ChannelIds : HandleNotifyAdd(r, c)
      BY <1>6 DEF HandleNotifyAdd, InsertRow, Goto, At, TypeOK, TablesOK, Frame, RequestsOK,
         RequestOK
<1>7. CASE \E x \in Owners : HandleToggle(r, x)
      BY <1>7 DEF HandleToggle, Goto, NewRequest, At, Keep, tableVars, TypeOK, TablesOK, Frame,
         RequestsOK, RequestOK
<1>8. CASE \E i \in TimerIds, x \in Owners : AddTimer(r, i, x)
      BY <1>8 DEF AddTimer, CreateSchedule, Goto, At, Keep, tableVars, TypeOK, TablesOK, Frame,
         RequestsOK, RequestOK
<1>9. CASE \E i \in TimerIds : DeleteTimer(r, i)
      BY <1>9 DEF DeleteTimer, DeleteSchedule, Goto, At, TypeOK, TablesOK, Frame, RequestsOK,
         RequestOK
<1>10. CASE \E d \in DbIds : HandleBackupNow(r, d)
      BY <1>10 DEF HandleBackupNow, Goto, At, Keep, tableVars, TypeOK, TablesOK, Frame,
         RequestsOK, RequestOK
<1>11. CASE Clear(r)
      BY <1>11 DEF Clear, At, TypeOK, TablesOK, Frame, RequestsOK, RequestOK
<1>12. CASE \E t \in Ids : Insert(r, t)
      <2>1. PICK t \in Ids : Insert(r, t)
            BY <1>12
      <2>2. alive' = alive /\ used' = used
            BY <2>1 DEF Insert, Keep, tableVars
      <2>3. req' = [req EXCEPT ![r].todo = @ \ {t}] \/ Goto(r, "error")
            BY <2>1 DEF Insert
      <2> QED
          BY <2>2, <2>3 DEF Frame, Goto, TypeOK, Request
<1>13. CASE Saved(r)
      BY <1>13 DEF Saved, Goto, At, Keep, tableVars, TypeOK, TablesOK, Frame, RequestsOK,
         RequestOK
<1>14. CASE ToggleSets(r)
      BY <1>14 DEF ToggleSets, SetEnabled, Goto, At, TypeOK, TablesOK, Frame, RequestsOK,
         RequestOK
<1>15. CASE Abort(r)
      BY <1>15 DEF Abort, Goto, At, Keep, tableVars, TypeOK, TablesOK, Frame, RequestsOK,
         RequestOK
<1>16. CASE FileJob(r)
      BY <1>16 DEF FileJob, Matches, At, Keep, tableVars, TypeOK, TablesOK, Frame, RequestsOK,
         RequestOK
<1>17. CASE NoTimer(r)
      BY <1>17 DEF NoTimer, Goto, At, Keep, tableVars, TypeOK, TablesOK, Frame, RequestsOK,
         RequestOK
<1>18. CASE \E c \in ChannelIds : HandleNotifyUpdate(r, c)
      BY <1>18 DEF HandleNotifyUpdate, Goto, At, Keep, tableVars, TypeOK, TablesOK, Frame,
         RequestsOK, RequestOK
<1>19. CASE Reject(r)
      BY <1>19 DEF Reject, Goto, At, Keep, tableVars, TypeOK, TablesOK, Frame, RequestsOK,
         RequestOK
<1>20. CASE \E d \in DbIds, k \in Keys : ImportLine(r, d, k)
      BY <1>20 DEF ImportLine, Create, Goto, At, Keep, tableVars, TypeOK, TablesOK, Frame,
         RequestsOK, RequestOK
<1> QED
    BY <1>1, <1>2, <1>3, <1>4, <1>5, <1>6, <1>7, <1>8, <1>9, <1>10, <1>11, <1>12, <1>13, <1>14,
       <1>15, <1>16, <1>17, <1>18, <1>19, <1>20, HandlerCases

\* The links of an owner that r does not save: they lose the row that r deletes, if any.
LEMMA LinkStep ==
  ASSUME IInv, NEW r \in Requests, Handle(r) \/ Continue(r) \/ FileJob(r)
  PROVE  (\A o \in alive' : \A t : ~(req[r].op = "save" /\ req[r].id = o) =>
           (<<o, t>> \in links' <=> <<o, t>> \in links /\ t \in alive'))
<1> USE RegistryAssumption DEF IInv
<1>1. CASE \E d \in DbIds, k \in Keys, on \in BOOLEAN, chosen \in SUBSET ChannelIds :
           HandleCreate(r, d, k, on, chosen)
      BY <1>1 DEF HandleCreate, Create, Taken, At, Keep, tableVars, TypeOK, TablesOK,
         NothingDangles, RequestsOK, RequestOK
<1>2. CASE \E d \in DbIds, k \in Keys, on \in BOOLEAN, chosen \in SUBSET ChannelIds :
           HandleUpdate(r, d, k, on, chosen)
      BY <1>2 DEF HandleUpdate, Update, Taken, At, Keep, tableVars, TypeOK, TablesOK,
         NothingDangles, RequestsOK, RequestOK
<1>3. CASE \E g \in GroupIds, chosen \in SUBSET DbIds :
           HandleSharedScheduleCreate(r, g, chosen)
      BY <1>3 DEF HandleSharedScheduleCreate, InsertRow, At, Keep, tableVars, TypeOK, TablesOK,
         NothingDangles, RequestsOK, RequestOK
<1>4. CASE \E g \in GroupIds, chosen \in SUBSET DbIds :
           HandleSharedScheduleUpdate(r, g, chosen)
      BY <1>4 DEF HandleSharedScheduleUpdate, At, Keep, tableVars, TypeOK, TablesOK,
         NothingDangles, RequestsOK, RequestOK
<1>5. CASE \E x \in Ids : DeleteRow(r, x)
      BY <1>5 DEF DeleteRow, Delete, At, TypeOK, TablesOK, NothingDangles, RequestsOK, RequestOK
<1>6. CASE \E c \in ChannelIds : HandleNotifyAdd(r, c)
      BY <1>6 DEF HandleNotifyAdd, InsertRow, At, TypeOK, TablesOK, NothingDangles, RequestsOK,
         RequestOK
<1>7. CASE \E x \in Owners : HandleToggle(r, x)
      BY <1>7 DEF HandleToggle, At, Keep, tableVars, TypeOK, TablesOK, NothingDangles,
         RequestsOK, RequestOK
<1>8. CASE \E i \in TimerIds, x \in Owners : AddTimer(r, i, x)
      BY <1>8 DEF AddTimer, CreateSchedule, At, Keep, tableVars, TypeOK, TablesOK,
         NothingDangles, RequestsOK, RequestOK
<1>9. CASE \E i \in TimerIds : DeleteTimer(r, i)
      BY <1>9 DEF DeleteTimer, DeleteSchedule, At, TypeOK, TablesOK, NothingDangles, RequestsOK,
         RequestOK
<1>10. CASE \E d \in DbIds : HandleBackupNow(r, d)
      BY <1>10 DEF HandleBackupNow, At, Keep, tableVars, TypeOK, TablesOK, NothingDangles,
         RequestsOK, RequestOK
<1>11. CASE Clear(r)
      BY <1>11 DEF Clear, At, TypeOK, TablesOK, NothingDangles, RequestsOK, RequestOK
<1>12. CASE \E t \in Ids : Insert(r, t)
      BY <1>12 DEF Insert, Linkable, At, Keep, tableVars, TypeOK, TablesOK, NothingDangles,
         RequestsOK, RequestOK
<1>13. CASE Saved(r)
      BY <1>13 DEF Saved, At, Keep, tableVars, TypeOK, TablesOK, NothingDangles, RequestsOK,
         RequestOK
<1>14. CASE ToggleSets(r)
      BY <1>14 DEF ToggleSets, SetEnabled, At, TypeOK, TablesOK, NothingDangles, RequestsOK,
         RequestOK
<1>15. CASE Abort(r)
      BY <1>15 DEF Abort, At, Keep, tableVars, TypeOK, TablesOK, NothingDangles, RequestsOK,
         RequestOK
<1>16. CASE FileJob(r)
      BY <1>16 DEF FileJob, Matches, At, Keep, tableVars, TypeOK, TablesOK, NothingDangles,
         RequestsOK, RequestOK
<1>17. CASE NoTimer(r)
      BY <1>17 DEF NoTimer, At, Keep, tableVars, TypeOK, TablesOK, NothingDangles, RequestsOK,
         RequestOK
<1>18. CASE \E c \in ChannelIds : HandleNotifyUpdate(r, c)
      BY <1>18 DEF HandleNotifyUpdate, At, Keep, tableVars, TypeOK, TablesOK, NothingDangles,
         RequestsOK, RequestOK
<1>19. CASE Reject(r)
      BY <1>19 DEF Reject, At, Keep, tableVars, TypeOK, TablesOK, NothingDangles, RequestsOK,
         RequestOK
<1>20. CASE \E d \in DbIds, k \in Keys : ImportLine(r, d, k)
      BY <1>20 DEF ImportLine, Create, Taken, At, Keep, tableVars, TypeOK, TablesOK,
         NothingDangles, RequestsOK, RequestOK
<1> QED
    BY <1>1, <1>2, <1>3, <1>4, <1>5, <1>6, <1>7, <1>8, <1>9, <1>10, <1>11, <1>12, <1>13, <1>14,
       <1>15, <1>16, <1>17, <1>18, <1>19, <1>20, HandlerCases

\* A save begins with a row that exists and with everything still to do.
LEMMA BeginSaveOK ==
  ASSUME TypeOK, NEW r \in Requests, NEW o \in Owners, NEW chosen \in SUBSET LinksOf(o),
         o \in used', BeginSave(r, o, chosen)
  PROVE  RequestOK(r)'
BY DEF BeginSave, NewRequest, TypeOK, RequestOK, At

\* A request that ends keeps its own variables in order.
LEMMA GotoOK ==
  ASSUME TypeOK, NEW r \in Requests, NEW step \in Final, RequestOK(r), used \subseteq used',
         Goto(r, step), step = "ok" => req[r].op # "save"
  PROVE  RequestOK(r)'
BY DEF Goto, TypeOK, RequestOK, At, Final

\* What a request knows stays true.
LEMMA RequestStep ==
  ASSUME IInv, NEW r \in Requests, Handle(r) \/ Continue(r) \/ FileJob(r)
  PROVE  RequestOK(r)'
<1> USE RegistryAssumption DEF IInv
<1>0. TypeOK /\ RequestOK(r) /\ used \subseteq used'
      BY FrameStep DEF RequestsOK, Frame
<1>1. CASE \E d \in DbIds, k \in Keys, on \in BOOLEAN, chosen \in SUBSET ChannelIds :
           HandleCreate(r, d, k, on, chosen)
      BY <1>1, <1>0, GotoOK, BeginSaveOK DEF HandleCreate, Create, Keep, tableVars, Owners,
         LinksOf, Final
<1>2. CASE \E d \in DbIds, k \in Keys, on \in BOOLEAN, chosen \in SUBSET ChannelIds :
           HandleUpdate(r, d, k, on, chosen)
      BY <1>2, <1>0, GotoOK, BeginSaveOK DEF HandleUpdate, Update, Keep, tableVars, Owners,
         LinksOf, Final
<1>3. CASE \E g \in GroupIds, chosen \in SUBSET DbIds :
           HandleSharedScheduleCreate(r, g, chosen)
      BY <1>3, <1>0, GotoOK, BeginSaveOK DEF HandleSharedScheduleCreate, InsertRow, Keep,
         tableVars, Owners, LinksOf, Final
<1>4. CASE \E g \in GroupIds, chosen \in SUBSET DbIds :
           HandleSharedScheduleUpdate(r, g, chosen)
      BY <1>4, <1>0, GotoOK, BeginSaveOK DEF HandleSharedScheduleUpdate, Keep, tableVars, Owners,
         LinksOf, Final
<1>5. CASE \E x \in Ids : DeleteRow(r, x)
      BY <1>5, <1>0, GotoOK DEF DeleteRow, At, Final, RequestOK
<1>6. CASE \E c \in ChannelIds : HandleNotifyAdd(r, c)
      BY <1>6, <1>0, GotoOK DEF HandleNotifyAdd, At, Final, RequestOK
<1>7. CASE \E x \in Owners : HandleToggle(r, x)
      <2>1. PICK x \in Owners : HandleToggle(r, x)
            BY <1>7
      <2>2. CASE x \in alive
            <3>1. req'[r].at = "set" /\ req'[r].op = "toggle" /\ req'[r].id = x
                  BY <1>0, <2>1, <2>2 DEF HandleToggle, NewRequest, TypeOK
            <3> QED
                BY <3>1 DEF RequestOK, At
      <2>3. CASE x \notin alive
            BY <1>0, <2>1, <2>3, GotoOK DEF HandleToggle, Final
      <2> QED
          BY <2>2, <2>3
<1>8. CASE \E i \in TimerIds, x \in Owners : AddTimer(r, i, x)
      BY <1>8, <1>0, GotoOK DEF AddTimer, At, Final, RequestOK
<1>9. CASE \E i \in TimerIds : DeleteTimer(r, i)
      BY <1>9, <1>0, GotoOK DEF DeleteTimer, At, Final, RequestOK
<1>10. CASE \E d \in DbIds : HandleBackupNow(r, d)
      BY <1>10, <1>0, GotoOK DEF HandleBackupNow, At, Final, RequestOK
<1>11. CASE Clear(r)
      BY <1>11, <1>0, TRUE DEF Clear, At, RequestOK, TypeOK
<1>12. CASE \E t \in Ids : Insert(r, t)
      <2>1. PICK t \in Ids : Insert(r, t)
            BY <1>12
      <2>2. CASE Linkable(req[r].id, t)
            <3>1. t \in used
                  BY <1>0, <2>2 DEF Linkable, TypeOK, TablesOK
            <3>2. req' = [req EXCEPT ![r].todo = @ \ {t}] /\ used' = used /\ req[r].at = "insert"
                  BY <2>1, <2>2 DEF Insert, At
            <3>3. req'[r] = [req[r] EXCEPT !.todo = @ \ {t}] /\ req[r] \in Request
                  BY <1>0, <3>2 DEF TypeOK
            <3> QED
                BY <1>0, <3>1, <3>2, <3>3 DEF RequestOK, At, Request
      <2>3. CASE ~Linkable(req[r].id, t)
            BY <1>0, <2>1, <2>3, GotoOK DEF Insert, Final
      <2> QED
          BY <2>2, <2>3
<1>13. CASE Saved(r)
      BY <1>13, <1>0, TRUE DEF Saved, Goto, At, RequestOK, TypeOK, Keep, tableVars
<1>14. CASE ToggleSets(r)
      BY <1>14, <1>0, GotoOK DEF ToggleSets, At, Final, RequestOK
<1>15. CASE Abort(r)
      BY <1>15, <1>0, GotoOK DEF Abort, At, Final, RequestOK
<1>16. CASE FileJob(r)
      BY <1>16, <1>0, TRUE DEF FileJob, At, RequestOK, Keep, tableVars
<1>17. CASE NoTimer(r)
      BY <1>17, <1>0, GotoOK DEF NoTimer, At, Final, RequestOK
<1>18. CASE \E c \in ChannelIds : HandleNotifyUpdate(r, c)
      BY <1>18, <1>0, GotoOK DEF HandleNotifyUpdate, At, Final, RequestOK
<1>19. CASE Reject(r)
      BY <1>19, <1>0, GotoOK DEF Reject, At, Final, RequestOK
<1>20. CASE \E d \in DbIds, k \in Keys : ImportLine(r, d, k)
      BY <1>20, <1>0, GotoOK DEF ImportLine, At, Final, RequestOK
<1> QED
    BY <1>1, <1>2, <1>3, <1>4, <1>5, <1>6, <1>7, <1>8, <1>9, <1>10, <1>11, <1>12, <1>13, <1>14,
       <1>15, <1>16, <1>17, <1>18, <1>19, <1>20, HandlerCases

\* LinkedTo lists exactly the links of a row.
LEMMA LinkedToIs ==
  ASSUME links \subseteq Links, NEW o, NEW t
  PROVE  t \in LinkedTo(o) <=> <<o, t>> \in links
BY DEF LinkedTo, Links

\* A save nobody interferes with: another request's step only takes away deleted rows, and
\* its own steps are Clear, Insert and Saved.
LEMMA SaveStep ==
  ASSUME IInv, NEW r \in Requests, Handle(r) \/ Continue(r) \/ FileJob(r)
  PROVE  SaveInProgress'
<1> USE DEF IInv
<1>1. Frame(r) /\ TablesOK' /\ TablesOK
      BY FrameStep, TableTypeStep DEF TypeOK
<1>2. SUFFICES ASSUME NEW q \in Requests, SaversOf(req[q].id)' = {q},
                      req'[q].at \in {"insert", "ok"}, req'[q].id \in alive'
               PROVE  \A t : <<req'[q].id, t>> \in links' <=> t \in req'[q].chosen \ req'[q].todo /\ t \in alive'
      <2>1. \A o, t : t \in LinkedTo(o)' <=> <<o, t>> \in links'
            BY <1>1 DEF TablesOK, LinkedTo, Links
      <2> QED
          BY <1>2, <2>1 DEF SaveInProgress
<1>3. SaversOf(req'[q].id) \subseteq {q} /\ req'[q].op = "save"
      BY <1>1, <1>2 DEF SaversOf, Frame
<1>4. CASE q # r
      <2>1. req'[q] = req[q]
            BY <1>1, <1>4 DEF Frame
      <2>2. SaversOf(req[q].id) = {q}
            BY <1>3, <2>1 DEF SaversOf
      <2>3. RequestOK(q)
            BY DEF RequestsOK
      <2>4. req[q].id \in alive
            BY <1>1, <1>2, <1>3, <2>1, <2>3 DEF RequestOK, Frame
      <2>5. \A t : <<req[q].id, t>> \in links <=> t \in req[q].chosen \ req[q].todo /\ t \in alive
            BY <1>1, <1>2, <2>1, <2>2, <2>4, LinkedToIs DEF SaveInProgress, TablesOK
      <2>6. ~(req[r].op = "save" /\ req[r].id = req[q].id)
            BY <1>4, <2>2 DEF SaversOf
      <2>7. \A t : <<req[q].id, t>> \in links' <=> <<req[q].id, t>> \in links /\ t \in alive'
            BY <1>2, <2>1, <2>6, LinkStep
      <2>8. \A t \in req[q].chosen \ req[q].todo : t \in alive' => t \in alive
            BY <1>1, <1>2, <1>3, <2>1, <2>3 DEF RequestOK, At, Frame
      <2> QED
          BY <2>1, <2>5, <2>7, <2>8
<1>5. CASE q = r
      <2>1. RequestOK(r) /\ req[r] \in Request /\ req \in [Requests -> Request]
            BY DEF RequestsOK, TypeOK
      <2>2. CASE Clear(r)
            <3>1. req'[r] = [req[r] EXCEPT !.at = "insert", !.todo = req[r].chosen]
                  BY <2>1, <2>2 DEF Clear
            <3>2. links' = {l \in links : l[1] # req[r].id}
                  BY <2>2 DEF Clear
            <3> QED
                BY <1>5, <2>1, <3>1, <3>2 DEF Request
      <2>3. CASE \E t \in Ids : Insert(r, t)
            <3>1. PICK u \in Ids : Insert(r, u)
                  BY <2>3
            <3>2. Linkable(req[r].id, u)
                  <4>1. Goto(r, "error") => req'[r].at = "error"
                        BY <2>1 DEF Goto
                  <4> QED
                      BY <1>2, <1>5, <3>1, <4>1 DEF Insert
            <3>3. /\ req'[r] = [req[r] EXCEPT !.todo = @ \ {u}]
                  /\ links' = links \cup {<<req[r].id, u>>}
                  /\ alive' = alive
                  /\ req[r].at = "insert" /\ req[r].op = "save"
                  /\ u \in req[r].todo /\ u \in req[r].chosen
                  BY <2>1, <3>1, <3>2 DEF Insert, At, RequestOK
            <3>4. req'[r].id = req[r].id /\ req'[r].chosen = req[r].chosen /\ req'[r].todo = req[r].todo \ {u}
                  BY <2>1, <3>3 DEF Request
            <3>5. SaversOf(req[r].id) = {r}
                  BY <1>3, <1>5, <3>3, <3>4 DEF SaversOf
            <3>6. \A t : <<req[r].id, t>> \in links <=> t \in req[r].chosen \ req[r].todo /\ t \in alive
                  BY <1>1, <1>2, <1>5, <3>3, <3>4, <3>5, LinkedToIs DEF SaveInProgress, TablesOK
            <3> QED
                BY <1>5, <3>2, <3>3, <3>4, <3>6 DEF Linkable
      <2>4. CASE Saved(r) \/ FileJob(r)
            <3>1. /\ links' = links /\ alive' = alive
                  /\ req'[r].id = req[r].id /\ req'[r].chosen = req[r].chosen /\ req'[r].todo = req[r].todo
                  /\ req'[r].op = req[r].op /\ req[r].at \in {"insert", "ok"}
                  BY <1>2, <1>5, <2>1, <2>4 DEF Saved, FileJob, At, Goto, Keep, tableVars, Request
            <3>2. SaversOf(req[r].id) = {r}
                  BY <1>3, <1>5, <3>1 DEF SaversOf
            <3>3. \A t : <<req[r].id, t>> \in links <=> t \in req[r].chosen \ req[r].todo /\ t \in alive
                  BY <1>1, <1>2, <1>5, <3>1, <3>2, LinkedToIs DEF SaveInProgress, TablesOK
            <3> QED
                BY <1>5, <3>1, <3>3
      <2>5. CASE ToggleSets(r) \/ Abort(r)
            BY <1>2, <1>3, <1>5, <2>1, <2>5 DEF ToggleSets, Abort, Goto, At, RequestOK, Request
      <2>6. CASE Handle(r)
            <3>1. req[r].op = "none"
                  BY <2>1, <2>6 DEF Handle, HandleCreate, HandleUpdate,
                     HandleSharedScheduleCreate, HandleSharedScheduleUpdate,
                     HandleDelete, HandleSharedScheduleDelete, HandleNotifyDelete, DeleteRow, HandleNotifyAdd,
                     HandleNotifyUpdate, HandleToggle, HandleAddSchedule, HandleAddSharedScheduleTime, AddTimer,
                     HandleDeleteSchedule, HandleDeleteSharedScheduleTime, DeleteTimer, NoTimer, HandleBackupNow,
                     Reject, ImportLine, RequestOK, At
            <3>2. req'[r].op = req[r].op \/ req'[r].at \in {"clear", "set"}
                  <4>1. \A step : Goto(r, step) => req'[r].op = req[r].op
                        BY <2>1 DEF Goto, Request
                  <4>2. \A o, chosen : BeginSave(r, o, chosen) => req'[r].at = "clear"
                        BY <2>1 DEF BeginSave, NewRequest
                  <4>3. CASE \E x \in Owners : HandleToggle(r, x)
                        BY <2>1, <4>1, <4>3 DEF HandleToggle, NewRequest
                  <4>4. CASE ~\E x \in Owners : HandleToggle(r, x)
                        BY <2>6, <4>1, <4>2, <4>4 DEF Handle, HandleCreate, HandleUpdate,
                           HandleSharedScheduleCreate,
                           HandleSharedScheduleUpdate, HandleDelete, HandleSharedScheduleDelete, HandleNotifyDelete,
                           DeleteRow, HandleNotifyAdd, HandleNotifyUpdate, HandleAddSchedule, HandleAddSharedScheduleTime,
                           AddTimer, HandleDeleteSchedule, HandleDeleteSharedScheduleTime, DeleteTimer, NoTimer,
                           HandleBackupNow, Reject, ImportLine
                  <4> QED
                      BY <4>3, <4>4
            <3> QED
                BY <1>2, <1>3, <1>5, <3>1, <3>2
      <2> QED
          BY <2>2, <2>3, <2>4, <2>5, <2>6 DEF Continue
<1> QED
    BY <1>4, <1>5

\* Every step keeps the invariant.
LEMMA NextIInv == IInv /\ [Next]_vars => IInv'
<1> SUFFICES ASSUME IInv, [Next]_vars PROVE IInv'
    OBVIOUS
<1>1. CASE Next
      <2>1. PICK r \in Requests : Handle(r) \/ Continue(r) \/ FileJob(r)
            BY <1>1 DEF Next
      <2>2. TypeOK'
            BY <2>1, RequestTypeStep, TableTypeStep DEF TypeOK
      <2>3. NothingDangles' /\ KeysDiffer'
            BY <2>1, DangleStep, KeyStep
      <2>4. RequestsOK'
            <3>1. SUFFICES ASSUME NEW q \in Requests PROVE RequestOK(q)'
                  BY DEF RequestsOK
            <3>2. CASE q = r
                  BY <2>1, <3>2, RequestStep
            <3>3. CASE q # r
                  <4>1. req'[q] = req[q] /\ used \subseteq used' /\ RequestOK(q)
                        BY <2>1, <3>3, FrameStep DEF Frame, IInv, RequestsOK
                  <4> QED
                      BY <4>1 DEF RequestOK, At
            <3> QED
                BY <3>2, <3>3
      <2>5. SaveInProgress'
            BY <2>1, SaveStep
      <2> QED
          BY <2>2, <2>3, <2>4, <2>5 DEF IInv
<1>2. CASE UNCHANGED vars
      BY <1>2 DEF vars, tableVars, IInv, TypeOK, TablesOK, NothingDangles, KeysDiffer, RequestsOK,
         RequestOK, At,
                  SaveInProgress, SaversOf, LinkedTo
<1> QED
    BY <1>1, <1>2

\* The inductive invariant holds in every reachable state.
LEMMA InvariantHolds == Spec => []IInv
BY InitIInv, NextIInv, PTL DEF Spec

\* The tables and the requests keep their types, whatever requests interleave.
THEOREM TypeCorrect == Spec => []TypeOK
<1>1. IInv => TypeOK
      BY DEF IInv
<1> QED
    BY <1>1, InvariantHolds, PTL

\* Cascades and foreign keys are enough without transactions: no link or timer of the
\* registry ever refers to a row that is gone.
THEOREM LinksAreSound == Spec => []NothingDangles
<1>1. IInv => NothingDangles
      BY DEF IInv
<1> QED
    BY <1>1, InvariantHolds, PTL

\* A job finds its own database by (name, agent_id, driver) as long as nobody renames or
\* deletes it.
THEOREM JobsResolve == Spec => []ResolvesToOwn
<1>1. IInv => ResolvesToOwn
      <2> SUFFICES ASSUME IInv, NEW r \in Requests, jobs[r].key # None, jobs[r].db \in alive, key[jobs[r].db] = jobs[r].key
                   PROVE  Matches(jobs[r].key) = {jobs[r].db}
          BY DEF ResolvesToOwn
      <2>1. jobs[r].db \in DbIds
            BY RegistryAssumption DEF IInv, TypeOK, TablesOK
      <2> QED
          BY <2>1 DEF IInv, KeysDiffer, Matches
<1> QED
    BY <1>1, InvariantHolds, PTL

\* A save of a form that nobody else saves leaves exactly the links that were ticked.
THEOREM SavesAreKept == Spec => []SavedIsChosen
<1>1. IInv => SavedIsChosen
      <2> SUFFICES ASSUME IInv, NEW r \in Requests, At(r, "ok"), SaversOf(req[r].id) = {r}, req[r].id \in alive
                   PROVE  LinkedTo(req[r].id) = req[r].chosen \cap alive
          BY DEF SavedIsChosen
      <2>1. LinkedTo(req[r].id) = (req[r].chosen \ req[r].todo) \cap alive
            BY DEF IInv, SaveInProgress, At
      <2>2. req[r].todo = {}
            BY DEF IInv, RequestsOK, RequestOK, SaversOf
      <2> QED
          BY <2>1, <2>2
<1> QED
    BY <1>1, InvariantHolds, PTL
==============================================================================
