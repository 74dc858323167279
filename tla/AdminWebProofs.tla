--------------------------- MODULE AdminWebProofs ---------------------------
(***************************************************************************)
(* Proofs about AdminWeb for any tabs, rows, limits and bounds: types,     *)
(* that no request is let in without a live session, that no page comes    *)
(* out empty, and what a walk through the log can miss.                    *)
(*                                                                         *)
(* AdmittedIsLive compares the session table with the history of logins    *)
(* and logouts; SessionsAreLive, which says that the two agree, is what    *)
(* every step has to keep.  What a walk misses is counted: WalkInv bounds  *)
(* the rows behind the page a tab is at by the rows that left, and the     *)
(* rows beyond the last page by those that joined.                         *)
(***************************************************************************)
EXTENDS AdminWeb, FiniteSetTheorems, WellFoundedInduction, TLAPS

\* The parts of TypeOK.
SessionTypes ==
  /\ now \in 0 .. MaxTime
  /\ logins \in 0 .. MaxLogins
  /\ sessions \in [Tokens -> 0 .. MaxTime + TTL \cup {Absent}]
  /\ born \in [Tokens -> 0 .. MaxTime]
  /\ ended \subseteq 1 .. logins
  /\ jar \in 0 .. logins

LogTypes ==
  /\ limit \in Limits
  /\ rows \in [Ids -> {"none", "running"} \cup Final]
  /\ lastRow \in 0 .. MaxRows
  /\ repeats \in 0 .. MaxRepeats

Places == {"away", "asked", "clear", "login", "loginClear", "counted", "shown", "broken", "cleared"}
TabRecords(n) ==
  [at : Places, cookie : 0 .. n, page : Int, total : Nat,
   filter : Filters \cup {Away.filter}, shown : SUBSET Ids]
WalkRecords == [unseen : SUBSET Ids, joined : Nat, left : Nat]

\* TypeOK, taken apart: the sessions, the log, the tabs and the walks.
LEMMA TypeParts ==
  TypeOK <=> /\ SessionTypes
             /\ LogTypes
             /\ tab \in [Tabs -> TabRecords(logins)]
             /\ walk \in [Tabs -> WalkRecords]
  BY DEF TypeOK, SessionTypes, LogTypes, TabRecords, WalkRecords, Places

\* The same for the state after a step.
LEMMA TypePartsNext ==
  /\ SessionTypes'
  /\ LogTypes'
  /\ tab' \in [Tabs -> TabRecords(logins')]
  /\ walk' \in [Tabs -> WalkRecords]
  => TypeOK'
  BY DEF TypeOK, SessionTypes, LogTypes, TabRecords, WalkRecords, Places

\* What a filter selects is a set of row ids, so it can be counted.
LEMMA MatchingFinite ==
  ASSUME NEW rs, NEW f
  PROVE  Matching(rs, f) \subseteq Ids /\ Cardinality(Matching(rs, f)) \in Nat
<1>1. Matching(rs, f) \subseteq Ids
  BY DEF Matching
<1>2. IsFiniteSet(Ids)
  BY FS_Interval, AdminWebAssumption DEF Ids
<1> QED
  BY <1>1, <1>2, FS_Subset, FS_CardinalityType

\* What joins or leaves a selection is a finite number of rows.
LEMMA DifferenceCounted ==
  ASSUME NEW rs, NEW f, NEW qs
  PROVE  Cardinality(Matching(rs, f) \ Matching(qs, f)) \in Nat
<1>1. IsFiniteSet(Ids)
  BY FS_Interval, AdminWebAssumption DEF Ids
<1>2. Matching(rs, f) \ Matching(qs, f) \subseteq Ids
  BY MatchingFinite
<1> QED
  BY <1>1, <1>2, FS_Subset, FS_CardinalityType

\* A tab that shows nothing is a tab record, whatever was logged in.
LEMMA AwayType == Away \in TabRecords(0)
  BY DEF Away, TabRecords, Places, NoToken

\* A tab's record stays one when later logins make more tokens.
LEMMA TabRecordsGrow ==
  ASSUME NEW n \in Nat, NEW m \in Nat, n <= m
  PROVE  TabRecords(n) \subseteq TabRecords(m)
  BY DEF TabRecords

\* newPagination answers with a page number.
LEMMA ClampType ==
  ASSUME NEW page \in Int, NEW total \in Nat, limit \in Limits
  PROVE  Clamp(page, total) \in Int
<1>1. AtLeast(1, limit) \in Int /\ AtLeast(1, limit) >= 1
  BY AdminWebAssumption DEF AtLeast
<1>2. TotalPages(total) \in Int
  BY <1>1 DEF TotalPages, AtLeast
<1> QED
  BY <1>2 DEF Clamp, AtLeast

\* The initial state is well typed.
LEMMA InitTypes == Init => TypeOK
<1> SUFFICES ASSUME Init PROVE TypeOK
  OBVIOUS
<1> USE AdminWebAssumption
<1>1. SessionTypes
  BY DEF Init, SessionTypes, NoToken, Absent, Tokens
<1>2. LogTypes
  BY DEF Init, LogTypes
<1>3. tab \in [Tabs -> TabRecords(logins)]
  BY AwayType DEF Init
<1>4. walk \in [Tabs -> WalkRecords]
  BY DEF Init, WalkRecords, NoWalk
<1> QED
  BY <1>1, <1>2, <1>3, <1>4, TypeParts

\* Steps that leave the sessions alone and put a well-typed record into one tab and its walk.
LEMMA TabStepTypes ==
  ASSUME TypeOK, UNCHANGED <<sessionVars, logVars>>,
         NEW t \in Tabs, NEW r \in TabRecords(logins), NEW w \in WalkRecords,
         tab' = [tab EXCEPT ![t] = r],
         walk' = [walk EXCEPT ![t] = w]
  PROVE  TypeOK'
<1>1. SessionTypes' /\ LogTypes'
  BY TypeParts DEF SessionTypes, LogTypes, sessionVars, logVars
<1>2. tab' \in [Tabs -> TabRecords(logins')]
  BY TypeParts DEF sessionVars
<1>3. walk' \in [Tabs -> WalkRecords]
  BY TypeParts
<1> QED
  BY <1>1, <1>2, <1>3, TypePartsNext

\* A request carries the cookie of the jar and an integer for its page.
LEMMA SendType ==
  ASSUME TypeOK, NEW what \in Places, NEW page \in Int, NEW f \in Filters \cup {Away.filter}
  PROVE  [Away EXCEPT !.at = what, !.cookie = jar, !.page = page, !.filter = f] \in TabRecords(logins)
  BY AwayType DEF TypeOK, TabRecords, Away

\* What the reader clicks keeps the types.
LEMMA ReaderTypes ==
  ASSUME TypeOK, NEW t \in Tabs, ReaderStep(t)
  PROVE  TypeOK'
<1> USE AdminWebAssumption
<1> DEFINE Sent(what, page, f) == [Away EXCEPT !.at = what, !.cookie = jar, !.page = page, !.filter = f]
<1>0. tab[t] \in TabRecords(logins) /\ walk[t] \in WalkRecords
  BY TypeParts
<1>1. NoWalk \in WalkRecords
  BY DEF NoWalk, WalkRecords
<1>2. ASSUME NEW f \in Filters, Open(t, f) PROVE TypeOK'
  <2>0. 0 \in Int /\ "asked" \in Places
    BY DEF Places
  <2>1. Sent("asked", 0, f) \in TabRecords(logins)
    BY <2>0, SendType
  <2>2. [NoWalk EXCEPT !.unseen = Matching(rows, f)] \in WalkRecords
    BY <1>1, MatchingFinite DEF WalkRecords
  <2> QED
    BY <1>2, <2>1, <2>2, TabStepTypes DEF Open, Send
<1>3. ASSUME NEW f \in Filters, NEW page \in Pages, Jump(t, f, page) PROVE TypeOK'
  <2>1. Sent("asked", page, f) \in TabRecords(logins)
    BY SendType DEF Places
  <2> QED
    BY <1>1, <1>3, <2>1, TabStepTypes DEF Jump, Send
<1>4. CASE Turn(t) \/ Reload(t)
  <2>0. tab[t].filter \in Filters \cup {Away.filter} /\ tab[t].page \in Int
    BY <1>0 DEF TabRecords
  <2>5. tab[t].page + 1 \in Int /\ tab[t].page - 1 \in Int
    BY <2>0
  <2>1. PICK page \in Int : tab' = [tab EXCEPT ![t] = Sent("asked", page, tab[t].filter)]
    BY <1>4, <2>0, <2>5, Zenon DEF Turn, Reload, Send
  <2>2. Sent("asked", page, tab[t].filter) \in TabRecords(logins)
    BY <2>0, SendType DEF Places
  <2>3. walk' = [walk EXCEPT ![t] = walk[t]]
    BY <1>4, TypeParts DEF Turn, Reload
  <2>4. UNCHANGED <<sessionVars, logVars>>
    BY <1>4 DEF Turn, Reload
  <2> HIDE DEF Sent
  <2> QED
    BY <1>0, <2>1, <2>2, <2>3, <2>4, TabStepTypes
<1>5. CASE ClickClear(t)
  <2>0. tab[t].filter \in Filters \cup {Away.filter}
    BY <1>0 DEF TabRecords
  <2>2. 0 \in Int /\ "clear" \in Places
    BY DEF Places
  <2>1. Sent("clear", 0, tab[t].filter) \in TabRecords(logins)
    BY <2>0, <2>2, SendType
  <2> QED
    BY <1>1, <1>5, <2>1, TabStepTypes DEF ClickClear, Send
<1> QED
  BY <1>2, <1>3, <1>4, <1>5 DEF ReaderStep

\* A login keeps the types of the session table.
LEMMA NewSessionTypes ==
  ASSUME TypeOK, NewSession
  PROVE  /\ SessionTypes'
         /\ logins \in Nat /\ logins' \in Nat /\ logins' = logins + 1
<1> USE AdminWebAssumption DEF NewSession, SessionTypes
<1>1. SessionTypes
  BY TypeParts
<1>2. logins' \in 0 .. MaxLogins /\ logins' = logins + 1 /\ logins \in Nat /\ logins' \in Nat
  BY <1>1
<1>3. logins + 1 \in Tokens /\ now + TTL \in 0 .. MaxTime + TTL
  BY <1>1, <1>2 DEF Tokens
<1>4. sessions' \in [Tokens -> 0 .. MaxTime + TTL \cup {Absent}] /\ born' \in [Tokens -> 0 .. MaxTime]
  BY <1>1, <1>3
<1>5. ended' \subseteq 1 .. logins' /\ jar' \in 0 .. logins' /\ now' \in 0 .. MaxTime
  BY <1>1, <1>2
<1> QED
  BY <1>2, <1>4, <1>5

\* A change of the log keeps the walks well typed.
LEMMA LogBecomesTypes ==
  ASSUME TypeOK, NEW rs \in [Ids -> {"none", "running"} \cup Final], LogBecomes(rs)
  PROVE  rows' \in [Ids -> {"none", "running"} \cup Final] /\ walk' \in [Tabs -> WalkRecords]
<1> SUFFICES ASSUME NEW t \in Tabs PROVE walk'[t] \in WalkRecords
  BY DEF LogBecomes
<1> DEFINE old == Matching(rows, tab[t].filter)
           new == Matching(rs, tab[t].filter)
<1>1. walk[t] \in WalkRecords
  BY TypeParts
<1>2. Cardinality(new \ old) \in Nat /\ Cardinality(old \ new) \in Nat
  BY DifferenceCounted
<1> DEFINE j == IF tab[t].at = "counted" THEN walk[t].joined + Cardinality(new \ old)
                ELSE walk[t].joined
           l == walk[t].left + Cardinality(old \ new)
<1>3. walk'[t] = [walk[t] EXCEPT !.joined = j, !.left = l]
  BY DEF LogBecomes
<1> HIDE DEF old, new
<1>4. j \in Nat /\ l \in Nat
  BY <1>1, <1>2 DEF WalkRecords
<1> HIDE DEF j, l
<1> QED
  BY <1>1, <1>3, <1>4 DEF WalkRecords

\* Login and log page keep the types.
LEMMA ServerTypes ==
  ASSUME TypeOK, NEW t \in Tabs, ServerStep(t)
  PROVE  TypeOK'
<1> USE AdminWebAssumption
<1>0. tab[t] \in TabRecords(logins) /\ walk[t] \in WalkRecords
  BY TypeParts
<1>1. CASE Refuse(t)
  <2>1. SessionTypes' /\ LogTypes'
    BY <1>1, TypeParts DEF Refuse, SessionTypes, LogTypes, logVars, Forget
  <2> DEFINE r == [tab[t] EXCEPT !.at = IF @ = "asked" THEN "login" ELSE "loginClear",
                                 !.cookie = NoToken]
  <2>2. 0 \in 0 .. logins
    BY TypeParts DEF SessionTypes
  <2>3. r \in TabRecords(logins)
    BY <1>0, <2>2 DEF TabRecords, Places, NoToken
  <2>4. tab' = [tab EXCEPT ![t] = r] /\ UNCHANGED <<logins, walk>>
    BY <1>1 DEF Refuse
  <2> HIDE DEF r
  <2>5. tab' \in [Tabs -> TabRecords(logins')] /\ walk' \in [Tabs -> WalkRecords]
    BY <2>3, <2>4, TypeParts
  <2> QED
    BY <2>1, <2>5, TypePartsNext
<1>2. CASE LoginForm(t)
  <2>1. SessionTypes' /\ LogTypes' /\ walk' \in [Tabs -> WalkRecords]
    BY <1>2, TypeParts DEF LoginForm, SessionTypes, LogTypes, logVars, Forget
  <2>2. jar \in 0 .. logins /\ logins \in Nat /\ Away \in TabRecords(logins)
    BY TypeParts, AwayType, TabRecordsGrow DEF SessionTypes
  <2>3. [tab[t] EXCEPT !.at = "asked", !.cookie = jar] \in TabRecords(logins)
    BY <1>0, <2>2 DEF TabRecords, Places
  <2>4. tab' \in [Tabs -> TabRecords(logins')]
    BY <1>0, <1>2, <2>2, <2>3, TypeParts DEF LoginForm, Back
  <2> QED
    BY <2>1, <2>4, TypePartsNext
<1>3. CASE LoginSubmit(t)
  <2>2. SessionTypes' /\ logins' \in Nat /\ logins' = logins + 1 /\ logins \in Nat
    BY <1>3, NewSessionTypes DEF LoginSubmit
  <2>1. SessionTypes' /\ LogTypes' /\ walk' \in [Tabs -> WalkRecords]
    BY <1>3, <2>2, TypeParts DEF LoginSubmit, LogTypes, logVars
  <2>3. TabRecords(logins) \subseteq TabRecords(logins') /\ Away \in TabRecords(logins')
    BY <2>2, AwayType, TabRecordsGrow
  <2>6. logins + 1 \in 0 .. logins' /\ tab[t] \in TabRecords(logins')
    BY <1>0, <2>2, <2>3
  <2>4. [tab[t] EXCEPT !.at = "asked", !.cookie = logins + 1] \in TabRecords(logins')
    BY <2>6 DEF TabRecords, Places
  <2>5. tab' \in [Tabs -> TabRecords(logins')]
    BY <1>0, <1>3, <2>3, <2>4, TypeParts DEF LoginSubmit, Back
  <2> QED
    BY <2>1, <2>5, TypePartsNext
<1>4. CASE Count(t)
  <2> DEFINE total == Cardinality(Matching(rows, tab[t].filter))
  <2>1. total \in Nat
    BY MatchingFinite
  <2> DEFINE r == [tab[t] EXCEPT !.at = "counted", !.cookie = NoToken, !.total = total]
             w == [walk[t] EXCEPT !.joined = 0]
  <2>2. tab' = [tab EXCEPT ![t] = r] /\ walk' = [walk EXCEPT ![t] = w]
    BY <1>0, <1>4 DEF Count
  <2>3. UNCHANGED <<sessionVars, logVars>>
    BY <1>4 DEF Count
  <2>4. w \in WalkRecords
    BY <1>0 DEF WalkRecords
  <2> HIDE DEF total
  <2>6. 0 \in 0 .. logins
    BY TypeParts DEF SessionTypes
  <2>5. r \in TabRecords(logins)
    BY <1>0, <2>1, <2>6 DEF TabRecords, Places, NoToken
  <2> HIDE DEF r, w
  <2> QED
    BY <2>2, <2>3, <2>4, <2>5, TabStepTypes
<1>5. CASE List(t)
  <2> DEFINE page == Clamp(tab[t].page, tab[t].total)
             shown == ListBackupRuns(Matching(rows, tab[t].filter), Offset(page))
             r == [tab[t] EXCEPT !.at = "shown", !.page = page, !.shown = shown]
             w == [walk[t] EXCEPT !.unseen = walk[t].unseen \ shown]
  <2>1. shown \subseteq Ids
    BY MatchingFinite DEF ListBackupRuns
  <2>6. page \in Int
    BY <1>0, ClampType, TypeParts DEF TabRecords, LogTypes
  <2>2. tab' = [tab EXCEPT ![t] = r] /\ walk' = [walk EXCEPT ![t] = w]
    BY <1>0, <1>5 DEF List
  <2>3. UNCHANGED <<sessionVars, logVars>>
    BY <1>5 DEF List
  <2> HIDE DEF page, shown
  <2>4. w \in WalkRecords
    BY <1>0 DEF WalkRecords
  <2>5. r \in TabRecords(logins)
    BY <1>0, <2>1, <2>6 DEF TabRecords, Places
  <2> HIDE DEF r, w
  <2> QED
    BY <2>2, <2>3, <2>4, <2>5, TabStepTypes
<1>6. CASE Clear(t)
  <2>1. [r \in Ids |-> "none"] \in [Ids -> {"none", "running"} \cup Final]
    OBVIOUS
  <2>2. rows' \in [Ids -> {"none", "running"} \cup Final] /\ walk' \in [Tabs -> WalkRecords]
    BY <1>6, <2>1, LogBecomesTypes DEF Clear
  <2>3. SessionTypes' /\ LogTypes'
    BY <1>6, <2>2, TypeParts DEF Clear, SessionTypes, LogTypes, sessionVars
  <2>4. logins \in Nat /\ Away \in TabRecords(logins)
    BY TypeParts, AwayType, TabRecordsGrow DEF SessionTypes
  <2>5. [Away EXCEPT !.at = "cleared"] \in TabRecords(logins)
    BY <2>4 DEF TabRecords, Places
  <2>6. tab' \in [Tabs -> TabRecords(logins')]
    BY <1>6, <2>5, TypeParts DEF Clear, sessionVars
  <2> QED
    BY <2>2, <2>3, <2>6, TypePartsNext
<1>7. CASE PageFails(t)
  <2> DEFINE r == [tab[t] EXCEPT !.at = "broken", !.cookie = NoToken]
  <2>1. 0 \in 0 .. logins
    BY TypeParts DEF SessionTypes
  <2>2. r \in TabRecords(logins)
    BY <1>0, <2>1 DEF TabRecords, Places, NoToken
  <2>3. tab' = [tab EXCEPT ![t] = r] /\ UNCHANGED <<sessionVars, logVars, walk>>
    BY <1>0, <1>7 DEF PageFails
  <2>4. walk' = [walk EXCEPT ![t] = walk[t]]
    BY <2>3, TypeParts
  <2> HIDE DEF r
  <2> QED
    BY <1>0, <2>2, <2>3, <2>4, TabStepTypes
<1>8. CASE ClearFails(t)
  <2>1. logins \in Nat /\ Away \in TabRecords(logins)
    BY TypeParts, AwayType, TabRecordsGrow DEF SessionTypes
  <2>2. tab' = [tab EXCEPT ![t] = Away] /\ UNCHANGED <<sessionVars, logVars, walk>>
    BY <1>8 DEF ClearFails
  <2>3. walk' = [walk EXCEPT ![t] = walk[t]]
    BY <2>2, TypeParts
  <2> QED
    BY <1>0, <2>1, <2>2, <2>3, TabStepTypes
<1> QED
  BY <1>1, <1>2, <1>3, <1>4, <1>5, <1>6, <1>7, <1>8 DEF ServerStep

\* Every step keeps the types.
LEMMA StepTypes == TypeOK /\ [Next]_vars => TypeOK'
<1> SUFFICES ASSUME TypeOK, [Next]_vars PROVE TypeOK'
  OBVIOUS
<1> USE AdminWebAssumption
<1>1. ASSUME NEW t \in Tabs, ReaderStep(t) \/ ServerStep(t) PROVE TypeOK'
  BY <1>1, ReaderTypes, ServerTypes
<1>2. CASE LoginElsewhere
  <2>2. SessionTypes' /\ logins' \in Nat /\ logins' = logins + 1 /\ logins \in Nat
    BY <1>2, NewSessionTypes DEF LoginElsewhere
  <2>1. SessionTypes' /\ LogTypes' /\ walk' \in [Tabs -> WalkRecords]
    BY <1>2, <2>2, TypeParts DEF LoginElsewhere, LogTypes, logVars
  <2>3. tab' \in [Tabs -> TabRecords(logins')]
    BY <1>2, <2>2, TabRecordsGrow, TypeParts DEF LoginElsewhere
  <2> QED
    BY <2>1, <2>3, TypePartsNext
<1>3. CASE Logout \/ DropCookie \/ Tick
  <2>1. UNCHANGED <<logins, logVars, tab, walk>>
    BY <1>3 DEF Logout, DropCookie, Tick
  <2>2. SessionTypes'
    BY <1>3, TypeParts DEF Logout, DropCookie, Tick, Forget, SessionTypes, NoToken
  <2>3. LogTypes' /\ tab' \in [Tabs -> TabRecords(logins')] /\ walk' \in [Tabs -> WalkRecords]
    BY <2>1, TypeParts DEF LogTypes, logVars
  <2> QED
    BY <2>2, <2>3, TypePartsNext
<1>5. CASE Restart
  <2>1. SessionTypes' /\ LogTypes' /\ walk' \in [Tabs -> WalkRecords]
    BY <1>5, TypeParts DEF Restart, SessionTypes, LogTypes, logVars
  <2>2. tab' \in [Tabs -> TabRecords(logins')]
    BY <1>5, TypeParts DEF Restart, TabRecords, Places
  <2> QED
    BY <2>1, <2>2, TypePartsNext
<1>6. CASE LogStep
  <2>1. PICK rs \in [Ids -> {"none", "running"} \cup Final] : LogBecomes(rs)
    <3>1. ASSUME NEW status \in {"running"} \cup Final, Log(status)
          PROVE  LogBecomes([rows EXCEPT ![lastRow + 1] = status])
      BY <3>1 DEF Log
    <3>2. ASSUME NEW r \in Ids, NEW status \in Final, Finish(r, status)
          PROVE  LogBecomes([rows EXCEPT ![r] = status])
      BY <3>2 DEF Finish
    <3>3. ASSUME NEW r, NEW status \in {"running"} \cup Final
          PROVE  [rows EXCEPT ![r] = status] \in [Ids -> {"none", "running"} \cup Final]
      BY DEF TypeOK
    <3> QED
      BY <1>6, <3>1, <3>2, <3>3 DEF LogStep
  <2>2. rows' \in [Ids -> {"none", "running"} \cup Final] /\ walk' \in [Tabs -> WalkRecords]
    BY <2>1, LogBecomesTypes
  <2>3. UNCHANGED <<sessionVars, limit, tab>>
    BY <1>6 DEF LogStep, Log, Finish
  <2>4. lastRow' \in {lastRow, lastRow + 1} /\ (lastRow' = lastRow \/ lastRow < MaxRows)
    BY <1>6 DEF LogStep, Log, Finish
  <2>5. repeats' \in {repeats, repeats + 1} /\ (repeats' = repeats \/ repeats < MaxRepeats)
    BY <1>6 DEF LogStep, Log, Finish
  <2>6. LogTypes'
    BY <2>2, <2>3, <2>4, <2>5, TypeParts DEF LogTypes
  <2>7. SessionTypes' /\ tab' \in [Tabs -> TabRecords(logins')]
    BY <2>3, TypeParts DEF SessionTypes, sessionVars
  <2> QED
    BY <2>2, <2>6, <2>7, TypePartsNext
<1>7. CASE UNCHANGED vars
  BY <1>7 DEF vars, sessionVars, logVars, TypeOK
<1> QED
  BY <1>1, <1>2, <1>3, <1>5, <1>6, <1>7 DEF Next

\* Logins, logouts, expiries and restarts keep table and history in step.
LEMMA StepSessions == TypeOK /\ SessionsAreLive /\ [Next]_vars => SessionsAreLive'
<1> SUFFICES ASSUME TypeOK, SessionsAreLive, [Next]_vars PROVE SessionsAreLive'
  OBVIOUS
<1> USE AdminWebAssumption DEF SessionsAreLive
<1>1. CASE UNCHANGED <<sessions, logins, born, ended>>
  BY <1>1
<1>2. CASE NewSession
  BY <1>2 DEF NewSession, TypeOK, Tokens, Absent
<1>3. CASE Logout
  BY <1>3 DEF Logout, Forget, TypeOK, Tokens, Absent
<1>4. CASE Restart
  BY <1>4 DEF Restart
<1>5. ASSUME NEW t \in Tabs, Refuse(t) \/ LoginForm(t) PROVE SessionsAreLive'
  BY <1>5 DEF Refuse, LoginForm, Forget, TypeOK, Tokens, Absent
<1>6. ASSUME NEW t \in Tabs, ReaderStep(t) PROVE UNCHANGED <<sessions, logins, born, ended>>
  BY <1>6 DEF ReaderStep, Open, Jump, Turn, ClickClear, Reload, sessionVars
<1>7. ASSUME NEW t \in Tabs, ServerStep(t)
      PROVE  Refuse(t) \/ LoginForm(t) \/ NewSession \/ UNCHANGED <<sessions, logins, born, ended>>
  BY <1>7 DEF ServerStep, LoginSubmit, Count, List, PageFails, Clear, ClearFails, sessionVars
<1>8. LoginElsewhere => NewSession
  BY DEF LoginElsewhere
<1>9. DropCookie \/ Tick \/ LogStep \/ UNCHANGED vars => UNCHANGED <<sessions, logins, born, ended>>
  BY DEF DropCookie, Tick, LogStep, Log, Finish, vars, sessionVars
<1> QED
  BY <1>1, <1>2, <1>3, <1>4, <1>5, <1>6, <1>7, <1>8, <1>9 DEF Next

\* Types and the session table hold in every reachable state.
LEMMA Invariant == Spec => [](TypeOK /\ SessionsAreLive)
<1>1. Init => SessionsAreLive
  BY DEF Init, SessionsAreLive
<1> QED
  BY InitTypes, StepTypes, StepSessions, <1>1, PTL DEF Spec

\* In every run the variables of the admin server and its readers stay in their types.
THEOREM TypeCorrect == Spec => []TypeOK
  BY Invariant, PTL

\* requireAuth lets a request in only with a session that is live at that moment, whatever
\* logins, logouts and restarts happened while the request was on its way.
THEOREM AdmittedAreLive == Spec => AdmittedIsLive
<1> DEFINE Step ==
      \A t \in Tabs :
        /\ tab[t].at \in {"asked", "clear"}
        /\ tab'[t].at \in {"counted", "broken", "cleared", "away"}
        => Live(tab[t].cookie)
<1>1. TypeOK /\ SessionsAreLive /\ [Next]_vars => [Step]_vars
  <2> SUFFICES ASSUME TypeOK, SessionsAreLive, Next, NEW t \in Tabs,
                      tab[t].at \in {"asked", "clear"},
                      tab'[t].at \in {"counted", "broken", "cleared", "away"}
               PROVE  Live(tab[t].cookie)
    OBVIOUS
  <2>1. Valid(tab[t].cookie)
    <3>1. ASSUME NEW u \in Tabs, ReaderStep(u) PROVE FALSE
      <4>1. \E what \in {"asked", "clear"} : \E page, f : Send(u, what, page, f)
        BY <3>1, Zenon DEF ReaderStep, Open, Jump, Turn, ClickClear, Reload
      <4>2. PICK what \in {"asked", "clear"} : \E page, f : Send(u, what, page, f)
        BY <4>1
      <4>3. PICK page, f : Send(u, what, page, f)
        BY <4>2
      <4>4. tab'[u].at = what /\ (u # t => tab'[t] = tab[t])
        BY <4>3 DEF Send, Away, TypeOK
      <4> QED
        BY <4>4
    <3>2. ASSUME NEW u \in Tabs, Refuse(u) \/ LoginForm(u) \/ LoginSubmit(u) PROVE FALSE
      <4>1. tab[u] \in TabRecords(logins)
        BY TypeParts
      <4>2. CASE Refuse(u)
        BY <4>1, <4>2 DEF Refuse, TabRecords, TypeOK
      <4>3. CASE LoginForm(u) \/ LoginSubmit(u)
        BY <4>1, <4>3 DEF LoginForm, LoginSubmit, Back, Away, TabRecords, TypeOK
      <4> QED
        BY <3>2, <4>2, <4>3
    <3>3. ASSUME NEW u \in Tabs, List(u) PROVE FALSE
      BY <3>3 DEF List, TypeOK
    <3>4. ASSUME NEW u \in Tabs, Count(u) \/ PageFails(u) \/ Clear(u) \/ ClearFails(u)
          PROVE  Valid(tab[t].cookie)
      <4>1. u = t
        BY <3>4 DEF Count, PageFails, Clear, ClearFails, TypeOK
      <4> QED
        BY <3>4, <4>1 DEF Count, PageFails, Clear, ClearFails
    <3>5. ~(LoginElsewhere \/ Logout \/ DropCookie \/ Tick \/ LogStep)
      BY DEF LoginElsewhere, Logout, DropCookie, Tick, LogStep, Log, Finish
    <3>6. ~Restart
      BY DEF Restart, TypeOK
    <3> QED
      BY <3>1, <3>2, <3>3, <3>4, <3>5, <3>6 DEF Next, ServerStep
  <2>2. tab[t].cookie \in 0 .. logins /\ logins \in 0 .. MaxLogins
    BY TypeParts DEF TabRecords, SessionTypes
  <2>3. tab[t].cookie \in Tokens
    BY <2>1, <2>2, AdminWebAssumption DEF Valid, NoToken, Tokens
  <2> QED
    BY <2>1, <2>3 DEF Valid, Live, SessionsAreLive
<1> QED
  BY Invariant, <1>1, PTL DEF Spec, AdmittedIsLive

(***************************************************************************)
(* Positions in a list.  What is listed before a row is counted, so these  *)
(* are facts about the cardinality of sets of row ids.                     *)
(***************************************************************************)

\* A set of numbers that is not empty has a smallest.
LEMMA Smallest ==
  ASSUME NEW S \in SUBSET Nat, S # {}
  PROVE  \E m \in S : \A x \in S : m <= x
<1>1. PICK m \in S : \A x \in S : ~(<<x, m>> \in OpToRel(<, Nat))
  BY NatLessThanWellFounded, WFMin, Zenon
<1>2. ASSUME NEW x \in S, x < m PROVE FALSE
  <2>1. <<x, m>> \in {ss \in Nat \X Nat : ss[1] < ss[2]}
    BY <1>2
  <2>2. OpToRel(<, Nat) = {ss \in Nat \X Nat : ss[1] < ss[2]}
    BY Zenon DEF OpToRel
  <2> QED
    BY <1>1, <2>1, <2>2, Zenon
<1> QED
  BY <1>2

\* A set of row ids that is not empty has a largest.
LEMMA Largest ==
  ASSUME NEW S \in SUBSET Ids, S # {}
  PROVE  \E m \in S : \A x \in S : m >= x
<1> USE AdminWebAssumption DEF Ids
<1> DEFINE T == {MaxRows - x : x \in S}
<1>0. \A x \in S : x \in Nat /\ MaxRows - x \in Nat
  OBVIOUS
<1>1. T \in SUBSET Nat /\ T # {}
  BY <1>0
<1>2. PICK k \in T : \A y \in T : k <= y
  <2> HIDE DEF T
  <2> QED
    BY <1>1, Smallest
<1>3. PICK m \in S : k = MaxRows - m
  OBVIOUS
<1>4. \A x \in S : MaxRows - m <= MaxRows - x
  BY <1>2, <1>3
<1> QED
  BY <1>0, <1>4

\* Sets of row ids are finite, and a subset has no more elements.
LEMMA IdsCounted ==
  ASSUME NEW S \in SUBSET Ids
  PROVE  /\ IsFiniteSet(S)
         /\ Cardinality(S) \in Nat
         /\ \A T \in SUBSET S : Cardinality(T) <= Cardinality(S)
<1>1. IsFiniteSet(Ids)
  BY FS_Interval, AdminWebAssumption DEF Ids
<1>2. IsFiniteSet(S)
  BY <1>1, FS_Subset
<1> QED
  BY <1>2, FS_Subset, FS_CardinalityType

\* A position is a number, at most the length of the list.
LEMMA BeforeType ==
  ASSUME NEW ms \in SUBSET Ids, NEW r \in Ids
  PROVE  Before(ms, r) \in Nat /\ Before(ms, r) <= Cardinality(ms)
<1>1. {x \in ms : x > r} \in SUBSET ms /\ {x \in ms : x > r} \in SUBSET Ids
  OBVIOUS
<1> QED
  BY <1>1, IdsCounted DEF Before

\* The more rows, the later a row is listed.
LEMMA BeforeGrows ==
  ASSUME NEW ms \in SUBSET Ids, NEW ns \in SUBSET ms, NEW r \in Ids
  PROVE  Before(ns, r) <= Before(ms, r)
<1>1. {x \in ns : x > r} \in SUBSET {x \in ms : x > r} /\ {x \in ms : x > r} \in SUBSET Ids
  OBVIOUS
<1> QED
  BY <1>1, IdsCounted DEF Before

\* Of two rows in the list the one with the smaller id comes later.
LEMMA BeforeOrders ==
  ASSUME NEW ms \in SUBSET Ids, NEW r \in ms, NEW s \in ms, s < r
  PROVE  Before(ms, r) + 1 <= Before(ms, s)
<1> USE AdminWebAssumption DEF Ids
<1> DEFINE A == {x \in ms : x > r}
           B == {x \in ms : x > s}
<1>0. r \in Int /\ s \in Int /\ (\A x \in ms : x \in Int)
  OBVIOUS
<1>1. A \in SUBSET Ids /\ B \in SUBSET Ids /\ A \cup {r} \in SUBSET B /\ r \notin A
  <2>1. A \in SUBSET Ids /\ B \in SUBSET Ids
    OBVIOUS
  <2>2. \A x \in A \cup {r} : x \in B
    BY <1>0
  <2>3. r \notin A
    BY <1>0
  <2> QED
    BY <2>1, <2>2, <2>3
<1>2. Cardinality(A \cup {r}) = Cardinality(A) + 1
  BY <1>1, IdsCounted, FS_AddElement
<1>3. Cardinality(A \cup {r}) <= Cardinality(B)
  BY <1>1, IdsCounted
<1> QED
  BY <1>1, <1>2, <1>3, IdsCounted DEF Before

\* A row that leaves moves the rows behind it up by one place.
LEMMA BeforeShrinks ==
  ASSUME NEW ms \in SUBSET Ids, NEW u, NEW s \in Ids
  PROVE  /\ Before(ms, s) - 1 <= Before(ms \ {u}, s)
         /\ ~(u > s) => Before(ms \ {u}, s) = Before(ms, s)
<1> DEFINE A == {x \in ms : x > s}
           B == {x \in ms \ {u} : x > s}
<1>1. A \in SUBSET Ids /\ B = A \ {u}
  OBVIOUS
<1>2. Cardinality(B) = IF u \in A THEN Cardinality(A) - 1 ELSE Cardinality(A)
  BY <1>1, IdsCounted, FS_RemoveElement
<1>3. Cardinality(A) \in Nat
  BY <1>1, IdsCounted
<1>4. ~(u > s) => u \notin A
  OBVIOUS
<1> HIDE DEF A, B
<1>5. /\ Cardinality(A) - 1 <= Cardinality(B)
      /\ ~(u > s) => Cardinality(B) = Cardinality(A)
  BY <1>2, <1>3, <1>4
<1> QED
  BY <1>5 DEF Before, A, B

\* No more rows are listed from a position on than the list has beyond it.
LEMMA RestOfList ==
  ASSUME NEW ms \in SUBSET Ids, NEW front \in Nat
  PROVE  LET rest == {r \in ms : Before(ms, r) >= front}
         IN  rest = {} \/ Cardinality(rest) <= Cardinality(ms) - front
<1> DEFINE rest == {r \in ms : Before(ms, r) >= front}
<1> SUFFICES ASSUME rest # {} PROVE Cardinality(rest) <= Cardinality(ms) - front
  OBVIOUS
<1>0. rest \in SUBSET Ids /\ rest \in SUBSET ms
  OBVIOUS
<1>1. PICK h \in rest : \A x \in rest : h >= x
  BY <1>0, Largest
<1> DEFINE A == {x \in ms : x > h}
<1>7. \A x \in Ids : x \in Int
  BY AdminWebAssumption DEF Ids
<1>8. \A x \in A : x \notin rest
  <2> HIDE DEF rest
  <2> QED
    BY <1>0, <1>1, <1>7
<1>2. A \in SUBSET (ms \ rest) /\ ms \ rest \in SUBSET Ids
  BY <1>8
<1>3. Cardinality(A) >= front /\ Cardinality(A) \in Nat
  BY <1>1, <1>2, IdsCounted DEF Before
<1>4. Cardinality(A) <= Cardinality(ms \ rest)
  BY <1>2, IdsCounted
<1> HIDE DEF rest, A
<1>5. Cardinality(ms \ rest) = Cardinality(ms) - Cardinality(rest)
  <2>1. IsFiniteSet(ms) /\ ms \cap rest = rest
    BY <1>0, IdsCounted
  <2> QED
    BY <2>1, FS_Difference
<1>6. Cardinality(ms) \in Nat /\ Cardinality(rest) \in Nat
  BY <1>0, IdsCounted
<1> QED
  BY <1>3, <1>4, <1>5, <1>6

\* Every position within the list is some row's.
LEMMA PositionTaken ==
  ASSUME NEW ms \in SUBSET Ids, NEW offset \in Nat, offset < Cardinality(ms)
  PROVE  \E r \in ms : Before(ms, r) = offset
<1> USE AdminWebAssumption DEF Ids
<1> DEFINE late == {r \in ms : Before(ms, r) >= offset}
<1>0. ms # {} /\ ms \in SUBSET Nat /\ Cardinality(ms) \in Nat
  BY FS_EmptySet, IdsCounted
<1>1. late # {}
  <2>1. PICK m \in ms : \A x \in ms : m <= x
    BY <1>0, Smallest
  <2>2. {x \in ms : x > m} = ms \ {m}
    <3>1. \A x \in ms : x > m <=> x # m
      BY <1>0, <2>1
    <3> QED
      BY <3>1
  <2>3. Cardinality(ms \ {m}) = Cardinality(ms) - 1
    BY IdsCounted, FS_RemoveElement
  <2> QED
    BY <1>0, <2>2, <2>3 DEF Before
<1>2. PICK m \in late : \A x \in late : m >= x
  BY <1>1, Largest
<1> DEFINE A == {x \in ms : x > m}
<1>3. A \in SUBSET Ids /\ A \in SUBSET Nat /\ Before(ms, m) = Cardinality(A)
  <2>1. \A x \in A : x \in Ids /\ x \in Nat
    BY <1>0
  <2>2. Before(ms, m) = Cardinality(A)
    BY DEF Before
  <2> QED
    BY <2>1, <2>2
<1>4. CASE A = {}
  BY <1>2, <1>3, <1>4, FS_EmptySet
<1>5. CASE A # {}
  <2>1. PICK y \in A : \A x \in A : y <= x
    BY <1>3, <1>5, Smallest
  <2>2. {x \in ms : x > y} = A \ {y}
    <3>1. \A x \in ms : x > y <=> (x > m /\ x # y)
      BY <1>0, <2>1
    <3> QED
      BY <3>1
  <2>3. Cardinality(A \ {y}) = Cardinality(A) - 1 /\ Cardinality(A) \in Nat
    BY <1>3, IdsCounted, FS_RemoveElement
  <2>4. Before(ms, y) = Cardinality(A) - 1
    BY <2>2, <2>3 DEF Before
  <2>5. Before(ms, y) < offset
    BY <1>2, <2>3, <2>4
  <2>6. Before(ms, m) = offset
    <3>1. Before(ms, m) >= offset
      BY <1>2
    <3> QED
      BY <1>3, <2>3, <2>4, <2>5, <3>1
  <2> QED
    BY <2>6
<1> QED
  BY <1>4, <1>5

(***************************************************************************)
(* The pager.                                                              *)
(***************************************************************************)

\* Division rounds down.
LEMMA Division ==
  ASSUME NEW a \in Nat, NEW n \in Nat \ {0}
  PROVE  /\ a \div n \in Nat
         /\ n * (a \div n) <= a
         /\ a < n * (a \div n) + n
  OBVIOUS

\* A larger number of pages holds more rows.
LEMMA PagesOrdered ==
  ASSUME NEW n \in Nat, NEW p \in Int, NEW q \in Int, p <= q
  PROVE  p * n <= q * n
  OBVIOUS

\* With a limit above 0 the pages of the pager end where the list ends.
LEMMA PagesCover ==
  ASSUME limit \in Limits, limit > 0, NEW total \in Nat
  PROVE  /\ TotalPages(total) \in Nat /\ TotalPages(total) >= 1
         /\ total <= TotalPages(total) * limit
         /\ total > 0 => (TotalPages(total) - 1) * limit < total
<1>0. limit \in Nat \ {0} /\ AtLeast(1, limit) = limit
  BY AdminWebAssumption DEF AtLeast
<1> DEFINE q == (total + limit - 1) \div limit
<1>1. TotalPages(total) = AtLeast(1, q)
  BY <1>0 DEF TotalPages
<1>2. q \in Nat /\ limit * q <= total + limit - 1 /\ total + limit - 1 < limit * q + limit
  BY <1>0, Division
<1> HIDE DEF q
<1>3. TotalPages(total) \in Nat /\ TotalPages(total) >= 1 /\ TotalPages(total) >= q
  BY <1>1, <1>2 DEF AtLeast
<1>4. total <= q * limit /\ q * limit <= TotalPages(total) * limit
  BY <1>0, <1>2, <1>3, PagesOrdered
<1>5. total > 0 => (TotalPages(total) - 1) * limit < total
  <2>1. CASE q < 1
    BY <1>0, <1>1, <1>2, <2>1 DEF AtLeast
  <2>2. CASE q >= 1
    <3>1. TotalPages(total) = q
      BY <1>1, <1>2, <2>2 DEF AtLeast
    <3>2. (q - 1) * limit = limit * q - limit
      BY <1>0, <1>2
    <3> QED
      BY <1>0, <1>2, <3>1, <3>2
  <2> QED
    BY <1>2, <2>1, <2>2
<1>6. q * limit \in Int /\ TotalPages(total) * limit \in Int
  BY <1>0, <1>2, <1>3
<1> QED
  BY <1>3, <1>4, <1>5, <1>6

\* There is at least one page, and newPagination picks one that exists: the page asked for,
\* or a lower one, or the first.
LEMMA ClampPicks ==
  ASSUME limit \in Limits, NEW page \in Int, NEW total \in Nat
  PROVE  /\ TotalPages(total) \in Nat
         /\ Clamp(page, total) \in 1 .. TotalPages(total)
         /\ Clamp(page, total) <= AtLeast(1, page)
<1>1. AtLeast(1, limit) \in Nat \ {0}
  BY AdminWebAssumption DEF AtLeast
<1>2. (total + AtLeast(1, limit) - 1) \div AtLeast(1, limit) \in Nat
  BY <1>1, Division
<1>3. TotalPages(total) \in Nat /\ TotalPages(total) >= 1
  BY <1>2 DEF TotalPages, AtLeast
<1> QED
  BY <1>3 DEF Clamp, AtLeast

(***************************************************************************)
(* What gets behind the front of a walk.                                   *)
(***************************************************************************)

\* The rows behind the front are counted.
LEMMA BehindType ==
  ASSUME NEW U \in SUBSET Ids, NEW ms, NEW front
  PROVE  /\ Behind(U, ms, front) \in SUBSET Ids
         /\ Cardinality(Behind(U, ms, front)) \in Nat
<1>1. Behind(U, ms, front) \in SUBSET Ids
  BY DEF Behind
<1> QED
  BY <1>1, IdsCounted

\* Going back, or having less to see, puts no row behind the front.
LEMMA BehindShrinks ==
  ASSUME NEW U \in SUBSET Ids, NEW V \in SUBSET U, NEW ms \in SUBSET Ids,
         NEW front \in Int, NEW lower \in Int, lower <= front
  PROVE  Cardinality(Behind(V, ms, lower)) <= Cardinality(Behind(U, ms, front))
<1>1. ASSUME NEW r \in Behind(V, ms, lower) PROVE r \in Behind(U, ms, front)
  <2>1. r \in Ids /\ r \in V /\ r \in U
    BY DEF Behind
  <2>2. Before(ms, r) \in Nat
    BY <2>1, BeforeType
  <2> QED
    BY <2>1, <2>2 DEF Behind
<1> QED
  BY <1>1, BehindType, IdsCounted

\* One row that joins or leaves the selection: a row that joins puts none behind the front,
\* and one that leaves at most one, itself or another.
LEMMA BehindOneMore ==
  ASSUME NEW U \in SUBSET Ids, NEW ms \in SUBSET Ids, NEW ns \in SUBSET Ids,
         NEW u, ms \ ns \subseteq {u}, ns \ ms \subseteq {u}, NEW front \in Int
  PROVE  Cardinality(Behind(U, ns, front)) <= Cardinality(Behind(U, ms, front)) + Cardinality(ms \ ns)
<1> DEFINE T == Behind(U, ms, front)
           Q == Behind(U, ns, front)
<1>0. Cardinality(T) \in Nat /\ Cardinality(Q) \in Nat /\ T \in SUBSET Ids /\ Q \in SUBSET Ids
  BY BehindType
<1>1. CASE ms \subseteq ns
  <2>1. ASSUME NEW r \in Q PROVE r \in T
    <3>1. r \in Ids /\ r \in U
      BY DEF Behind
    <3>2. Before(ms, r) <= Before(ns, r) /\ Before(ms, r) \in Nat /\ Before(ns, r) \in Nat
      BY <1>1, <3>1, BeforeGrows, BeforeType
    <3> QED
      BY <1>1, <3>1, <3>2 DEF Behind
  <2>2. Cardinality(Q) <= Cardinality(T)
    BY <1>0, <2>1, IdsCounted
  <2>3. Cardinality(ms \ ns) \in Nat
    BY IdsCounted
  <2> HIDE DEF Q, T
  <2>4. Cardinality(Q) <= Cardinality(T) + Cardinality(ms \ ns)
    BY <1>0, <2>2, <2>3
  <2> QED
    BY <2>4 DEF Q, T
<1>2. CASE ~(ms \subseteq ns)
  <2>1. u \in ms /\ ms \ ns = {u} /\ ns = ms \ {u}
    BY <1>2
  <2>2. Cardinality(ms \ ns) = 1
    BY <2>1, FS_Singleton
  <2>3. ASSUME NEW r \in Q \ T, NEW s \in Q \ T, s < r PROVE FALSE
    <3>1. /\ r \in U /\ r \in ms /\ s \in U /\ s \in ms /\ u \in Ids
          /\ r \in Int /\ s \in Int /\ u \in Int
      BY <2>1, AdminWebAssumption DEF Behind, Ids
    <3>2. /\ Before(ms, r) \in Nat /\ Before(ms, s) \in Nat
          /\ Before(ns, r) \in Nat /\ Before(ns, s) \in Nat
      BY <3>1, BeforeType
    <3>3. Before(ms, r) >= front
      BY <3>1, <3>2 DEF Behind
    <3>4. Before(ms, s) >= front + 1
      BY <2>3, <3>1, <3>2, <3>3, BeforeOrders
    <3>9. Before(ms, s) - 1 <= Before(ns, s)
      BY <2>1, <3>1, BeforeShrinks
    <3>5. Before(ns, s) >= front
      BY <3>2, <3>4, <3>9
    <3>6. s = u
      BY <2>1, <3>1, <3>2, <3>5 DEF Behind
    <3>7. ~(u > r) /\ r # u
      BY <2>3, <3>1, <3>6
    <3>8. Before(ns, r) = Before(ms, r)
      BY <2>1, <3>1, <3>7, BeforeShrinks
    <3> QED
      BY <2>1, <3>1, <3>2, <3>3, <3>7, <3>8 DEF Behind
  <2>4. \E e : Q \subseteq T \cup {e}
    <3>0. \A r \in Q \ T : r \in Int
      BY <1>0, AdminWebAssumption DEF Ids
    <3>1. \A r, s \in Q \ T : r = s
      BY <2>3, <3>0
    <3> HIDE DEF Q, T
    <3> QED
      BY <3>1
  <2> HIDE DEF Q, T
  <2>5. PICK e : Q \subseteq T \cup {e}
    BY <2>4
  <2>6. IsFiniteSet(T)
    BY <1>0, IdsCounted
  <2>7. /\ IsFiniteSet(T \cup {e})
        /\ Cardinality(T \cup {e}) <= Cardinality(T) + 1
        /\ Cardinality(T \cup {e}) \in Nat
    <3>1. /\ IsFiniteSet(T \cup {e})
          /\ Cardinality(T \cup {e}) = IF e \in T THEN Cardinality(T) ELSE Cardinality(T) + 1
      BY <2>6, FS_AddElement
    <3> QED
      BY <1>0, <3>1
  <2>8. Cardinality(Q) <= Cardinality(T \cup {e})
    BY <2>5, <2>7, FS_Subset
  <2>9. Cardinality(Q) <= Cardinality(T) + Cardinality(ms \ ns)
    BY <1>0, <2>2, <2>7, <2>8
  <2> QED
    BY <2>9 DEF Q, T
<1> QED
  BY <1>1, <1>2

\* When all rows are deleted, as many get behind the front as there were ahead of it.
LEMMA BehindCleared ==
  ASSUME NEW U \in SUBSET Ids, NEW ms \in SUBSET Ids, NEW front \in Int
  PROVE  Cardinality(Behind(U, {}, front)) <= Cardinality(Behind(U, ms, front)) + Cardinality(ms \ {})
<1> DEFINE T == Behind(U, ms, front)
           Q == Behind(U, {}, front)
<1>1. T \in SUBSET Ids /\ Q \in SUBSET Ids /\ Q \in SUBSET (T \cup ms) /\ ms \ {} = ms
  BY BehindType DEF Behind
<1> HIDE DEF T, Q
<1>2. IsFiniteSet(T) /\ IsFiniteSet(ms) /\ T \cup ms \in SUBSET Ids /\ T \cap ms \in SUBSET Ids
  BY <1>1, IdsCounted
<1>3. Cardinality(Q) <= Cardinality(T \cup ms)
  BY <1>1, <1>2, IdsCounted
<1>4. Cardinality(T \cup ms) = Cardinality(T) + Cardinality(ms) - Cardinality(T \cap ms)
  BY <1>2, FS_Union
<1>5. /\ Cardinality(T) \in Nat /\ Cardinality(ms) \in Nat
      /\ Cardinality(Q) \in Nat /\ Cardinality(T \cap ms) \in Nat
  BY <1>1, <1>2, IdsCounted
<1>6. Cardinality(Q) <= Cardinality(T) + Cardinality(ms)
  BY <1>3, <1>4, <1>5
<1> QED
  BY <1>1, <1>6 DEF T, Q

\* A selection grows by what joins it.
LEMMA GrowsByJoined ==
  ASSUME NEW ms \in SUBSET Ids, NEW ns \in SUBSET Ids
  PROVE  Cardinality(ns) <= Cardinality(ms) + Cardinality(ns \ ms)
<1>1. IsFiniteSet(ms) /\ IsFiniteSet(ns) /\ ns \cap ms \in SUBSET ms /\ ns \cap ms \in SUBSET Ids
  BY IdsCounted
<1>2. Cardinality(ns \ ms) = Cardinality(ns) - Cardinality(ns \cap ms)
  BY <1>1, FS_Difference
<1>3. Cardinality(ns \cap ms) <= Cardinality(ms)
  BY <1>1, IdsCounted
<1>4. Cardinality(ns) \in Nat /\ Cardinality(ms) \in Nat /\ Cardinality(ns \cap ms) \in Nat
  BY <1>1, IdsCounted
<1> QED
  BY <1>2, <1>3, <1>4

\* The page that is listed closes up with the front: it leaves no row behind that was not
\* behind before it.
LEMMA ListedInOrder ==
  ASSUME NEW U \in SUBSET Ids, NEW ms \in SUBSET Ids, limit \in Limits, NEW page \in Nat \ {0}
  PROVE  LET left == U \ ListBackupRuns(ms, Offset(page))
         IN  Cardinality(Behind(left, ms, page * AtLeast(0, limit)))
               <= Cardinality(Behind(U, ms, (page - 1) * AtLeast(0, limit)))
<1> DEFINE n == AtLeast(0, limit)
           left == U \ ListBackupRuns(ms, Offset(page))
           T == Behind(U, ms, (page - 1) * n)
           Q == Behind(left, ms, page * n)
<1>0. limit \in Int /\ n \in Nat
  BY AdminWebAssumption DEF AtLeast
<1>1. ASSUME NEW r \in Q PROVE r \in T
  <2>1. r \in Ids /\ r \in U /\ r \notin ListBackupRuns(ms, Offset(page))
    BY DEF Behind
  <2>2. Before(ms, r) \in Nat
    BY <2>1, BeforeType
  <2>3. CASE r \notin ms
    BY <2>1, <2>3 DEF Behind
  <2>4. CASE r \in ms
    <3>1. Before(ms, r) < page * n
      BY <2>4 DEF Behind
    <3>2. CASE limit <= 0
      <4>1. n = 0 /\ page * n = 0
        BY <1>0, <3>2 DEF AtLeast
      <4> QED
        BY <2>2, <3>1, <4>1
    <3>3. CASE limit > 0
      <4>1. n = limit /\ Offset(page) = (page - 1) * n
        BY <1>0, <3>3 DEF AtLeast, Offset
      <4>2. (page - 1) * n \in Nat /\ page * n = (page - 1) * n + n
        BY <1>0
      <4>5. \A k \in Nat : AtLeast(0, k) = k
        BY DEF AtLeast
      <4>3. AtLeast(0, Offset(page)) = (page - 1) * n
        BY <4>1, <4>2, <4>5
      <4>4. Before(ms, r) < (page - 1) * n
        BY <2>1, <2>2, <2>4, <3>1, <4>1, <4>2, <4>3 DEF ListBackupRuns
      <4> QED
        BY <2>1, <4>4 DEF Behind
    <3> QED
      BY <1>0, <3>2, <3>3
  <2> QED
    BY <2>3, <2>4
<1>2. T \in SUBSET Ids
  BY BehindType
<1>3. Cardinality(Q) <= Cardinality(T)
  BY <1>1, <1>2, IdsCounted
<1> QED
  BY <1>3

\* With the last page, a reader has seen what is not behind the front, but for as many rows
\* as the list is longer than it was counted.
LEMMA LastPageListed ==
  ASSUME NEW U \in SUBSET Ids, NEW ms \in SUBSET Ids, limit \in Limits, limit # 0,
         NEW total \in Nat, NEW joined \in Nat, Cardinality(ms) <= total + joined,
         NEW page, page = TotalPages(total), page \in Nat \ {0}
  PROVE  LET left == U \ ListBackupRuns(ms, Offset(page))
         IN  Cardinality(left)
               <= joined + Cardinality(Behind(U, ms, (page - 1) * AtLeast(0, limit)))
<1> DEFINE n == AtLeast(0, limit)
           left == U \ ListBackupRuns(ms, Offset(page))
           T == Behind(U, ms, (page - 1) * n)
           Q == Behind(left, ms, page * n)
           rest == {r \in ms : Before(ms, r) >= page * n}
<1>0. limit \in Int /\ n \in Nat
  BY AdminWebAssumption DEF AtLeast
<1>1. Cardinality(Q) <= Cardinality(T)
  BY ListedInOrder
<1>2. Cardinality(T) \in Nat /\ Cardinality(Q) \in Nat /\ Q \in SUBSET Ids
  BY BehindType
<1>3. Cardinality(ms) \in Nat /\ left \in SUBSET Ids
  BY IdsCounted
<1>4. CASE limit > 0
  <2>1. n = limit /\ page * n \in Nat /\ total <= page * n
    BY <1>0, <1>4, PagesCover DEF AtLeast
  <2>2. rest = {} \/ Cardinality(rest) <= Cardinality(ms) - page * n
    BY <2>1, RestOfList
  <2>3. rest \in SUBSET Ids /\ Cardinality(rest) \in Nat
    BY IdsCounted
  <2>4. left \in SUBSET (Q \cup rest)
    <3>1. ASSUME NEW r \in left, r \notin Q PROVE r \in rest
      <4>1. r \in Ids /\ r \in ms /\ ~(Before(ms, r) < page * n)
        BY <3>1 DEF Behind
      <4>2. Before(ms, r) \in Nat
        BY <4>1, BeforeType
      <4> QED
        BY <2>1, <4>1, <4>2
    <3> QED
      BY <3>1
  <2> HIDE DEF n, left, T, Q, rest
  <2>5. Cardinality(rest) <= joined
    BY <1>3, <2>1, <2>2, <2>3, FS_EmptySet
  <2>6. Cardinality(left) <= Cardinality(Q \cup rest)
    BY <1>2, <2>3, <2>4, IdsCounted
  <2>7. Cardinality(Q \cup rest) <= Cardinality(Q) + Cardinality(rest)
    <3>1. IsFiniteSet(Q) /\ IsFiniteSet(rest) /\ Q \cap rest \in SUBSET Ids
      BY <1>2, <2>3, IdsCounted
    <3>2. Cardinality(Q \cup rest) = Cardinality(Q) + Cardinality(rest) - Cardinality(Q \cap rest)
      BY <3>1, FS_Union
    <3>3. Cardinality(Q \cap rest) \in Nat
      BY <3>1, IdsCounted
    <3> QED
      BY <1>2, <2>3, <3>2, <3>3
  <2>8. Cardinality(left) \in Nat /\ Cardinality(Q \cup rest) \in Nat
    <3>1. Q \cup rest \in SUBSET Ids
      BY <1>2, <2>3
    <3> QED
      BY <1>3, <3>1, IdsCounted
  <2>9. Cardinality(left) <= joined + Cardinality(T)
    BY <1>1, <1>2, <2>3, <2>5, <2>6, <2>7, <2>8
  <2> QED
    BY <2>9 DEF left, T, n
<1>5. CASE limit < 0
  <2>1. Offset(page) <= 0 /\ Offset(page) \in Int
    BY <1>0, <1>5 DEF Offset
  <2>2. ASSUME NEW r \in left PROVE r \in T
    <3>1. r \in Ids /\ r \in U /\ r \notin ListBackupRuns(ms, Offset(page))
      OBVIOUS
    <3>2. Before(ms, r) \in Nat
      BY <3>1, BeforeType
    <3>3. r \notin ms
      BY <1>5, <2>1, <3>1, <3>2 DEF ListBackupRuns
    <3> QED
      BY <3>1, <3>3 DEF Behind
  <2>3. T \in SUBSET Ids
    BY BehindType
  <2> HIDE DEF left, T
  <2>4. Cardinality(left) <= Cardinality(T) /\ Cardinality(left) \in Nat
    BY <1>3, <2>2, <2>3, IdsCounted
  <2>5. Cardinality(left) <= joined + Cardinality(T)
    BY <1>2, <2>4
  <2> QED
    BY <2>5 DEF left, T, n
<1> QED
  BY <1>0, <1>4, <1>5

(***************************************************************************)
(* What a step can do to one tab and its walk.                             *)
(***************************************************************************)

\* Tabs that read no page of the log: there is nothing their walks still look for.
Idle == {"away", "clear", "loginClear", "cleared"}

\* Nothing that the tab reads or has read changes.
Rests(t) == tab'[t] = tab[t] /\ walk'[t] = walk[t] /\ rows' = rows

\* A new walk: from the first page with all that is selected, or with nothing to see.
Begins(t) ==
  /\ rows' = rows
  /\ walk'[t].left = 0
  /\ \/ /\ tab'[t].at = "asked"
        /\ AtLeast(1, tab'[t].page) = 1
        /\ walk'[t].unseen = Matching(rows, tab'[t].filter)
     \/ /\ tab'[t].at \in {"asked", "clear"}
        /\ walk'[t].unseen = {}

\* The same walk with no page shown, and the front where it was or further back.
GoesOn(t) ==
  /\ rows' = rows
  /\ walk'[t] = walk[t]
  /\ tab[t].at \notin Idle
  /\ tab'[t].at \in {"asked", "login", "broken"}
  /\ tab'[t].filter = tab[t].filter
  /\ Front(t)' <= Front(t)

\* No walk before and none after.
StaysIdle(t) ==
  /\ tab[t].at \in Idle
  /\ tab'[t].at \in Idle
  /\ walk'[t].unseen = walk[t].unseen

\* The log changes under the tab: it is emptied, or one row is added or finished.
LogMoves(t) ==
  /\ tab'[t] = tab[t]
  /\ \E rs : /\ LogBecomes(rs)
             /\ \/ rs = [r \in Ids |-> "none"]
                \/ \E u : \A r \in Ids \ {u} : rs[r] = rows[r]

\* LOG_LIST_LIMIT is read once.
LEMMA LimitFixed == [Next]_vars => limit' = limit
<1> SUFFICES ASSUME [Next]_vars PROVE limit' = limit
  OBVIOUS
<1>1. ASSUME NEW t \in Tabs, ReaderStep(t) PROVE limit' = limit
  BY <1>1 DEF ReaderStep, Open, Jump, Turn, ClickClear, Reload, logVars
<1>2. ASSUME NEW t \in Tabs, ServerStep(t) PROVE limit' = limit
  BY <1>2 DEF ServerStep, Refuse, LoginForm, LoginSubmit, Count, List, PageFails, Clear,
              ClearFails, logVars
<1>3. LoginElsewhere \/ Logout \/ DropCookie \/ Tick \/ Restart \/ LogStep \/ UNCHANGED vars
      => limit' = limit
  BY DEF LoginElsewhere, Logout, DropCookie, Tick, Restart, LogStep, Log, Finish, logVars, vars
<1> QED
  BY <1>1, <1>2, <1>3 DEF Next

\* The front is a number of rows; it does not move forward with the limit and the page.
LEMMA FrontType ==
  ASSUME TypeOK, NEW t \in Tabs
  PROVE  Front(t) \in Int
<1>1. AtLeast(0, limit) \in Int /\ tab[t].page \in Int
  BY AdminWebAssumption DEF TypeOK, AtLeast
<1>2. (IF tab[t].at = "shown" THEN tab[t].page ELSE AtLeast(1, tab[t].page) - 1) \in Int
  BY <1>1 DEF AtLeast
<1> QED
  BY <1>1, <1>2 DEF Front

\* A request for the next page, for an earlier one or for the same again.
LEMMA FrontKept ==
  ASSUME TypeOK, NEW t \in Tabs, limit' = limit, tab'[t].at # "shown", tab'[t].page \in Int,
         \/ tab[t].at = "shown" /\ tab[t].page >= 0 /\ tab'[t].page <= tab[t].page + 1
         \/ tab[t].at # "shown" /\ AtLeast(1, tab'[t].page) <= AtLeast(1, tab[t].page)
  PROVE  Front(t)' <= Front(t)
<1> DEFINE p == AtLeast(1, tab'[t].page) - 1
           q == IF tab[t].at = "shown" THEN tab[t].page ELSE AtLeast(1, tab[t].page) - 1
           n == AtLeast(0, limit)
<1>1. n \in Nat /\ tab[t].page \in Int
  BY AdminWebAssumption DEF TypeOK, AtLeast
<1>2. p \in Int /\ q \in Int /\ p <= q
  BY <1>1 DEF AtLeast
<1>3. Front(t)' = p * n
  BY DEF Front
<1>4. Front(t) = q * n
  BY DEF Front
<1> HIDE DEF p, q, n
<1> QED
  BY <1>1, <1>2, <1>3, <1>4, PagesOrdered

\* What is clicked in a tab begins a walk or goes on with one.
LEMMA ReaderMoves ==
  ASSUME TypeOK, TypeOK', PageExists, NEW t \in Tabs, ReaderStep(t)
  PROVE  Begins(t) \/ GoesOn(t)
<1>0. tab[t] \in TabRecords(logins) /\ walk[t] \in WalkRecords /\ limit' = limit
  BY TypeParts DEF ReaderStep, Open, Jump, Turn, ClickClear, Reload, logVars
<1>1. ASSUME NEW f \in Filters, Open(t, f) PROVE Begins(t)
  <2>1. tab'[t].at = "asked" /\ tab'[t].page = 0 /\ tab'[t].filter = f
    BY <1>1 DEF Open, Send, Away, TypeOK
  <2>2. walk'[t].left = 0 /\ walk'[t].unseen = Matching(rows, f) /\ rows' = rows
    BY <1>1 DEF Open, NoWalk, TypeOK, logVars
  <2> QED
    BY <2>1, <2>2 DEF Begins, AtLeast
<1>2. ASSUME NEW f \in Filters, NEW page \in Pages, Jump(t, f, page) PROVE Begins(t)
  BY <1>2 DEF Jump, Send, Away, NoWalk, TypeOK, Begins, logVars
<1>3. ASSUME ClickClear(t) PROVE Begins(t)
  BY <1>3 DEF ClickClear, Send, Away, NoWalk, TypeOK, Begins, logVars
<1>4. ASSUME Turn(t) \/ Reload(t) PROVE GoesOn(t)
  <2>1. PICK page : /\ Send(t, "asked", page, tab[t].filter)
                    /\ page \in Int
                    /\ \/ tab[t].at = "shown" /\ page <= tab[t].page + 1 /\ tab[t].page >= 0
                       \/ tab[t].at = "broken" /\ page = tab[t].page
    <3>1. tab[t].page \in Int
      BY <1>0 DEF TabRecords
    <3>2. CASE Turn(t)
      <4>1. tab[t].page \in 1 .. TotalPages(tab[t].total)
        BY <3>2 DEF Turn, PageExists
      <4>2. tab[t].page >= 0
        BY <3>1, <4>1
      <4>3. tab[t].page - 1 <= tab[t].page + 1 /\ tab[t].page - 1 \in Int /\ tab[t].page + 1 \in Int
        BY <3>1
      <4> QED
        BY <3>1, <3>2, <4>2, <4>3 DEF Turn
    <3>3. CASE Reload(t)
      BY <3>1, <3>3 DEF Reload
    <3> QED
      BY <1>4, <3>2, <3>3
  <2>2. tab'[t].at = "asked" /\ tab'[t].page = page /\ tab'[t].filter = tab[t].filter
    BY <2>1 DEF Send, Away, TypeOK
  <2>3. walk' = walk /\ rows' = rows
    BY <1>4 DEF Turn, Reload, logVars
  <2>4. AtLeast(1, page) \in Int
    BY <2>1 DEF AtLeast
  <2>5. Front(t)' <= Front(t)
    BY <1>0, <2>1, <2>2, <2>4, FrontKept
  <2> QED
    BY <2>1, <2>2, <2>3, <2>5 DEF GoesOn, Idle
<1> QED
  BY <1>1, <1>2, <1>3, <1>4 DEF ReaderStep

\* What the server does for a tab.
LEMMA ServerMoves ==
  ASSUME TypeOK, TypeOK', NEW t \in Tabs, ServerStep(t)
  PROVE  Rests(t) \/ GoesOn(t) \/ StaysIdle(t) \/ Count(t) \/ List(t)
<1>0. /\ tab[t] \in TabRecords(logins) /\ walk[t] \in WalkRecords /\ limit' = limit
      /\ tab[t].page \in Int /\ AtLeast(1, tab[t].page) \in Int
  BY TypeParts DEF ServerStep, Refuse, LoginForm, LoginSubmit, Count, List, PageFails, Clear,
                   ClearFails, logVars, TabRecords, AtLeast
<1>1. CASE Refuse(t)
  <2>1. /\ tab'[t].at = (IF tab[t].at = "asked" THEN "login" ELSE "loginClear")
        /\ tab'[t].page = tab[t].page /\ tab'[t].filter = tab[t].filter
    BY <1>0, <1>1 DEF Refuse, TypeOK, TabRecords
  <2>2. walk' = walk /\ rows' = rows /\ tab[t].at \in {"asked", "clear"}
    BY <1>1 DEF Refuse, logVars
  <2>3. CASE tab[t].at = "asked"
    <3>1. Front(t)' <= Front(t)
      BY <1>0, <2>1, <2>3, FrontKept
    <3> QED
      BY <2>1, <2>2, <2>3, <3>1 DEF GoesOn, Idle
  <2>4. CASE tab[t].at = "clear"
    BY <2>1, <2>2, <2>4 DEF StaysIdle, Idle
  <2> QED
    BY <2>2, <2>3, <2>4
<1>2. ASSUME NEW k, Back(t, k), tab[t].at \in {"login", "loginClear"}, UNCHANGED <<walk, rows>>
      PROVE  GoesOn(t) \/ StaysIdle(t)
  <2>1. CASE tab[t].at = "login"
    <3>1. tab'[t].at = "asked" /\ tab'[t].page = tab[t].page /\ tab'[t].filter = tab[t].filter
      BY <1>0, <1>2, <2>1 DEF Back, TypeOK, TabRecords
    <3>2. Front(t)' <= Front(t)
      BY <1>0, <2>1, <3>1, FrontKept
    <3> QED
      BY <1>2, <2>1, <3>1, <3>2 DEF GoesOn, Idle
  <2>2. CASE tab[t].at = "loginClear"
    BY <1>2, <2>2 DEF Back, Away, TypeOK, StaysIdle, Idle
  <2> QED
    BY <1>2, <2>1, <2>2
<1>3. CASE LoginForm(t)
  BY <1>2, <1>3 DEF LoginForm, logVars, Rests
<1>4. CASE LoginSubmit(t)
  BY <1>2, <1>4 DEF LoginSubmit, logVars
<1>5. CASE Clear(t)
  BY <1>0, <1>5 DEF Clear, LogBecomes, Away, TypeOK, WalkRecords, StaysIdle, Idle
<1>6. CASE ClearFails(t)
  BY <1>0, <1>6 DEF ClearFails, Away, TypeOK, StaysIdle, Idle, logVars
<1>7. CASE PageFails(t)
  <2>1. /\ tab'[t].at = "broken" /\ tab[t].at \in {"asked", "counted"}
        /\ tab'[t].page = tab[t].page /\ tab'[t].filter = tab[t].filter
        /\ walk' = walk /\ rows' = rows
    BY <1>0, <1>7 DEF PageFails, TypeOK, TabRecords, logVars
  <2>2. Front(t)' <= Front(t)
    BY <1>0, <2>1, FrontKept
  <2> QED
    BY <2>1, <2>2 DEF GoesOn, Idle
<1> QED
  BY <1>1, <1>3, <1>4, <1>5, <1>6, <1>7 DEF ServerStep

\* A step for one tab leaves the others alone, but for a clear, which empties the log.
LEMMA OtherTab ==
  ASSUME TypeOK, NEW t \in Tabs, NEW u \in Tabs, u # t, ReaderStep(u) \/ ServerStep(u)
  PROVE  Rests(t) \/ LogMoves(t)
<1>1. CASE ReaderStep(u)
  BY <1>1 DEF ReaderStep, Open, Jump, Turn, ClickClear, Reload, Send, TypeOK, Rests, logVars
<1>2. CASE Refuse(u) \/ LoginForm(u) \/ LoginSubmit(u)
  BY <1>2 DEF Refuse, LoginForm, LoginSubmit, Back, TypeOK, Rests, logVars
<1>3. CASE Count(u) \/ List(u) \/ PageFails(u) \/ ClearFails(u)
  BY <1>3 DEF Count, List, PageFails, ClearFails, TypeOK, Rests, logVars
<1>4. CASE Clear(u)
  BY <1>4 DEF Clear, TypeOK, LogMoves
<1> QED
  BY <1>1, <1>2, <1>3, <1>4 DEF ServerStep

\* All that can happen to a tab.
LEMMA TabMoves ==
  ASSUME TypeOK, TypeOK', PageExists, [Next]_vars, NEW t \in Tabs
  PROVE  \/ Rests(t) \/ Begins(t) \/ GoesOn(t) \/ StaysIdle(t)
         \/ Count(t) \/ List(t) \/ LogMoves(t)
<1>1. ASSUME NEW u \in Tabs, ReaderStep(u) \/ ServerStep(u)
      PROVE  \/ Rests(t) \/ Begins(t) \/ GoesOn(t) \/ StaysIdle(t)
             \/ Count(t) \/ List(t) \/ LogMoves(t)
  BY <1>1, ReaderMoves, ServerMoves, OtherTab
<1>2. CASE LoginElsewhere \/ Logout \/ DropCookie \/ Tick \/ UNCHANGED vars
  BY <1>2 DEF LoginElsewhere, Logout, DropCookie, Tick, vars, logVars, Rests
<1>3. CASE Restart
  <2>1. walk' = walk /\ rows' = rows /\ limit' = limit
    BY <1>3 DEF Restart, logVars
  <2>2. CASE tab[t].at = "counted"
    <3>1. tab[t] \in TabRecords(logins)
      BY TypeParts
    <3>2. tab'[t].at = "broken" /\ tab'[t].page = tab[t].page /\ tab'[t].filter = tab[t].filter
      BY <1>3, <2>2, <3>1 DEF Restart, TabRecords
    <3>3. tab[t].page \in Int /\ AtLeast(1, tab[t].page) \in Int
      BY <3>1 DEF TabRecords, AtLeast
    <3>4. Front(t)' <= Front(t)
      BY <2>1, <2>2, <3>2, <3>3, FrontKept
    <3> QED
      BY <2>1, <2>2, <3>2, <3>4 DEF GoesOn, Idle
  <2>3. CASE tab[t].at # "counted"
    BY <1>3, <2>1, <2>3 DEF Restart, Rests
  <2> QED
    BY <2>2, <2>3
<1>4. CASE LogStep
  <2>1. ASSUME NEW status \in {"running"} \cup Final, Log(status) PROVE LogMoves(t)
    <3>1. \A r \in Ids \ {lastRow + 1} : [rows EXCEPT ![lastRow + 1] = status][r] = rows[r]
      BY DEF TypeOK
    <3> QED
      BY <2>1, <3>1 DEF Log, LogMoves
  <2>2. ASSUME NEW r \in Ids, NEW status \in Final, Finish(r, status) PROVE LogMoves(t)
    <3>1. \A s \in Ids \ {r} : [rows EXCEPT ![r] = status][s] = rows[s]
      BY DEF TypeOK
    <3> QED
      BY <2>2, <3>1 DEF Finish, LogMoves
  <2> QED
    BY <1>4, <2>1, <2>2 DEF LogStep
<1> QED
  BY <1>1, <1>2, <1>3, <1>4 DEF Next

(***************************************************************************)
(* The walk through the log.                                               *)
(***************************************************************************)

\* What holds of a tab between its steps.
WalkInv == PageExists /\ PassedLeft /\ CountedOrJoined /\ WalkEnds

\* A tab's count and page are what Count and List make of them.
LEMMA CountEffect ==
  ASSUME TypeOK, NEW t \in Tabs, Count(t)
  PROVE  /\ tab[t].at = "asked" /\ tab'[t].at = "counted"
         /\ tab'[t].total = Cardinality(Matching(rows, tab[t].filter))
         /\ tab'[t].page = tab[t].page
         /\ tab'[t].filter = tab[t].filter
         /\ walk'[t].unseen = walk[t].unseen /\ walk'[t].joined = 0 /\ walk'[t].left = walk[t].left
         /\ rows' = rows
<1>0. tab[t] \in TabRecords(logins) /\ walk[t] \in WalkRecords
  BY TypeParts
<1>1. walk'[t].unseen = walk[t].unseen /\ walk'[t].joined = 0 /\ walk'[t].left = walk[t].left
  BY <1>0 DEF Count, TypeOK, WalkRecords
<1>2. /\ tab[t].at = "asked" /\ tab'[t].at = "counted"
      /\ tab'[t].total = Cardinality(Matching(rows, tab[t].filter))
      /\ tab'[t].page = tab[t].page
      /\ tab'[t].filter = tab[t].filter
  BY <1>0 DEF Count, TypeOK, TabRecords
<1> QED
  BY <1>1, <1>2 DEF Count, logVars

\* The same for List.
LEMMA ListEffect ==
  ASSUME TypeOK, NEW t \in Tabs, List(t)
  PROVE  LET page == Clamp(tab[t].page, tab[t].total)
             shown == ListBackupRuns(Matching(rows, tab[t].filter), Offset(page))
         IN  /\ tab[t].at = "counted" /\ tab'[t].at = "shown"
             /\ tab'[t].total = tab[t].total
             /\ tab'[t].page = page
             /\ tab'[t].filter = tab[t].filter
             /\ tab'[t].shown = shown
             /\ walk'[t].unseen = walk[t].unseen \ shown
             /\ walk'[t].joined = walk[t].joined /\ walk'[t].left = walk[t].left
             /\ rows' = rows
<1> DEFINE page == Clamp(tab[t].page, tab[t].total)
           shown == ListBackupRuns(Matching(rows, tab[t].filter), Offset(page))
<1>0. tab[t] \in TabRecords(logins) /\ walk[t] \in WalkRecords
  BY TypeParts
<1>1. /\ tab[t].at = "counted"
      /\ tab' = [tab EXCEPT ![t].at = "shown", ![t].page = page, ![t].shown = shown]
      /\ walk' = [walk EXCEPT ![t].unseen = @ \ shown]
      /\ rows' = rows
  BY DEF List, logVars
<1> HIDE DEF page, shown
<1>2. /\ walk'[t].unseen = walk[t].unseen \ shown
      /\ walk'[t].joined = walk[t].joined /\ walk'[t].left = walk[t].left
  BY <1>0, <1>1 DEF TypeOK, WalkRecords
<1>3. /\ tab'[t].at = "shown" /\ tab'[t].total = tab[t].total /\ tab'[t].page = page
      /\ tab'[t].filter = tab[t].filter /\ tab'[t].shown = shown
  BY <1>0, <1>1 DEF TypeOK, TabRecords
<1> QED
  BY <1>1, <1>2, <1>3 DEF page, shown

\* A change of the log is counted in every walk.
LEMMA LogEffect ==
  ASSUME TypeOK, NEW t \in Tabs, NEW rs, LogBecomes(rs)
  PROVE  LET old == Matching(rows, tab[t].filter)
             new == Matching(rs, tab[t].filter)
         IN  /\ rows' = rs
             /\ walk'[t].unseen = walk[t].unseen
             /\ walk'[t].left = walk[t].left + Cardinality(old \ new)
             /\ walk'[t].joined = IF tab[t].at = "counted"
                                  THEN walk[t].joined + Cardinality(new \ old) ELSE walk[t].joined
<1>0. walk[t] \in WalkRecords
  BY TypeParts
<1> QED
  BY <1>0 DEF LogBecomes, WalkRecords

\* Every page that is shown exists.
LEMMA NextPageExists ==
  ASSUME TypeOK, TypeOK', PageExists, [Next]_vars
  PROVE  PageExists'
<1> SUFFICES ASSUME NEW t \in Tabs, tab'[t].at = "shown"
             PROVE  tab'[t].page \in 1 .. TotalPages(tab[t].total)'
  BY DEF PageExists
<1>0. TotalPages(tab[t].total)' = TotalPages(tab'[t].total)
  BY LimitFixed DEF TotalPages, AtLeast
<1>1. tab[t].page \in Int /\ tab[t].total \in Nat /\ limit \in Limits
  BY DEF TypeOK
<1>2. CASE Count(t)
  BY <1>2, CountEffect
<1>3. CASE List(t)
  BY <1>0, <1>1, <1>3, ListEffect, ClampPicks
<1>4. CASE Rests(t) \/ LogMoves(t)
  BY <1>0, <1>4 DEF PageExists, Rests, LogMoves
<1>5. ~(Begins(t) \/ GoesOn(t) \/ StaysIdle(t))
  BY DEF Begins, GoesOn, StaysIdle, Idle
<1> QED
  BY <1>2, <1>3, <1>4, <1>5, TabMoves

\* What one row does to the selection of a filter: only itself can join or leave it.
LEMMA MatchingMoves ==
  ASSUME NEW rs, NEW f, NEW u, \A r \in Ids \ {u} : rs[r] = rows[r]
  PROVE  /\ Matching(rows, f) \ Matching(rs, f) \subseteq {u}
         /\ Matching(rs, f) \ Matching(rows, f) \subseteq {u}
  BY DEF Matching

\* The rows behind the front are at most those that left.
LEMMA NextPassedLeft ==
  ASSUME TypeOK, TypeOK', WalkInv, [Next]_vars
  PROVE  PassedLeft'
<1> SUFFICES ASSUME NEW t \in Tabs
             PROVE  Cardinality(Behind(walk'[t].unseen, Matching(rows', tab'[t].filter), Front(t)'))
                      <= walk'[t].left
  BY DEF PassedLeft, Behind, Before, Matching
<1> DEFINE U == walk[t].unseen
           ms == Matching(rows, tab[t].filter)
<1>0. /\ U \in SUBSET Ids /\ walk[t].left \in Nat
      /\ walk'[t].unseen \in SUBSET Ids /\ walk'[t].left \in Nat
  BY DEF TypeOK
<1>1. Front(t) \in Int /\ Front(t)' \in Int
  <2>1. AtLeast(0, limit)' \in Int /\ tab'[t].page \in Int
    BY AdminWebAssumption DEF TypeOK, AtLeast
  <2>2. (IF tab'[t].at = "shown" THEN tab'[t].page ELSE AtLeast(1, tab'[t].page) - 1) \in Int
    BY <2>1 DEF AtLeast
  <2>3. Front(t)' \in Int
    BY <2>1, <2>2 DEF Front, AtLeast
  <2> QED
    BY <2>3, FrontType
<1>2. ms \in SUBSET Ids /\ Cardinality(Behind(U, ms, Front(t))) <= walk[t].left
  BY MatchingFinite DEF WalkInv, PassedLeft
<1>3. Cardinality(Behind(U, ms, Front(t))) \in Nat
  BY <1>0, BehindType
<1>nothing. ASSUME walk'[t].unseen = {}
            PROVE  Cardinality(Behind(walk'[t].unseen, Matching(rows', tab'[t].filter), Front(t)'))
                     <= walk'[t].left
  <2>1. Behind(walk'[t].unseen, Matching(rows', tab'[t].filter), Front(t)') = {}
    BY <1>nothing DEF Behind
  <2> QED
    BY <1>0, <2>1, FS_EmptySet
<1>4. CASE Rests(t)
  <2>1. Front(t)' = Front(t)
    BY <1>4, LimitFixed DEF Rests, Front
  <2> QED
    BY <1>2, <1>4, <2>1 DEF Rests
<1>5. CASE Begins(t)
  <2>1. CASE walk'[t].unseen = {}
    BY <1>nothing, <2>1
  <2>2. CASE /\ tab'[t].at = "asked"
             /\ AtLeast(1, tab'[t].page) = 1
             /\ walk'[t].unseen = Matching(rows, tab'[t].filter)
    <3>1. AtLeast(0, limit)' \in Int
      BY AdminWebAssumption DEF TypeOK, AtLeast
    <3>2. Front(t)' = 0
      BY <2>2, <3>1 DEF Front, AtLeast
    <3>3. Matching(rows', tab'[t].filter) = walk'[t].unseen
      BY <1>5, <2>2 DEF Begins
    <3>4. \A r \in walk'[t].unseen : Before(walk'[t].unseen, r) \in Nat
      BY <1>0, BeforeType
    <3>5. Behind(walk'[t].unseen, walk'[t].unseen, 0) = {}
      BY <3>4 DEF Behind
    <3> QED
      BY <1>0, <3>2, <3>3, <3>5, FS_EmptySet
  <2> QED
    BY <1>5, <2>1, <2>2 DEF Begins
<1>6. CASE GoesOn(t)
  <2>1. Cardinality(Behind(U, ms, Front(t)')) <= Cardinality(Behind(U, ms, Front(t)))
    BY <1>0, <1>1, <1>2, <1>6, BehindShrinks DEF GoesOn
  <2>2. Cardinality(Behind(U, ms, Front(t)')) \in Nat
    BY <1>0, BehindType
  <2>3. Cardinality(Behind(U, ms, Front(t)')) <= walk[t].left
    BY <1>0, <1>2, <1>3, <2>1, <2>2
  <2> QED
    BY <1>6, <2>3 DEF GoesOn
<1>7. CASE StaysIdle(t)
  BY <1>7, <1>nothing DEF StaysIdle, WalkInv, WalkEnds, Idle
<1>8. CASE Count(t)
  <2>1. tab[t].page \in Int /\ tab'[t].total \in Nat /\ limit \in Limits /\ tab'[t].page \in Int
    BY DEF TypeOK
  <2>2. tab'[t].page = tab[t].page /\ AtLeast(1, tab[t].page) \in Int
    BY <1>8, <2>1, CountEffect DEF AtLeast
  <2>3. AtLeast(1, tab'[t].page) <= AtLeast(1, tab[t].page)
    BY <2>2
  <2>4. Front(t)' <= Front(t)
    BY <1>8, <2>1, <2>3, CountEffect, LimitFixed, FrontKept
  <2>5. Cardinality(Behind(U, ms, Front(t)')) <= Cardinality(Behind(U, ms, Front(t)))
    BY <1>0, <1>1, <1>2, <2>4, BehindShrinks
  <2>6. Cardinality(Behind(U, ms, Front(t)')) \in Nat
    BY <1>0, BehindType
  <2>7. Cardinality(Behind(U, ms, Front(t)')) <= walk[t].left
    BY <1>0, <1>2, <1>3, <2>5, <2>6
  <2> QED
    BY <1>8, <2>7, CountEffect
<1>9. CASE List(t)
  <2> DEFINE page == Clamp(tab[t].page, tab[t].total)
             front == (page - 1) * AtLeast(0, limit)
             shown == ListBackupRuns(ms, Offset(page))
  <2>1. tab[t].page \in Int /\ tab[t].total \in Nat /\ limit \in Limits /\ AtLeast(0, limit) \in Nat
    BY AdminWebAssumption DEF TypeOK, AtLeast
  <2>2. page \in Nat \ {0} /\ page <= AtLeast(1, tab[t].page)
    <3>1. /\ page \in 1 .. TotalPages(tab[t].total) /\ TotalPages(tab[t].total) \in Nat
          /\ page <= AtLeast(1, tab[t].page)
      BY <2>1, ClampPicks
    <3> HIDE DEF page
    <3> QED
      BY <3>1
  <2>3. Front(t)' = page * AtLeast(0, limit)
    BY <1>9, ListEffect, LimitFixed DEF Front, AtLeast
  <2>4. front <= Front(t) /\ front \in Int
    <3> HIDE DEF page
    <3>1. Front(t) = (AtLeast(1, tab[t].page) - 1) * AtLeast(0, limit)
      BY <1>9, ListEffect DEF Front
    <3>2. AtLeast(1, tab[t].page) - 1 \in Int /\ page - 1 <= AtLeast(1, tab[t].page) - 1
      BY <2>1, <2>2 DEF AtLeast
    <3> QED
      BY <2>1, <2>2, <3>1, <3>2, PagesOrdered
  <2>5. /\ Cardinality(Behind(U \ shown, ms, Front(t)')) <= Cardinality(Behind(U, ms, front))
        /\ Cardinality(Behind(U, ms, front)) <= Cardinality(Behind(U, ms, Front(t)))
    <3> HIDE DEF page
    <3>1. Cardinality(Behind(U \ shown, ms, Front(t)')) <= Cardinality(Behind(U, ms, front))
      BY <1>0, <1>2, <2>1, <2>2, <2>3, ListedInOrder
    <3>2. Cardinality(Behind(U, ms, front)) <= Cardinality(Behind(U, ms, Front(t)))
      BY <1>0, <1>1, <1>2, <2>4, BehindShrinks
    <3> QED
      BY <3>1, <3>2
  <2>6. /\ Cardinality(Behind(U \ shown, ms, Front(t)')) \in Nat
        /\ Cardinality(Behind(U, ms, front)) \in Nat
    <3>1. U \ shown \in SUBSET Ids
      BY <1>0
    <3> QED
      BY <1>0, <3>1, BehindType
  <2>7. Cardinality(Behind(U \ shown, ms, Front(t)')) <= walk[t].left
    <3> HIDE DEF page, front, shown, U, ms
    <3> QED
      BY <1>0, <1>2, <1>3, <2>5, <2>6
  <2> QED
    BY <1>9, <2>7, ListEffect
<1>10. CASE LogMoves(t)
  <2>1. PICK rs : /\ LogBecomes(rs)
                  /\ \/ rs = [r \in Ids |-> "none"]
                     \/ \E u : \A r \in Ids \ {u} : rs[r] = rows[r]
    BY <1>10 DEF LogMoves
  <2> DEFINE ns == Matching(rs, tab[t].filter)
  <2>2. /\ rows' = rs /\ walk'[t].unseen = U
        /\ walk'[t].left = walk[t].left + Cardinality(ms \ ns)
    BY <2>1, LogEffect
  <2>3. ns \in SUBSET Ids /\ Cardinality(ms \ ns) \in Nat
    BY MatchingFinite, DifferenceCounted
  <2>4. Front(t)' = Front(t)
    BY <1>10, LimitFixed DEF LogMoves, Front
  <2>5. Cardinality(Behind(U, ns, Front(t)))
          <= Cardinality(Behind(U, ms, Front(t))) + Cardinality(ms \ ns)
    <3>1. CASE rs = [r \in Ids |-> "none"]
      <4>1. ns = {}
        BY <3>1 DEF Matching
      <4> QED
        BY <1>0, <1>1, <1>2, <4>1, BehindCleared
    <3>2. ASSUME NEW u, \A r \in Ids \ {u} : rs[r] = rows[r]
          PROVE  Cardinality(Behind(U, ns, Front(t)))
                   <= Cardinality(Behind(U, ms, Front(t))) + Cardinality(ms \ ns)
      <4>1. ms \ ns \subseteq {u} /\ ns \ ms \subseteq {u}
        BY <3>2, MatchingMoves
      <4> HIDE DEF U, ms, ns
      <4> QED
        BY <1>0, <1>1, <1>2, <2>3, <4>1, BehindOneMore
    <3> QED
      BY <2>1, <3>1, <3>2
  <2>6. Cardinality(Behind(U, ns, Front(t))) \in Nat
    BY <1>0, BehindType
  <2> HIDE DEF ns, U, ms
  <2>7. Cardinality(Behind(U, ns, Front(t))) <= walk'[t].left
    BY <1>0, <1>2, <1>3, <2>2, <2>3, <2>5, <2>6
  <2> QED
    BY <1>10, <2>2, <2>4, <2>7 DEF LogMoves, ns
<1> QED
  BY <1>4, <1>5, <1>6, <1>7, <1>8, <1>9, <1>10, TabMoves DEF WalkInv

\* Between count and list the selection grows by what joins it.
LEMMA NextCountedOrJoined ==
  ASSUME TypeOK, TypeOK', WalkInv, [Next]_vars
  PROVE  CountedOrJoined'
<1> SUFFICES ASSUME NEW t \in Tabs, tab'[t].at = "counted"
             PROVE  Cardinality(Matching(rows', tab'[t].filter)) <= tab'[t].total + walk'[t].joined
  BY DEF CountedOrJoined, Matching
<1> DEFINE ms == Matching(rows, tab[t].filter)
<1>0. Cardinality(ms) \in Nat /\ tab[t].total \in Nat /\ walk[t].joined \in Nat /\ ms \in SUBSET Ids
  BY MatchingFinite DEF TypeOK
<1>1. CASE Rests(t)
  BY <1>1 DEF Rests, WalkInv, CountedOrJoined
<1>2. CASE Count(t)
  <2>1. tab'[t].total = Cardinality(ms) /\ walk'[t].joined = 0 /\ tab'[t].filter = tab[t].filter
        /\ rows' = rows
    BY <1>2, CountEffect
  <2> QED
    BY <1>0, <2>1
<1>3. CASE LogMoves(t)
  <2>1. PICK rs : LogBecomes(rs)
    BY <1>3 DEF LogMoves
  <2> DEFINE ns == Matching(rs, tab[t].filter)
  <2>2. tab'[t] = tab[t] /\ tab[t].at = "counted"
    BY <1>3 DEF LogMoves
  <2>3. rows' = rs /\ walk'[t].joined = walk[t].joined + Cardinality(ns \ ms)
    BY <2>1, <2>2, LogEffect
  <2>4. ns \in SUBSET Ids /\ Cardinality(ns) \in Nat /\ Cardinality(ns \ ms) \in Nat
    BY MatchingFinite, DifferenceCounted
  <2>5. Cardinality(ms) <= tab[t].total + walk[t].joined
    BY <2>2 DEF WalkInv, CountedOrJoined
  <2>6. Cardinality(ns) <= Cardinality(ms) + Cardinality(ns \ ms)
    BY <1>0, <2>4, GrowsByJoined
  <2> HIDE DEF ms, ns
  <2>7. Cardinality(ns) <= tab[t].total + walk'[t].joined
    BY <1>0, <2>3, <2>4, <2>5, <2>6
  <2> QED
    BY <2>2, <2>3, <2>7 DEF ns
<1>4. ~(Begins(t) \/ GoesOn(t) \/ StaysIdle(t) \/ List(t))
  BY ListEffect DEF Begins, GoesOn, StaysIdle, Idle
<1> QED
  BY <1>1, <1>2, <1>3, <1>4, TabMoves DEF WalkInv

\* At the last page only joined rows and rows behind the front have not been seen.
LEMMA NextWalkEnds ==
  ASSUME TypeOK, TypeOK', WalkInv, [Next]_vars
  PROVE  WalkEnds'
<1> SUFFICES ASSUME NEW t \in Tabs
             PROVE  /\ tab'[t].at \in Idle => walk'[t].unseen = {}
                    /\ tab'[t].at = "shown" /\ ~HasNext(t)' /\ limit' # 0 =>
                         Cardinality(walk'[t].unseen) <= walk'[t].joined + walk'[t].left
  BY DEF WalkEnds, Idle
<1>0. /\ walk[t].unseen \in SUBSET Ids /\ walk[t].left \in Nat /\ walk[t].joined \in Nat
      /\ tab[t].total \in Nat /\ tab[t].page \in Int /\ limit \in Limits
  BY DEF TypeOK
<1>1. /\ tab[t].at \in Idle => walk[t].unseen = {}
      /\ tab[t].at = "shown" /\ ~HasNext(t) /\ limit # 0 =>
           Cardinality(walk[t].unseen) <= walk[t].joined + walk[t].left
  BY DEF WalkInv, WalkEnds, Idle
<1>2. limit' = limit
  BY LimitFixed
<1>3. CASE Rests(t)
  <2>1. HasNext(t)' <=> HasNext(t)
    BY <1>2, <1>3 DEF Rests, HasNext, TotalPages, AtLeast
  <2> QED
    BY <1>1, <1>2, <1>3, <2>1 DEF Rests
<1>4. CASE Begins(t)
  BY <1>4 DEF Begins, Idle
<1>5. CASE GoesOn(t)
  BY <1>5 DEF GoesOn, Idle
<1>6. CASE StaysIdle(t)
  BY <1>1, <1>6 DEF StaysIdle, Idle
<1>7. CASE Count(t)
  BY <1>7, CountEffect DEF Idle
<1>8. CASE List(t)
  <2> DEFINE U == walk[t].unseen
             ms == Matching(rows, tab[t].filter)
             page == Clamp(tab[t].page, tab[t].total)
             front == (page - 1) * AtLeast(0, limit)
             shown == ListBackupRuns(ms, Offset(page))
  <2>1. tab'[t].at = "shown" /\ tab[t].at = "counted"
    BY <1>8, ListEffect
  <2>2. page \in 1 .. TotalPages(tab[t].total) /\ Cardinality(ms) <= tab[t].total + walk[t].joined
    BY <1>0, <2>1, ClampPicks DEF WalkInv, CountedOrJoined
  <2>3. ASSUME ~HasNext(t)', limit' # 0
        PROVE  Cardinality(walk'[t].unseen) <= walk'[t].joined + walk'[t].left
    <3>1. ~(page < TotalPages(tab[t].total))
      BY <1>2, <1>8, <2>3, ListEffect DEF HasNext, TotalPages, AtLeast
    <3>2. TotalPages(tab[t].total) \in Nat
      BY <1>0, ClampPicks
    <3>3. page = TotalPages(tab[t].total) /\ page \in Nat \ {0}
      BY <1>0, <2>2, <3>1, <3>2
    <3>4. ms \in SUBSET Ids
      BY MatchingFinite
    <3>5. Cardinality(U \ shown) <= walk[t].joined + Cardinality(Behind(U, ms, front))
      BY <1>0, <1>2, <2>2, <2>3, <3>3, <3>4, LastPageListed
    <3>6. front <= Front(t) /\ front \in Int
      <4> HIDE DEF page
      <4>1. Front(t) = (AtLeast(1, tab[t].page) - 1) * AtLeast(0, limit)
        BY <2>1 DEF Front
      <4>2. /\ AtLeast(1, tab[t].page) - 1 \in Int /\ AtLeast(0, limit) \in Nat
            /\ page - 1 <= AtLeast(1, tab[t].page) - 1
        <5>1. page <= AtLeast(1, tab[t].page)
          BY <1>0, ClampPicks DEF page
        <5> QED
          BY AdminWebAssumption, <1>0, <3>3, <5>1 DEF AtLeast
      <4> QED
        BY <3>3, <4>1, <4>2, PagesOrdered
    <3>7. /\ Cardinality(Behind(U, ms, front)) <= Cardinality(Behind(U, ms, Front(t)))
          /\ Cardinality(Behind(U, ms, Front(t))) <= walk[t].left
      <4>1. Front(t) \in Int
        BY FrontType
      <4> HIDE DEF page, front
      <4> QED
        BY <1>0, <3>4, <3>6, <4>1, BehindShrinks DEF WalkInv, PassedLeft
    <3>8. /\ Cardinality(Behind(U, ms, Front(t))) \in Nat /\ Cardinality(U \ shown) \in Nat
          /\ Cardinality(Behind(U, ms, front)) \in Nat
      <4>1. U \ shown \in SUBSET Ids
        BY <1>0
      <4> QED
        BY <1>0, <4>1, BehindType, IdsCounted
    <3> HIDE DEF U, ms, shown, page, front
    <3>9. Cardinality(U \ shown) <= walk[t].joined + walk[t].left
      BY <1>0, <3>5, <3>7, <3>8
    <3> QED
      BY <1>8, <3>9, ListEffect DEF U, ms, shown, page
  <2> QED
    BY <2>1, <2>3 DEF Idle
<1>9. CASE LogMoves(t)
  <2>1. PICK rs : LogBecomes(rs)
    BY <1>9 DEF LogMoves
  <2> DEFINE out == Cardinality(Matching(rows, tab[t].filter) \ Matching(rs, tab[t].filter))
  <2>2. tab'[t] = tab[t] /\ walk'[t].unseen = walk[t].unseen /\ walk'[t].left = walk[t].left + out
    BY <1>9, <2>1, LogEffect DEF LogMoves
  <2>3. tab[t].at = "shown" => walk'[t].joined = walk[t].joined
    BY <2>1, LogEffect
  <2>4. out \in Nat
    BY DifferenceCounted
  <2>5. HasNext(t)' <=> HasNext(t)
    BY <1>2, <2>2 DEF HasNext, TotalPages, AtLeast
  <2>6. Cardinality(walk[t].unseen) \in Nat
    BY <1>0, IdsCounted
  <2> HIDE DEF out
  <2>7. ASSUME tab'[t].at = "shown", ~HasNext(t)', limit' # 0
        PROVE  Cardinality(walk'[t].unseen) <= walk'[t].joined + walk'[t].left
    <3>1. Cardinality(walk[t].unseen) <= walk[t].joined + walk[t].left
      BY <1>1, <1>2, <2>2, <2>5, <2>7
    <3> QED
      BY <1>0, <2>2, <2>3, <2>4, <2>6, <2>7, <3>1
  <2> QED
    BY <1>1, <2>2, <2>7
<1> QED
  BY <1>3, <1>4, <1>5, <1>6, <1>7, <1>8, <1>9, TabMoves DEF WalkInv

\* The walks' invariant holds of the first state.
LEMMA InitWalkInv == Init => WalkInv
<1> SUFFICES ASSUME Init PROVE WalkInv
  OBVIOUS
<1>1. \A t \in Tabs : tab[t] = Away /\ walk[t] = NoWalk
  BY DEF Init
<1>0. Away.at = "away" /\ NoWalk.unseen = {}
  BY DEF Away, NoWalk
<1>4. \A t \in Tabs : tab[t].at = "away" /\ walk[t].unseen = {}
  BY <1>0, <1>1
<1>2. PageExists /\ CountedOrJoined /\ WalkEnds
  BY <1>4 DEF PageExists, CountedOrJoined, WalkEnds
<1>3. ASSUME NEW t \in Tabs
      PROVE  Cardinality(Behind(walk[t].unseen, Matching(rows, tab[t].filter), Front(t))) <= walk[t].left
  <2>1. Behind(walk[t].unseen, Matching(rows, tab[t].filter), Front(t)) = {}
    BY <1>1 DEF Behind, NoWalk
  <2>2. walk[t].left = 0
    BY <1>1 DEF NoWalk
  <2> QED
    BY <2>1, <2>2, FS_EmptySet
<1> QED
  BY <1>2, <1>3 DEF WalkInv, PassedLeft

\* What a tab will miss is bounded in every reachable state: pages exist, a row gets behind
\* the front only for one that left, and the list outgrows the count only by what joined.
THEOREM WalkInvariance == Spec => []WalkInv
<1>1. TypeOK /\ TypeOK' /\ WalkInv /\ [Next]_vars => WalkInv'
  <2> SUFFICES ASSUME TypeOK, TypeOK', WalkInv, [Next]_vars PROVE WalkInv'
    OBVIOUS
  <2>1. PageExists'
    BY NextPageExists DEF WalkInv
  <2>2. PassedLeft' /\ CountedOrJoined' /\ WalkEnds'
    BY NextPassedLeft, NextCountedOrJoined, NextWalkEnds
  <2> QED
    BY <2>1, <2>2 DEF WalkInv
<1> QED
  BY InitWalkInv, TypeCorrect, <1>1, PTL DEF Spec

\* A reader who opened the log and went on to its last page misses at most one row for each
\* that joined between the last count and its list or left during the walk, for any number
\* of rows and any LOG_LIST_LIMIT but 0.
THEOREM NothingIsMissed == Spec => []WalkMissesNothing
<1>1. TypeOK /\ WalkInv => WalkMissesNothing
  <2> SUFFICES ASSUME TypeOK, WalkInv, NEW t \in Tabs,
                      tab[t].at = "shown", ~HasNext(t), limit # 0
               PROVE  Cardinality(walk[t].unseen \cap Matching(rows, tab[t].filter))
                        <= walk[t].joined + walk[t].left
    BY DEF WalkMissesNothing
  <2>1. walk[t].unseen \in SUBSET Ids /\ walk[t].joined \in Nat /\ walk[t].left \in Nat
    BY DEF TypeOK
  <2>2. Cardinality(walk[t].unseen) <= walk[t].joined + walk[t].left
    BY DEF WalkInv, WalkEnds
  <2> DEFINE missed == walk[t].unseen \cap Matching(rows, tab[t].filter)
  <2>3. missed \in SUBSET walk[t].unseen /\ missed \in SUBSET Ids
    BY <2>1
  <2> HIDE DEF missed
  <2>4. /\ Cardinality(missed) <= Cardinality(walk[t].unseen)
        /\ Cardinality(missed) \in Nat /\ Cardinality(walk[t].unseen) \in Nat
    BY <2>1, <2>3, IdsCounted
  <2>5. Cardinality(missed) <= walk[t].joined + walk[t].left
    BY <2>1, <2>2, <2>4
  <2> QED
    BY <2>5 DEF missed
<1> QED
  BY TypeCorrect, WalkInvariance, <1>1, PTL

\* No page that newPagination settles on comes out empty while rows are selected, unless
\* rows left since they were counted or LOG_LIST_LIMIT is 0.
THEOREM PagesAreNotEmpty == Spec => PageNotEmpty
<1> DEFINE Step ==
      \A t \in Tabs :
        tab[t].at = "counted" /\ tab'[t].at = "shown" /\ limit # 0 =>
          LET ms == Matching(rows, tab[t].filter)
          IN  tab'[t].shown # {} \/ ms = {} \/ Cardinality(ms) < tab[t].total
<1>1. TypeOK /\ TypeOK' /\ WalkInv /\ [Next]_vars => [Step]_vars
  <2> SUFFICES ASSUME TypeOK, TypeOK', WalkInv, Next, NEW t \in Tabs,
                      tab[t].at = "counted", tab'[t].at = "shown", limit # 0,
                      Matching(rows, tab[t].filter) # {},
                      ~(Cardinality(Matching(rows, tab[t].filter)) < tab[t].total)
               PROVE  tab'[t].shown # {}
    OBVIOUS
  <2> DEFINE ms == Matching(rows, tab[t].filter)
             page == Clamp(tab[t].page, tab[t].total)
  <2>0. List(t)
    BY CountEffect, TabMoves DEF WalkInv, Rests, Begins, GoesOn, StaysIdle, Idle, LogMoves
  <2>1. tab'[t].shown = ListBackupRuns(ms, Offset(page))
    BY <2>0, ListEffect
  <2>2. ms \in SUBSET Ids /\ Cardinality(ms) \in Nat
    BY MatchingFinite
  <2>3. /\ limit \in Int /\ limit \in Limits /\ tab[t].total \in Nat /\ page \in Int
        /\ page \in 1 .. TotalPages(tab[t].total) /\ TotalPages(tab[t].total) \in Nat
    <3>1. limit \in Int /\ limit \in Limits /\ tab[t].total \in Nat /\ tab[t].page \in Int
      BY AdminWebAssumption DEF TypeOK
    <3>2. page \in 1 .. TotalPages(tab[t].total) /\ TotalPages(tab[t].total) \in Nat
      BY <3>1, ClampPicks
    <3> HIDE DEF page
    <3> QED
      BY <3>1, <3>2
  <2>4. \A r \in ms : Before(ms, r) \in Nat
    BY <2>2, BeforeType
  <2> HIDE DEF page
  <2>5. CASE limit < 0
    <3>1. Offset(page) <= 0 /\ Offset(page) \in Int
      BY <2>3, <2>5 DEF Offset
    <3>2. PICK r \in ms : TRUE
      OBVIOUS
    <3>3. Before(ms, r) >= Offset(page)
      BY <2>4, <3>1
    <3> QED
      BY <2>1, <2>5, <3>3 DEF ListBackupRuns
  <2>6. CASE limit > 0
    <3>1. Offset(page) \in Nat /\ Offset(page) < Cardinality(ms)
      <4>1. (page - 1) * limit <= (TotalPages(tab[t].total) - 1) * limit
        BY <2>3, <2>6, PagesOrdered
      <4>2. tab[t].total > 0 => (TotalPages(tab[t].total) - 1) * limit < tab[t].total
        BY <2>3, <2>6, PagesCover
      <4>3. (page - 1) * limit \in Nat /\ (TotalPages(tab[t].total) - 1) * limit \in Int
        BY <2>3, <2>6
      <4>4. CASE tab[t].total > 0
        BY <2>2, <2>3, <4>1, <4>2, <4>3, <4>4 DEF Offset
      <4>5. CASE tab[t].total = 0
        <5>1. TotalPages(tab[t].total) = 1
          <6>1. AtLeast(1, limit) = limit /\ limit \in Nat \ {0}
            BY <2>3, <2>6 DEF AtLeast
          <6>2. (limit - 1) \div limit = 0
            BY <6>1
          <6> QED
            BY <4>5, <6>1, <6>2 DEF TotalPages, AtLeast
        <5>2. page = 1 /\ Offset(page) = 0
          BY <2>3, <5>1 DEF Offset
        <5>3. Cardinality(ms) # 0
          BY <2>2, IdsCounted, FS_EmptySet
        <5> QED
          BY <2>2, <5>2, <5>3
      <4> QED
        BY <2>3, <4>4, <4>5
    <3>2. PICK r \in ms : Before(ms, r) = Offset(page)
      BY <2>2, <3>1, PositionTaken
    <3>3. AtLeast(0, Offset(page)) = Offset(page)
      BY <3>1 DEF AtLeast
    <3>4. Before(ms, r) >= Offset(page) /\ Before(ms, r) < AtLeast(0, Offset(page)) + limit
      BY <2>3, <2>6, <3>1, <3>2, <3>3
    <3> QED
      BY <2>1, <3>4 DEF ListBackupRuns
  <2> QED
    BY <2>3, <2>5, <2>6
<1> QED
  BY TypeCorrect, WalkInvariance, <1>1, PTL DEF Spec, PageNotEmpty
==============================================================================
