------------------------------ MODULE AdminWeb ------------------------------
(***************************************************************************)
(* The admin server as a browser meets it: the login and its sessions, and *)
(* the page of the backup log ("Nhat ky"), which readers walk through      *)
(* while the consumer goes on writing to it.                               *)
(*                                                                         *)
(* A request carries the cookie the browser had when it was sent and may   *)
(* arrive much later.  The log page takes two statements, a count and a    *)
(* list, and the log may change between them.  The tabs of one browser     *)
(* share one cookie; a session's token is the number of its login.         *)
(***************************************************************************)
EXTENDS Integers, FiniteSets

CONSTANTS
  Tabs,       \* tabs of the browser that read the log
  Pages,      \* page numbers typed in or bookmarked
  Limits,     \* values LOG_LIST_LIMIT may have; any integer is taken
  MaxRows,    \* bounds the rows ever logged
  DbName,     \* row -> the dbname it is logged with
  Searches,   \* what a search finds: sets of names; all names if there is none
  MaxRepeats, \* bounds the rows that are finished a second time
  TTL,        \* sessionTTL
  MaxTime,    \* bounds the clock
  MaxLogins   \* bounds the logins

Ids == 1 .. MaxRows
Tokens == 1 .. MaxLogins

ASSUME AdminWebAssumption ==
  /\ Limits \subseteq Int
  /\ Pages \subseteq Int
  /\ MaxRows \in Nat
  /\ MaxRepeats \in Nat
  /\ TTL \in Nat
  /\ MaxTime \in Nat
  /\ MaxLogins \in Nat

VARIABLES
  now,       \* the clock
  sessions,  \* sessionStore.m: token -> expiry, or Absent
  logins,    \* tokens made so far
  born,      \* token -> when it was made (history)
  ended,     \* tokens logged out, or lost with the process that made them (history)
  jar,       \* the browser's cookie; NoToken if it has none
  limit,     \* cfg.LogListLimit
  rows,      \* row of backup_runs -> its status, or "none"
  lastRow,   \* the last id given out; AUTOINCREMENT never gives it again
  repeats,   \* rows finished again so far
  tab,       \* tab -> its request or page
  walk       \* tab -> what its reader has yet to see (history)

sessionVars == <<now, sessions, logins, born, ended, jar>>
logVars == <<limit, rows, lastRow, repeats>>
vars == <<sessionVars, logVars, tab, walk>>

Absent == -1
NoToken == 0
Final == {"success", "error"}
Filters == [status : {"", "error"}, names : Searches]

Away == [at |-> "away", cookie |-> NoToken, page |-> 0, total |-> 0,
         filter |-> [status |-> "", names |-> {}], shown |-> {}]
NoWalk == [unseen |-> {}, joined |-> 0, left |-> 0]

Init ==
  /\ now = 0
  /\ sessions = [k \in Tokens |-> Absent]
  /\ logins = 0
  /\ born = [k \in Tokens |-> 0]
  /\ ended = {}
  /\ jar = NoToken
  /\ limit \in Limits
  /\ rows = [r \in Ids |-> "none"]
  /\ lastRow = 0
  /\ repeats = 0
  /\ tab = [t \in Tabs |-> Away]
  /\ walk = [t \in Tabs |-> NoWalk]

(***************************************************************************)
(* backupRunFilter, newPagination, ListBackupRuns.                         *)
(***************************************************************************)

\* The rows a filter selects among rs: "" stands for any status.
Matching(rs, f) ==
  {r \in Ids : rs[r] # "none" /\ (f.status = "" \/ rs[r] = f.status) /\ DbName[r] \in f.names}

AtLeast(low, n) == IF n < low THEN low ELSE n

\* Seeded fault: a last page that is not full is not counted.
TotalPagesFloor(total) == AtLeast(1, total \div AtLeast(1, limit))

TotalPages(total) ==
  LET pageSize == AtLeast(1, limit) IN AtLeast(1, (total + pageSize - 1) \div pageSize)

\* Seeded fault: a page beyond the last is asked for as it is.
ClampLow(page, total) == AtLeast(1, page)

Clamp(page, total) ==
  LET p == AtLeast(1, page) IN IF p > TotalPages(total) THEN TotalPages(total) ELSE p

HasNext(t) == tab[t].page < TotalPages(tab[t].total)
HasPrev(t) == tab[t].page > 1

\* (page - 1) * pageSize, with the limit as configured; SQLite takes an offset below 0 for 0.
Offset(page) == (page - 1) * limit

\* ORDER BY id DESC: the rows of ms listed before r.
Before(ms, r) == Cardinality({x \in ms : x > r})

\* LIMIT limit OFFSET offset: a limit below 0 is none.
ListBackupRuns(ms, offset) ==
  {r \in ms : Before(ms, r) >= offset /\ (limit < 0 \/ Before(ms, r) < AtLeast(0, offset) + limit)}

(***************************************************************************)
(* The reader.  A walk starts with what the filter selects when the log is *)
(* opened, and goes on by the links of the page.                           *)
(***************************************************************************)

Resting(t) == tab[t].at \in {"away", "cleared", "shown"}

\* A request leaves with the cookie of the moment; no "page" in the URL reads as 0.
Send(t, what, page, f) ==
  tab' = [tab EXCEPT ![t] = [Away EXCEPT !.at = what, !.cookie = jar, !.page = page, !.filter = f]]

\* The menu, the "errors only" toggle, the search box, the redirect after a clear.
Open(t, f) ==
  /\ Resting(t)
  /\ Send(t, "asked", 0, f)
  /\ walk' = [walk EXCEPT ![t] = [NoWalk EXCEPT !.unseen = Matching(rows, f)]]
  /\ UNCHANGED <<sessionVars, logVars>>

\* A bookmark or an address typed in: the walk does not begin at the first page.
Jump(t, f, page) ==
  /\ Resting(t)
  /\ Send(t, "asked", page, f)
  /\ walk' = [walk EXCEPT ![t] = NoWalk]
  /\ UNCHANGED <<sessionVars, logVars>>

\* The links of the pager carry the filter along.
Turn(t) ==
  /\ tab[t].at = "shown"
  /\ \/ HasNext(t) /\ Send(t, "asked", tab[t].page + 1, tab[t].filter)
     \/ HasPrev(t) /\ Send(t, "asked", tab[t].page - 1, tab[t].filter)
  /\ UNCHANGED <<sessionVars, logVars, walk>>

ClickClear(t) ==
  /\ tab[t].at = "shown"
  /\ Send(t, "clear", 0, tab[t].filter)
  /\ walk' = [walk EXCEPT ![t] = NoWalk]
  /\ UNCHANGED <<sessionVars, logVars>>

\* The page failed to come: the reader asks for the same address again.
Reload(t) ==
  /\ tab[t].at = "broken"
  /\ Send(t, "asked", tab[t].page, tab[t].filter)
  /\ UNCHANGED <<sessionVars, logVars, walk>>

(***************************************************************************)
(* sessionStore, requireAuth and the login.                                *)
(***************************************************************************)

Valid(k) == k # NoToken /\ sessions[k] # Absent /\ now <= sessions[k]

\* valid forgets a session it finds expired.
Forget(k) == IF k # NoToken THEN [sessions EXCEPT ![k] = Absent] ELSE sessions

\* redirectToLogin keeps the address of the request in "next".
Refuse(t) ==
  /\ tab[t].at \in {"asked", "clear"}
  /\ ~Valid(tab[t].cookie)
  /\ sessions' = Forget(tab[t].cookie)
  /\ tab' = [tab EXCEPT ![t].at = IF @ = "asked" THEN "login" ELSE "loginClear",
                         ![t].cookie = NoToken]
  /\ UNCHANGED <<now, logins, born, ended, jar, logVars, walk>>

\* The redirect to "next" with cookie k; the clear button's address takes no GET.
Back(t, k) ==
  tab' = [tab EXCEPT ![t] = IF @.at = "login" THEN [@ EXCEPT !.at = "asked", !.cookie = k] ELSE Away]

\* handleLoginForm: whoever is logged in by now, in another tab, is sent back at once; the
\* others get the form.
LoginForm(t) ==
  /\ tab[t].at \in {"login", "loginClear"}
  /\ \/ Valid(jar) /\ Back(t, jar) /\ UNCHANGED sessions
     \/ ~Valid(jar) /\ sessions' = Forget(jar) /\ UNCHANGED tab
  /\ UNCHANGED <<now, logins, born, ended, jar, logVars, walk>>

\* handleLoginSubmit with the right name and password: a session, and its token as cookie.
NewSession ==
  /\ logins < MaxLogins
  /\ logins' = logins + 1
  /\ sessions' = [sessions EXCEPT ![logins + 1] = now + TTL]
  /\ born' = [born EXCEPT ![logins + 1] = now]
  /\ jar' = logins + 1
  /\ UNCHANGED <<now, ended>>

LoginSubmit(t) ==
  /\ tab[t].at \in {"login", "loginClear"}
  /\ NewSession
  /\ Back(t, logins + 1)
  /\ UNCHANGED <<logVars, walk>>

\* The same in a tab that does not read the log.
LoginElsewhere ==
  /\ NewSession
  /\ UNCHANGED <<logVars, tab, walk>>

\* Seeded fault: only the browser's cookie is taken away.
LogoutCookie ==
  /\ jar # NoToken
  /\ ended' = ended \cup {jar}
  /\ jar' = NoToken
  /\ UNCHANGED <<now, sessions, logins, born, logVars, tab, walk>>

\* handleLogout, from any tab; the pages and requests of the others stay as they are.
Logout ==
  /\ jar # NoToken
  /\ sessions' = Forget(jar)
  /\ ended' = ended \cup {jar}
  /\ jar' = NoToken
  /\ UNCHANGED <<now, logins, born, logVars, tab, walk>>

\* The cookie expires in the browser, by its own clock, or is deleted there.
DropCookie ==
  /\ jar # NoToken
  /\ jar' = NoToken
  /\ UNCHANGED <<now, sessions, logins, born, ended, logVars, tab, walk>>

Tick ==
  /\ now < MaxTime
  /\ now' = now + 1
  /\ UNCHANGED <<sessions, logins, born, ended, jar, logVars, tab, walk>>

\* A restarted server knows no session, and requests it was working on are cut off.
Restart ==
  /\ sessions' = [k \in Tokens |-> Absent]
  /\ ended' = ended \cup 1 .. logins
  /\ tab' = [t \in Tabs |-> IF tab[t].at = "counted" THEN [tab[t] EXCEPT !.at = "broken"] ELSE tab[t]]
  /\ UNCHANGED <<now, logins, born, jar, logVars, walk>>

(***************************************************************************)
(* handleLogs and handleLogsClear.                                         *)
(***************************************************************************)

\* requireAuth lets the request in; CountBackupRuns.
Count(t) ==
  /\ tab[t].at = "asked"
  /\ Valid(tab[t].cookie)
  /\ tab' = [tab EXCEPT ![t].at = "counted", ![t].cookie = NoToken,
                        ![t].total = Cardinality(Matching(rows, tab[t].filter))]
  /\ walk' = [walk EXCEPT ![t].joined = 0]
  /\ UNCHANGED <<sessionVars, logVars>>

\* newPagination settles on a page, ListBackupRuns reads it.
List(t) ==
  /\ tab[t].at = "counted"
  /\ LET page == Clamp(tab[t].page, tab[t].total)
         shown == ListBackupRuns(Matching(rows, tab[t].filter), Offset(page))
     IN  /\ tab' = [tab EXCEPT ![t].at = "shown", ![t].page = page, ![t].shown = shown]
         /\ walk' = [walk EXCEPT ![t].unseen = @ \ shown]
  /\ UNCHANGED <<sessionVars, logVars>>

\* The count or the list fails: 500.
PageFails(t) ==
  /\ \/ tab[t].at = "asked" /\ Valid(tab[t].cookie)
     \/ tab[t].at = "counted"
  /\ tab' = [tab EXCEPT ![t].at = "broken", ![t].cookie = NoToken]
  /\ UNCHANGED <<sessionVars, logVars, walk>>

\* The log becomes rs: what that adds to a page between its count and its list, and what it
\* takes from a walk.
LogBecomes(rs) ==
  /\ rows' = rs
  /\ walk' = [t \in Tabs |->
       LET old == Matching(rows, tab[t].filter)
           new == Matching(rs, tab[t].filter)
       IN  [walk[t] EXCEPT !.joined = IF tab[t].at = "counted" THEN @ + Cardinality(new \ old) ELSE @,
                           !.left = @ + Cardinality(old \ new)]]

\* requireAuth, DeleteAllBackupRuns, redirect to the log
Clear(t) ==
  /\ tab[t].at = "clear"
  /\ Valid(tab[t].cookie)
  /\ LogBecomes([r \in Ids |-> "none"])
  /\ tab' = [tab EXCEPT ![t] = [Away EXCEPT !.at = "cleared"]]
  /\ UNCHANGED <<sessionVars, limit, lastRow, repeats>>

\* The deletion fails: 500, and the log stays.
ClearFails(t) ==
  /\ tab[t].at = "clear"
  /\ Valid(tab[t].cookie)
  /\ tab' = [tab EXCEPT ![t] = Away]
  /\ UNCHANGED <<sessionVars, logVars, walk>>

(***************************************************************************)
(* The consumer and the scheduler write the log.                           *)
(***************************************************************************)

\* CreateBackupRun, or RecordBackupRun for a job that has no row yet.
Log(status) ==
  /\ lastRow < MaxRows
  /\ lastRow' = lastRow + 1
  /\ LogBecomes([rows EXCEPT ![lastRow + 1] = status])
  /\ UNCHANGED <<sessionVars, limit, repeats, tab>>

\* FinishBackupRun sets the status by id, whatever it was: a job that is in the queue twice
\* finishes its row twice.
Finish(r, status) ==
  /\ rows[r] # "none"
  /\ \/ rows[r] = "running" /\ UNCHANGED repeats
     \/ rows[r] \in Final /\ repeats < MaxRepeats /\ repeats' = repeats + 1
  /\ LogBecomes([rows EXCEPT ![r] = status])
  /\ UNCHANGED <<sessionVars, limit, lastRow, tab>>

ReaderStep(t) ==
  \/ \E f \in Filters : Open(t, f) \/ (\E page \in Pages : Jump(t, f, page))
  \/ Turn(t) \/ ClickClear(t) \/ Reload(t)

ServerStep(t) ==
  \/ Refuse(t) \/ LoginForm(t) \/ LoginSubmit(t)
  \/ Count(t) \/ List(t) \/ PageFails(t) \/ Clear(t) \/ ClearFails(t)

LogStep ==
  \/ \E status \in {"running"} \cup Final : Log(status)
  \/ \E r \in Ids, status \in Final : Finish(r, status)

Next ==
  \/ \E t \in Tabs : ReaderStep(t) \/ ServerStep(t)
  \/ LoginElsewhere \/ Logout \/ DropCookie \/ Tick \/ Restart \/ LogStep

Spec == Init /\ [][Next]_vars

(***************************************************************************)
(* Properties.                                                             *)
(***************************************************************************)

\* Every variable stays in its type; tokens beyond the last login are unused.
TypeOK ==
  /\ now \in 0 .. MaxTime
  /\ logins \in 0 .. MaxLogins
  /\ sessions \in [Tokens -> 0 .. MaxTime + TTL \cup {Absent}]
  /\ born \in [Tokens -> 0 .. MaxTime]
  /\ ended \subseteq 1 .. logins
  /\ jar \in 0 .. logins
  /\ limit \in Limits
  /\ rows \in [Ids -> {"none", "running"} \cup Final]
  /\ lastRow \in 0 .. MaxRows
  /\ repeats \in 0 .. MaxRepeats
  /\ tab \in [Tabs ->
       [at : {"away", "asked", "clear", "login", "loginClear", "counted", "shown", "broken", "cleared"},
        cookie : 0 .. logins, page : Int, total : Nat,
        filter : Filters \cup {Away.filter}, shown : SUBSET Ids]]
  /\ walk \in [Tabs -> [unseen : SUBSET Ids, joined : Nat, left : Nat]]

\* A token that lets a request in: made by a login of this run of the process, not logged
\* out, not older than sessionTTL.
Live(k) == k \in 1 .. logins /\ k \notin ended /\ now <= born[k] + TTL

\* Whenever a request was sent and however long it took, it reaches a handler only with a
\* session that is live when it arrives: a logout or a restart stops it on its way.
AdmittedIsLive ==
  [][\A t \in Tabs :
       /\ tab[t].at \in {"asked", "clear"}
       /\ tab'[t].at \in {"counted", "broken", "cleared", "away"}
       => Live(tab[t].cookie)]_vars

\* "A stale/out-of-range ?page= value, e.g. after the log is cleared, falls back to a valid
\* page instead of rendering an empty one": a page shows nothing only if the filter selects
\* nothing, rows were taken away since they were counted, or LOG_LIST_LIMIT is 0.
PageNotEmpty ==
  [][\A t \in Tabs :
       tab[t].at = "counted" /\ tab'[t].at = "shown" /\ limit # 0 =>
         LET ms == Matching(rows, tab[t].filter)
         IN  tab'[t].shown # {} \/ ms = {} \/ Cardinality(ms) < tab[t].total]_vars

\* A reader who opened the log and turned the pages to the last one has seen every row that
\* was there at the start and still is, through logins and new rows on the way.  Missed is
\* at most one row for each that came between the last page's count and its list, or that
\* left the selection during the walk.
WalkMissesNothing ==
  \A t \in Tabs :
    tab[t].at = "shown" /\ ~HasNext(t) /\ limit # 0 =>
      Cardinality(walk[t].unseen \cap Matching(rows, tab[t].filter)) <= walk[t].joined + walk[t].left

(***************************************************************************)
(* The invariants behind AdmittedIsLive, PageNotEmpty and                  *)
(* WalkMissesNothing.                                                      *)
(***************************************************************************)

\* The table holds sessions of this process that nobody logged out, with their true expiry.
SessionsAreLive ==
  \A k \in Tokens :
    sessions[k] # Absent => k \in 1 .. logins /\ k \notin ended /\ sessions[k] = born[k] + TTL

\* The page a reader looks at is one the pager has.
PageExists ==
  \A t \in Tabs : tab[t].at = "shown" => tab[t].page \in 1 .. TotalPages(tab[t].total)

\* The rows before the page a tab asks for, or up to the end of the page it shows.
Front(t) ==
  LET turned == IF tab[t].at = "shown" THEN tab[t].page ELSE AtLeast(1, tab[t].page) - 1
  IN  turned * AtLeast(0, limit)

\* What a reader will miss who only goes forward: of the rows to see, those that left the
\* selection or are listed before the front.
Behind(unseen, ms, front) == {r \in unseen : r \notin ms \/ Before(ms, r) < front}

\* A row gets behind the front only when a row leaves the selection, and one for each.
PassedLeft ==
  \A t \in Tabs :
    Cardinality(Behind(walk[t].unseen, Matching(rows, tab[t].filter), Front(t))) <= walk[t].left

\* Between count and list the selection grows only by the rows that joined it.
CountedOrJoined ==
  \A t \in Tabs :
    tab[t].at = "counted" =>
      Cardinality(Matching(rows, tab[t].filter)) <= tab[t].total + walk[t].joined

\* A tab that does not read the log has nothing to see, and one that shows the last page
\* has seen all but the rows that joined or left.
WalkEnds ==
  \A t \in Tabs :
    /\ tab[t].at \in {"away", "clear", "loginClear", "cleared"} => walk[t].unseen = {}
    /\ tab[t].at = "shown" /\ ~HasNext(t) /\ limit # 0 =>
         Cardinality(walk[t].unseen) <= walk[t].joined + walk[t].left
==============================================================================
