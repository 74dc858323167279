--------------------------- MODULE SchedulerProofs ---------------------------
(***************************************************************************)
(* Scheduler's properties for any schedules, any clock whose date does not *)
(* go back, and any number of failures and crashes.                        *)
(***************************************************************************)
EXTENDS Scheduler, TLAPS

\* The date of every period is a day, and no day is "never".
LEMMA DayFacts ==
  /\ \A p \in Periods : Day[p] \in Days /\ Day[p] \in Nat
  /\ Days \subseteq Nat
  /\ Never \notin Days
  /\ Never \in Int
BY SchedulerAssumption DEF Days, Never, Periods

\* The bounds are numbers.
LEMMA BoundFacts == Horizon \in Nat /\ MaxFailures \in Nat /\ MaxSlips \in Nat
BY SchedulerAssumption

\* The first pass has not begun.
LEMMA InitTypeOK == Init => TypeOK
<1> SUFFICES ASSUME Init PROVE TypeOK
    OBVIOUS
<1>1. tick \in BOOLEAN /\ runID \in {0, 1}
  BY DEF Init
<1>2. last \in [Triggers -> Days \cup {Never}] /\ fired \in [Items \X Days -> Nat]
  BY DEF Init
<1>3. now \in Periods /\ at \in 0 .. now /\ failures \in 0 .. MaxFailures /\ slips \in 0 .. MaxSlips
  BY BoundFacts DEF Init, Periods
<1> QED BY <1>1, <1>2, <1>3 DEF Init, TypeOK

\* Every step of the scheduler, the clock and the admin keeps the types.
LEMMA NextTypeOK == TypeOK /\ [Next]_vars => TypeOK'
<1> SUFFICES ASSUME TypeOK, [Next]_vars PROVE TypeOK'
    OBVIOUS
<1> USE BoundFacts, DayFacts
<1> USE DEF TypeOK, vars, passVars, failureVars, Fails, Slips, SlipsBy
<1>0. at \in Periods /\ Today \in Days
  BY DEF Periods, Today
<1>1. CASE BeginPass
  <2>0. tick' \in BOOLEAN
    BY <1>1 DEF BeginPass
  <2>1. due' \subseteq Items /\ failures' \in 0 .. MaxFailures /\ failed' \subseteq Calm
    BY <1>1 DEF BeginPass, List, Due
  <2> QED BY <1>1, <2>0, <2>1 DEF BeginPass, Periods
<1>2. ASSUME NEW i \in Items, Take(i) PROVE TypeOK'
  <2>1. runID' \in {0, 1} /\ failures' \in 0 .. MaxFailures
    BY <1>2 DEF Take
  <2> QED BY <1>2, <2>1 DEF Take
<1>3. CASE Push
  <2>1. fired' \in [Items \X Days -> Nat]
    BY <1>0, <1>3 DEF Push, Enqueued
  <2> QED BY <1>3, <2>1 DEF Push
<1>r. ASSUME NEW n \in 1 .. MaxRetries + 1, PushRetried(n) \/ PushReplyLost(n) PROVE TypeOK'
  <2>0. n \in Nat /\ n + 1 \in Nat
    BY DEF MaxRetries
  <2>1. fired' \in [Items \X Days -> Nat]
    BY <1>0, <1>r, <2>0 DEF PushRetried, PushReplyLost, Enqueued
  <2>2. slips' \in 0 .. MaxSlips
    BY <1>r, <2>0 DEF PushRetried, PushReplyLost
  <2> QED BY <1>r, <2>1, <2>2 DEF PushRetried, PushReplyLost
<1>4. CASE PushFails
  BY <1>4 DEF PushFails, Abandoned
<1>5. CASE Mark \/ MarkFails
  <2>1. last' \in [Triggers -> Days \cup {Never}]
    BY <1>0, <1>5 DEF Mark, MarkFails
  <2> QED BY <1>5, <2>1 DEF Mark, MarkFails
<1>6. CASE ListShared
  <2>1. due' \subseteq Items /\ failures' \in 0 .. MaxFailures /\ failed' \subseteq Calm
    BY <1>6 DEF ListShared, List, Due
  <2> QED BY <1>6, <2>1 DEF ListShared
<1>7. CASE EndPass
  BY <1>7 DEF EndPass
<1>8. CASE Advance
  BY <1>8 DEF Advance, Periods
<1>9. ASSUME NEW xs \in Switches, Toggle(xs) PROVE TypeOK'
  <2>1. xs \subseteq Dbs \cup SharedTriggers
    BY DEF Switches
  <2> QED BY <1>9, <2>1 DEF Toggle
<1>10. CASE Crash
  <2>1. tick' \in BOOLEAN
    BY <1>10 DEF Crash
  <2>2. orphans' \in Nat /\ slips' \in 0 .. MaxSlips
    BY <1>10 DEF Crash, Abandoned
  <2> QED BY <1>10, <2>1, <2>2 DEF Crash
<1>11. CASE Restart
  BY <1>11 DEF Restart
<1>12. CASE UNCHANGED vars
  BY <1>12
<1> QED BY <1>1, <1>2, <1>3, <1>r, <1>4, <1>5, <1>6, <1>7, <1>8, <1>9, <1>10, <1>11, <1>12
    DEF Next, EnqueueDue, MaxRetries

\* The scheduler's variables stay in their types, and nothing is left in hand after a pass.
THEOREM TypeCorrect == Spec => []TypeOK
BY InitTypeOK, NextTypeOK, PTL DEF Spec

IInv ==
  /\ TypeOK
  /\ FiringsBounded
  /\ FutureUnfired
  /\ TodayFirings
  /\ MarkFollowsPush
  /\ MarkedMeansPushed
  /\ OrphansBounded

\* Nothing has fired yet.
LEMMA InitIInv == Init => IInv
<1> SUFFICES ASSUME Init PROVE IInv
    OBVIOUS
<1>1. TypeOK
  BY InitTypeOK
<1>2. 0 \in Periods /\ Today \in Days
  BY SchedulerAssumption, DayFacts DEF Init, Today, Periods
<1> QED BY <1>1, <1>2, SchedulerAssumption
    DEF IInv, Init, FiringsBounded, FutureUnfired, TodayFirings, MarkFollowsPush, MarkedMeansPushed,
        OrphansBounded

\* A step that changes neither the schedules' marks nor what was fired, and takes nothing
\* new in hand, keeps the invariant; a mark may be left out only at the price of a slip.
LEMMA Frame ==
  ASSUME IInv, TypeOK', fired' = fired, last' = last, at' = at,
         due' \subseteq due, step' = "take" \/ (step' = step /\ cur' = cur),
         slips' >= slips, step = "mark" /\ step' = "take" => slips' > slips,
         orphans' <= failures' + slips'
  PROVE  IInv'
<1>1. Today' = Today /\ Today \in Days
  BY BoundFacts, DayFacts DEF Today, IInv, TypeOK, Periods
<1>2. /\ slips \in Nat /\ slips' \in Nat
      /\ \A i \in Items, d \in Days : fired[<<i, d>>] \in Nat
  BY BoundFacts DEF IInv, TypeOK
<1>3. FiringsBounded' /\ OrphansBounded'
  BY <1>2 DEF IInv, FiringsBounded, OrphansBounded
<1>4. FutureUnfired' /\ MarkFollowsPush'
  BY <1>1 DEF IInv, FutureUnfired, MarkFollowsPush
<1>5. MarkedMeansPushed'
  BY DEF IInv, MarkedMeansPushed
<1>6. TodayFirings'
  <2> SUFFICES ASSUME NEW i \in Items
      PROVE /\ fired[<<i, Today>>] > slips' => last[i[1]] = Today \/ (step' = "mark" /\ cur' = i)
            /\ i \in due' \/ (step' = "push" /\ cur' = i) => fired[<<i, Today>>] <= slips'
            /\ step' # "take" /\ cur' = i => i \notin due'
    BY <1>1 DEF TodayFirings
  <2>1. fired[<<i, Today>>] \in Nat
    BY <1>1, <1>2
  <2>2. fired[<<i, Today>>] <= 1 + slips
    BY <1>1 DEF IInv, FiringsBounded
  <2>3. CASE step' = "take"
    BY <1>2, <2>1, <2>2, <2>3 DEF IInv, TodayFirings, TypeOK
  <2>4. CASE step' = step /\ cur' = cur
    BY <1>2, <2>1, <2>4 DEF IInv, TodayFirings
  <2> QED BY <2>3, <2>4
<1> QED BY <1>3, <1>4, <1>5, <1>6 DEF IInv

\* Raising one summand of a bound keeps it.
LEMMA Raised ==
  \A a, b, c, d \in Nat :
    /\ a <= b + c /\ d >= b => a <= d + c
    /\ a <= c + b /\ d >= b => a <= c + d
OBVIOUS

\* A listing keeps the invariant: at the start of a pass and between its halves nothing is
\* in hand, and what is listed is not marked with the date of the pass.
LEMMA Listing ==
  ASSUME IInv, TypeOK', NEW triggers, List(triggers, at'), step = "take", due = {},
         at' >= at, fired' = fired, last' = last, step' = step, cur' = cur, slips' = slips,
         orphans' = orphans
  PROVE  IInv'
<1>1. /\ Today \in Days /\ Today' \in Days
      /\ Today \in Nat /\ Today' \in Nat
      /\ Today <= Today'
  BY BoundFacts, DayFacts, SchedulerAssumption DEF Today, IInv, TypeOK, Periods
<1>2. /\ slips \in Nat /\ failures \in Nat /\ failures' \in Nat /\ orphans \in Nat
      /\ \A i \in Items, d \in Days : fired[<<i, d>>] \in Nat
  BY BoundFacts DEF IInv, TypeOK
<1>3. failures' >= failures
  BY <1>2 DEF List, Fails, failureVars
<1>4. FiringsBounded' /\ MarkedMeansPushed' /\ MarkFollowsPush'
  BY DEF IInv, FiringsBounded, MarkedMeansPushed, MarkFollowsPush
<1>5. OrphansBounded'
  <2>1. orphans <= failures + slips
    BY DEF IInv, OrphansBounded
  <2>2. orphans \in Nat /\ slips \in Nat /\ failures \in Nat /\ failures' \in Nat
    BY <1>2
  <2>3. orphans <= failures' + slips
    BY <1>3, <2>1, <2>2, Raised
  <2> QED BY <2>3 DEF OrphansBounded
<1>6. FutureUnfired'
  <2> SUFFICES ASSUME NEW i \in Items, NEW d \in Days, d > Today' PROVE fired[<<i, d>>] = 0
    BY DEF FutureUnfired
  <2>1. d > Today
    BY <1>1, DayFacts
  <2> QED BY <2>1 DEF IInv, FutureUnfired
<1>7. TodayFirings'
  <2> SUFFICES ASSUME NEW i \in Items
      PROVE /\ fired[<<i, Today'>>] > slips => last[i[1]] = Today'
            /\ i \in due' => fired[<<i, Today'>>] <= slips
    BY DEF TodayFirings
  <2>1. fired[<<i, Today'>>] > slips => last[i[1]] = Today'
    <3>1. CASE Today' = Today
      BY <3>1 DEF IInv, TodayFirings
    <3>2. CASE Today' > Today
      <4>1. fired[<<i, Today'>>] = 0
        BY <1>1, <3>2 DEF IInv, FutureUnfired
      <4> QED BY <1>2, <4>1
    <3> QED BY <1>1, <3>1, <3>2
  <2>2. i \in due' => last[i[1]] # Today'
    BY DEF List, Due, Today
  <2> QED BY <1>1, <1>2, <2>1, <2>2
<1> QED BY <1>4, <1>5, <1>6, <1>7 DEF IInv

\* A push raises one count, of an item that has not had its regular firing today, and by
\* more than one only for as many lost replies.
LEMMA Pushing ==
  ASSUME IInv, TypeOK', step = "push", NEW n \in Nat, n > 0, Enqueued(n), at' = at, last' = last, due' = due, cur' = cur,
         orphans' = orphans, failures' = failures,
         \/ step' = "mark" /\ slips' = slips + (n - 1)
         \/ step' = "take" /\ slips' = slips + n
  PROVE  IInv'
<1>1. Today' = Today /\ Today \in Days /\ cur \in Items
  BY BoundFacts, DayFacts DEF Today, IInv, TypeOK, Periods
<1>2. /\ slips \in Nat /\ slips' \in Nat /\ slips' >= slips
      /\ failures \in Nat /\ orphans \in Nat
      /\ \A i \in Items, d \in Days : fired[<<i, d>>] \in Nat
  BY BoundFacts DEF IInv, TypeOK
<1>3. \A i \in Items, d \in Days :
        fired'[<<i, d>>] = IF i = cur /\ d = Today THEN fired[<<i, d>>] + n ELSE fired[<<i, d>>]
  BY <1>1 DEF IInv, TypeOK, Enqueued
<1>4. fired[<<cur, Today>>] <= slips /\ cur \notin due
  BY <1>1 DEF IInv, TodayFirings
<1>5. FiringsBounded'
  <2> SUFFICES ASSUME NEW i \in Items, NEW d \in Days PROVE fired'[<<i, d>>] <= 1 + slips'
    BY DEF FiringsBounded
  <2>1. fired[<<i, d>>] <= 1 + slips
    BY DEF IInv, FiringsBounded
  <2> QED BY <1>2, <1>3, <1>4, <2>1
<1>6. FutureUnfired'
  <2>1. \A d \in Days : d > Today => d # Today
    BY <1>1, DayFacts
  <2> QED BY <1>1, <1>3, <2>1 DEF IInv, FutureUnfired
<1>7. MarkFollowsPush'
  BY <1>1, <1>2, <1>3 DEF MarkFollowsPush
<1>8. MarkedMeansPushed'
  <2>1. \A t \in Triggers : last[t] # Never => last[t] \in Days
    BY DEF IInv, TypeOK
  <2>2. \A i \in Items, d \in Days : fired[<<i, d>>] > 0 => fired'[<<i, d>>] > 0
    BY <1>2, <1>3
  <2> QED BY <2>1, <2>2 DEF IInv, MarkedMeansPushed
<1>9. OrphansBounded'
  <2>1. orphans <= failures + slips
    BY DEF IInv, OrphansBounded
  <2>2. orphans \in Nat /\ slips \in Nat /\ failures \in Nat /\ slips' \in Nat /\ slips' >= slips
    BY <1>2
  <2>3. orphans <= failures + slips'
    BY <2>1, <2>2, Raised
  <2> QED BY <2>3 DEF OrphansBounded
<1>10. TodayFirings'
  <2> SUFFICES ASSUME NEW i \in Items
      PROVE /\ fired'[<<i, Today>>] > slips' => last[i[1]] = Today \/ (step' = "mark" /\ cur = i)
            /\ i \in due => fired'[<<i, Today>>] <= slips'
    BY <1>1, <1>4 DEF TodayFirings
  <2>1. CASE i = cur
    BY <1>1, <1>2, <1>3, <1>4, <2>1
  <2>2. CASE i # cur
    BY <1>1, <1>2, <1>3, <2>2 DEF IInv, TodayFirings
  <2> QED BY <2>1, <2>2
<1> QED BY <1>5, <1>6, <1>7, <1>8, <1>9, <1>10 DEF IInv

\* Every step keeps the invariant.
LEMMA NextIInv == IInv /\ [Next]_vars => IInv'
<1> SUFFICES ASSUME IInv, [Next]_vars PROVE IInv'
    OBVIOUS
<1> USE DEF failureVars
<1>0. TypeOK /\ TypeOK'
  BY NextTypeOK DEF IInv
<1>a. /\ slips \in Nat /\ failures \in Nat /\ orphans \in Nat
      /\ orphans <= failures + slips
      /\ runID \in {0, 1}
  BY BoundFacts DEF IInv, TypeOK, OrphansBounded
<1>1. CASE BeginPass
  <2>1. step = "take" /\ due = {} /\ now >= at
    BY <1>0, <1>1, BoundFacts DEF BeginPass, TypeOK, Periods
  <2>2. List(OwnTriggers, at')
    BY <1>1 DEF BeginPass
  <2> QED BY <1>0, <1>1, <2>1, <2>2, Listing DEF BeginPass
<1>2. ASSUME NEW i \in Items, Take(i) PROVE IInv'
  <2>1. Today' = Today /\ Today \in Days
    BY <1>0, <1>2, BoundFacts, DayFacts DEF Take, Today, TypeOK, Periods
  <2>2. FiringsBounded' /\ MarkedMeansPushed' /\ FutureUnfired' /\ MarkFollowsPush'
    BY <1>2, <2>1 DEF Take, IInv, FiringsBounded, MarkedMeansPushed, FutureUnfired, MarkFollowsPush
  <2>3. OrphansBounded'
    BY <1>2, <1>a DEF Take, OrphansBounded, Fails
  <2>4. TodayFirings'
    BY <1>2, <2>1 DEF Take, IInv, TodayFirings
  <2> QED BY <1>0, <2>2, <2>3, <2>4 DEF IInv
<1>3. CASE Push
  <2>1. 1 \in Nat /\ 1 > 0 /\ slips' = slips + (1 - 1)
    BY <1>3, <1>a DEF Push
  <2> QED BY <1>0, <1>3, <2>1, Pushing DEF Push
<1>4. ASSUME NEW n \in Nat, n > 0, PushRetried(n) \/ PushReplyLost(n) PROVE IInv'
  <2>1. CASE PushReplyLost(n)
    BY <1>0, <1>4, <2>1, Pushing DEF PushReplyLost, SlipsBy
  <2>2. CASE PushRetried(n)
    <3>1. n + 1 \in Nat /\ n + 1 > 0 /\ (n + 1) - 1 = n
      BY <1>4
    <3> QED BY <1>0, <2>2, <3>1, Pushing DEF PushRetried, SlipsBy
  <2> QED BY <1>4, <2>1, <2>2
<1>5. CASE PushFails
  BY <1>0, <1>5, <1>a, Frame DEF PushFails, Fails, Abandoned
<1>6. CASE Mark
  <2>1. /\ Today' = Today /\ Today \in Days /\ Today # Never
        /\ cur \in Items /\ cur[1] \in Triggers
    BY <1>0, <1>6, BoundFacts, DayFacts DEF Mark, Today, TypeOK, Periods, Items
  <2>2. \A t \in Triggers : last'[t] = IF t = cur[1] THEN Today ELSE last[t]
    BY <1>0, <1>6, <2>1 DEF Mark, TypeOK
  <2>3. FiringsBounded' /\ FutureUnfired' /\ MarkFollowsPush' /\ OrphansBounded'
    BY <1>6, <2>1 DEF Mark, IInv, FiringsBounded, FutureUnfired, MarkFollowsPush, OrphansBounded
  <2>4. MarkedMeansPushed'
    <3>1. fired[<<cur, Today>>] > 0
      BY <1>6 DEF Mark, IInv, MarkFollowsPush
    <3>2. ASSUME NEW t \in Triggers, last'[t] # Never
          PROVE  \E i \in Items : i[1] = t /\ fired[<<i, last'[t]>>] > 0
      <4>1. CASE t = cur[1]
        BY <2>1, <2>2, <3>1, <4>1
      <4>2. CASE t # cur[1]
        BY <2>2, <3>2, <4>2 DEF IInv, MarkedMeansPushed
      <4> QED BY <4>1, <4>2
    <3> QED BY <1>6, <3>2 DEF Mark, MarkedMeansPushed
  <2>5. \A i \in Items : i[1] \in Triggers
    BY DEF Items
  <2>6. TodayFirings'
    BY <1>6, <2>1, <2>2, <2>5 DEF Mark, IInv, TodayFirings
  <2> QED BY <1>0, <2>3, <2>4, <2>6 DEF IInv
<1>7. CASE MarkFails
  BY <1>0, <1>7, <1>a, Frame DEF MarkFails, Slips, SlipsBy
<1>8. CASE ListShared
  <2>1. List(SharedTriggers, at') /\ at' >= at
    BY <1>0, <1>8, BoundFacts DEF ListShared, List, Due, TypeOK, Periods
  <2> QED BY <1>0, <1>8, <2>1, Listing DEF ListShared
<1>9. CASE EndPass
  BY <1>0, <1>9, <1>a, Frame DEF EndPass
<1>10. CASE Advance
  BY <1>0, <1>10, <1>a, Frame DEF Advance, passVars
<1>11. ASSUME NEW xs \in Switches, Toggle(xs) PROVE IInv'
  BY <1>0, <1>11, <1>a, Frame DEF Toggle, passVars
<1>12. CASE Crash
  <2>1. slips' = slips + 1 /\ orphans' <= failures' + slips'
    BY <1>12, <1>a DEF Crash, Slips, SlipsBy, Abandoned
  <2> QED BY <1>0, <1>12, <1>a, <2>1, Frame DEF Crash
<1>13. CASE Restart
  BY <1>0, <1>13, <1>a, Frame DEF Restart
<1>14. CASE UNCHANGED vars
  BY <1>0, <1>14, <1>a, Frame DEF vars, passVars
<1> QED BY <1>1, <1>2, <1>3, <1>4, <1>5, <1>6, <1>7, <1>8, <1>9, <1>10, <1>11, <1>12, <1>13, <1>14
    DEF Next, EnqueueDue, MaxRetries

\* The inductive invariant.
THEOREM Invariance == Spec => []IInv
BY InitIInv, NextIInv, PTL DEF Spec

\* A trigger fires at most once a day for each database, but for one more time per crash,
\* failed mark or lost reply: for all schedules and clocks, slow passes and restarts.
THEOREM FiringsAreBounded == Spec => []FiringsBounded
BY Invariance, PTL DEF IInv

\* last_run_date is never set for a day on which the trigger pushed nothing.
THEOREM MarksFollowPushes == Spec => []MarkedMeansPushed
BY Invariance, PTL DEF IInv

\* A row is left at "running" without a job only by a failed push or a crash.
THEOREM OrphansAreBounded == Spec => []OrphansBounded
BY Invariance, PTL DEF IInv

-----------------------------------------------------------------------------
(***************************************************************************)
(* A database's own schedule is not missed.                                *)
(***************************************************************************)

CalmInv == CalmPass /\ CalmProgress /\ CalmPushed

\* Pushed jobs stay pushed, and a period with a failure stays one.
LEMMA HistoryGrows ==
  ASSUME TypeOK, [Next]_vars
  PROVE  /\ \A i \in Items, d \in Days : fired[<<i, d>>] > 0 => fired'[<<i, d>>] > 0
         /\ failed \subseteq failed'
<1> USE DEF Fails, failureVars, passVars
<1>0. \A i \in Items, d \in Days : fired[<<i, d>>] \in Nat
  BY DEF TypeOK
<1>1. ASSUME NEW n \in Nat, Enqueued(n)
      PROVE \A i \in Items, d \in Days : fired[<<i, d>>] > 0 => fired'[<<i, d>>] > 0
  BY <1>0, <1>1 DEF Enqueued, TypeOK
<1>2. CASE BeginPass \/ ListShared
  BY <1>2 DEF BeginPass, ListShared, List
<1>3. CASE EnqueueDue
  <2>1. CASE Push
    BY <1>1, <2>1 DEF Push
  <2>r. CASE \E n \in 1 .. MaxRetries + 1 : PushRetried(n) \/ PushReplyLost(n)
    <3>1. PICK n \in 1 .. MaxRetries + 1 : PushRetried(n) \/ PushReplyLost(n)
      BY <2>r
    <3>2. n \in Nat /\ n + 1 \in Nat
      BY DEF MaxRetries
    <3>3. failed' = failed /\ (Enqueued(n) \/ Enqueued(n + 1))
      BY <3>1 DEF PushRetried, PushReplyLost
    <3> QED BY <1>1, <3>2, <3>3
  <2>2. CASE PushFails \/ Mark \/ MarkFails \/ \E i \in Items : Take(i)
    BY <2>2 DEF PushFails, Mark, MarkFails, Take
  <2> QED BY <1>3, <2>1, <2>r, <2>2 DEF EnqueueDue, MaxRetries
<1>4. CASE EndPass \/ Advance \/ Crash \/ Restart \/ UNCHANGED vars \/ \E xs \in Switches : Toggle(xs)
  BY <1>4 DEF EndPass, Advance, Crash, Restart, vars, Toggle
<1> QED BY <1>2, <1>3, <1>4 DEF Next

\* In a calm period nothing crashes and nobody switches, so its one pass finds everything on.
LEMMA NextCalmPass == TypeOK /\ CalmPass /\ [Next]_vars => CalmPass'
<1> SUFFICES ASSUME TypeOK, CalmPass, [Next]_vars PROVE CalmPass'
    OBVIOUS
<1> USE DEF CalmPass, passVars
<1>1. CASE BeginPass
  BY <1>1 DEF BeginPass
<1>2. CASE EnqueueDue \/ ListShared \/ EndPass
  BY <1>2 DEF EnqueueDue, Take, Push, PushFails, PushRetried, PushReplyLost, Mark, MarkFails, ListShared, EndPass
<1>3. CASE Advance
  BY <1>3 DEF Advance
<1>4. ASSUME NEW xs \in Switches, Toggle(xs) PROVE CalmPass'
  BY <1>4 DEF Toggle
<1>5. CASE Crash
  BY <1>5 DEF Crash, Slips, SlipsBy
<1>6. CASE Restart
  BY <1>6 DEF Restart
<1>7. CASE UNCHANGED vars
  BY <1>7 DEF vars
<1> QED BY <1>1, <1>2, <1>3, <1>4, <1>5, <1>6, <1>7 DEF Next

\* An own schedule that is marked with a date has had its job pushed: it has one database.
LEMMA OwnMarkedPushed ==
  ASSUME MarkedMeansPushed, NEW i \in Items, i[1] \in OwnTriggers, last[i[1]] # Never
  PROVE  fired[<<i, last[i[1]]>>] > 0
<1>1. i[1] \in Triggers /\ i[2] \in Members[i[1]] /\ i = <<i[1], i[2]>>
  BY DEF Items
<1>2. PICK k \in Items : k[1] = i[1] /\ fired[<<k, last[i[1]]>>] > 0
  BY <1>1 DEF MarkedMeansPushed
<1>3. k[2] \in Members[i[1]] /\ k = <<k[1], k[2]>>
  BY <1>2 DEF Items
<1>4. k[2] = i[2]
  BY <1>1, <1>3, SchedulerAssumption
<1>5. k = i
  BY <1>1, <1>2, <1>3, <1>4
<1> QED BY <1>2, <1>5

\* What a calm pass lists stays in hand until it is pushed, unless something fails.
LEMMA NextCalmProgress == IInv /\ CalmPass /\ CalmProgress /\ [Next]_vars => CalmProgress'
<1> SUFFICES ASSUME IInv, CalmPass, CalmProgress, [Next]_vars,
                    now' \in Calm, now' \notin failed', ~tick', NEW i \in OwnDue(now')
             PROVE  \/ fired'[<<i, Day[now']>>] > 0
                    \/ phase' = "own" /\ (i \in due' \/ (step' = "push" /\ cur' = i))
    BY DEF CalmProgress
<1> DEFINE Goal == \/ fired'[<<i, Day[now']>>] > 0
                   \/ phase' = "own" /\ (i \in due' \/ (step' = "push" /\ cur' = i))
<1> USE DEF failureVars, passVars
<1>0. /\ TypeOK /\ failed \subseteq failed'
      /\ \A k \in Items, d \in Days : fired[<<k, d>>] > 0 => fired'[<<k, d>>] > 0
      /\ i \in Items /\ i[1] \in OwnTriggers /\ TimeOfDay[i[1]] = Hhmm[now']
      /\ now \in Periods
  BY HistoryGrows DEF IInv, OwnDue, TypeOK
<1>1. ASSUME now' = now, ~tick
      PROVE  /\ at = now /\ phase # "down" /\ Day[now'] \in Days
             /\ \/ fired[<<i, Day[now]>>] > 0 /\ fired'[<<i, Day[now']>>] > 0
                \/ phase = "own" /\ (i \in due \/ (step = "push" /\ cur = i))
  BY <1>0, <1>1, DayFacts DEF CalmPass, CalmProgress
<1>2. ~Fails
  <2>1. ASSUME Fails PROVE now' # now
    BY <2>1 DEF Fails
  <2>2. ASSUME Fails PROVE ~Advance
    BY <2>2, BoundFacts DEF Advance, Fails, IInv, TypeOK
  <2>3. now' = now \/ Advance
    BY DEF Next, BeginPass, EnqueueDue, Take, Push, PushFails, PushRetried, PushReplyLost, Mark, MarkFails,
         ListShared, EndPass, Toggle, Crash, Restart, vars
  <2> QED BY <2>1, <2>2, <2>3
<1>3. CASE BeginPass
  <2>1. now' = now /\ phase' = "own" /\ off = {} /\ due' = Due(OwnTriggers, now)
    BY <1>2, <1>3 DEF BeginPass, List, CalmPass
  <2>2. CASE last[i[1]] # Day[now]
    BY <1>0, <2>1, <2>2 DEF Due
  <2>3. CASE last[i[1]] = Day[now]
    <3>1. Day[now] \in Days /\ last[i[1]] # Never
      BY <1>0, <2>3, DayFacts
    <3>2. fired[<<i, Day[now]>>] > 0
      BY <1>0, <2>3, <3>1, OwnMarkedPushed DEF IInv
    <3> QED BY <1>0, <2>1, <3>1, <3>2
  <2> QED BY <2>2, <2>3
<1>4. ASSUME NEW k \in Items, Take(k) PROVE Goal
  <2>1. /\ now' = now /\ ~tick /\ step = "take" /\ phase' = phase
        /\ due' = due \ {k} /\ cur' = k /\ step' = "push"
    BY <1>4 DEF Take
  <2> QED BY <1>1, <2>1
<1>5. ASSUME Push \/ \E n \in 1 .. MaxRetries + 1 : PushRetried(n) \/ PushReplyLost(n)
      PROVE  Goal
  <2>1. /\ now' = now /\ ~tick /\ step = "push" /\ phase' = phase /\ due' = due
        /\ \E n \in Nat : n > 0 /\ Enqueued(n)
    BY <1>5 DEF Push, PushRetried, PushReplyLost, MaxRetries
  <2>2. cur = i => fired'[<<i, Day[now']>>] > 0
    <3>1. at = now /\ Day[now] \in Days /\ fired \in [Items \X Days -> Nat]
      BY <1>0, <1>1, <2>1 DEF TypeOK
    <3>2. cur = i => \E n \in Nat : n > 0 /\ fired'[<<i, Day[now]>>] = fired[<<i, Day[now]>>] + n
      BY <1>0, <2>1, <3>1 DEF Enqueued, Today
    <3>3. fired[<<i, Day[now]>>] \in Nat
      BY <1>0, <3>1
    <3> QED BY <2>1, <3>2, <3>3
  <2> QED BY <1>1, <2>1, <2>2
<1>6. CASE PushFails
  BY <1>2, <1>6 DEF PushFails
<1>7. CASE Mark \/ MarkFails
  <2>1. now' = now /\ ~tick /\ step = "mark" /\ phase' = phase /\ due' = due
    BY <1>7 DEF Mark, MarkFails
  <2> QED BY <1>1, <2>1
<1>8. CASE ListShared
  <2>1. now' = now /\ ~tick /\ step = "take" /\ due = {}
    BY <1>8 DEF ListShared
  <2> QED BY <1>1, <2>1
<1>9. CASE EndPass
  <2>1. now' = now /\ ~tick /\ phase = "shared"
    BY <1>9 DEF EndPass
  <2> QED BY <1>1, <2>1
<1>10. CASE Advance
  BY <1>10 DEF Advance
<1>11. CASE Crash \/ Restart \/ \E xs \in Switches : Toggle(xs)
  BY <1>11 DEF Crash, Slips, SlipsBy, Restart, Toggle, CalmPass
<1>12. CASE UNCHANGED vars
  BY <1>1, <1>12 DEF vars
<1> QED BY <1>3, <1>4, <1>5, <1>6, <1>7, <1>8, <1>9, <1>10, <1>11, <1>12 DEF Next, EnqueueDue, MaxRetries

\* A calm period ends only after its pass.
LEMMA NextCalmPushed == IInv /\ CalmInv /\ [Next]_vars => CalmPushed'
<1> SUFFICES ASSUME IInv, CalmInv, [Next]_vars,
                    NEW p \in Calm, p \notin failed', p < now', NEW i \in OwnDue(p)
             PROVE  fired'[<<i, Day[p]>>] > 0
    BY DEF CalmPushed, OwnDue
<1>0. /\ p \in Periods /\ p \notin failed /\ now \in Periods /\ i \in Items /\ Day[p] \in Days
      /\ fired[<<i, Day[p]>>] > 0 => fired'[<<i, Day[p]>>] > 0
  BY HistoryGrows, SchedulerAssumption, DayFacts DEF IInv, TypeOK, OwnDue
<1>1. CASE p < now
  BY <1>0, <1>1 DEF CalmInv, CalmPushed
<1>2. CASE ~(p < now)
  <2>1. Advance
    BY <1>2 DEF Next, BeginPass, EnqueueDue, Take, Push, PushFails, PushRetried, PushReplyLost, Mark, MarkFails,
         ListShared, EndPass, Toggle, Crash, Restart, vars
  <2>2. p = now
    BY <1>0, <1>2, <2>1, BoundFacts DEF Advance, Periods
  <2>3. phase = "idle" /\ ~tick
    BY <2>1, <2>2 DEF Advance
  <2> QED BY <1>0, <2>2, <2>3 DEF CalmInv, CalmProgress
<1> QED BY <1>1, <1>2

\* A database's own schedule is pushed on time whenever one of the two passes of its minute
\* goes through: for any schedules, clocks, numbers of failures and what happened before.
THEOREM OwnSchedulesFire == Spec => []OwnFiredOnTime
<1>1. Init => CalmInv
  <2>1. SUFFICES ASSUME Init PROVE CalmInv
    OBVIOUS
  <2>2. \A p \in Calm : ~(p < now)
    BY <2>1, SchedulerAssumption DEF Init, Periods
  <2> QED BY <2>1, <2>2 DEF Init, CalmInv, CalmPass, CalmProgress, CalmPushed
<1>2. IInv /\ CalmInv /\ [Next]_vars => CalmInv'
  BY NextCalmPass, NextCalmProgress, NextCalmPushed DEF CalmInv, IInv
<1>3. IInv /\ CalmInv => OwnFiredOnTime
  <2> SUFFICES ASSUME IInv, CalmInv, NEW i \in Items, NEW u \in Periods, i[1] \in OwnTriggers,
                      u + 1 \in Periods, Passed(i[1], u), ~({u, u + 1} \subseteq failed)
               PROVE  fired[<<i, Day[u]>>] > 0
    BY DEF OwnFiredOnTime, PushedOnTime
  <2>1. /\ u < now /\ u + 1 < now /\ u \in Calm /\ u + 1 \in Calm /\ Day[u + 1] = Day[u]
        /\ i \in OwnDue(u) /\ i \in OwnDue(u + 1)
    BY BoundFacts DEF Passed, OwnDue, Periods, IInv, TypeOK
  <2>2. CASE u \notin failed
    BY <2>1, <2>2 DEF CalmInv, CalmPushed
  <2>3. CASE u + 1 \notin failed
    BY <2>1, <2>3 DEF CalmInv, CalmPushed
  <2> QED BY <2>2, <2>3
<1> QED BY <1>1, <1>2, <1>3, Invariance, PTL DEF Spec
==============================================================================
