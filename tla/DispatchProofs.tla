--------------------------- MODULE DispatchProofs ---------------------------
(***************************************************************************)
(* Dispatch and Agent for any number of requests, any queue capacity and   *)
(* any times with MaxWait + 2 * Timeout <= Retention.                      *)
(***************************************************************************)
EXTENDS Dispatch, SequenceTheorems, TLAPS

\* The times and bounds are numbers.
LEMMA Numbers ==
  /\ Capacity \in Nat /\ Retention \in Nat /\ MaxTime \in Nat /\ MaxRestarts \in Nat
  /\ MaxWait \in Nat /\ Timeout \in Nat /\ MaxWait + 2 * Timeout <= Retention
  /\ "idle" \notin Requests
BY AgentAssumption, DispatchAssumption

\* What the agent holds are requests.
LEMMA HeldType == AgentTypeOK => Held \subseteq Requests
BY DEF AgentTypeOK, Held, Waiting

\* The agent starts empty and nothing has been posted.
LEMMA InitTypeOK == Init => TypeOK
<1> SUFFICES ASSUME Init PROVE TypeOK
    OBVIOUS
<1>1. AgentTypeOK
  <2>1. DOMAIN jobs = {} /\ jobs \in [DOMAIN jobs -> Entry]
    BY DEF Init, AgentInit, NoJobs
  <2>2. queue \in Seq(Requests) /\ clock \in 0 .. MaxTime /\ restarts \in 0 .. MaxRestarts
    BY Numbers DEF Init, AgentInit
  <2> QED BY <2>1, <2>2 DEF Init, AgentInit, AgentTypeOK
<1> QED BY <1>1 DEF Init, TypeOK

\* What handleRun leaves in the map: the new pending entry, and every old one that is not
\* a result past its retention.
LEMMA HandleRunEffect ==
  ASSUME AgentTypeOK, NEW r \in Requests, HandleRun(r)
  PROVE  /\ r \in DOMAIN jobs' /\ jobs'[r] = Pending
         /\ \A x \in DOMAIN jobs' : x # r => x \in DOMAIN jobs /\ jobs'[x] = jobs[x]
         /\ \A x \in DOMAIN jobs \ DOMAIN jobs' :
              x # r /\ Done(x) /\ jobs[x].completedAt < clock - Retention
<1> DEFINE ins == [x \in DOMAIN jobs \cup {r} |-> IF x = r THEN Pending ELSE jobs[x]]
<1>1. jobs' = [x \in DOMAIN ins \ Swept(ins) |-> ins[x]]
  BY DEF HandleRun
<1>2. r \notin Swept(ins)
  BY DEF Swept, Pending
<1>3. \A x \in Swept(ins) : x # r /\ x \in DOMAIN jobs /\ Done(x) /\ jobs[x].completedAt < clock - Retention
  BY <1>2 DEF Swept, Done
<1> QED BY <1>1, <1>2, <1>3

\* Every step of the consumer, the network and the agent keeps the types.
LEMMA NextTypeOK == TypeOK /\ [Next]_vars => TypeOK'
<1> SUFFICES ASSUME TypeOK, [Next]_vars PROVE TypeOK'
    OBVIOUS
<1> USE Numbers
<1> USE DEF TypeOK, vars, agentVars, consumerVars, Goto
<1>0. AgentTypeOK /\ clock \in Nat
  BY DEF AgentTypeOK
<1>1. ASSUME NEW r \in Requests, Consumer(r) PROVE TypeOK'
  <2>0. UNCHANGED <<clock, agentVars>>
    BY <1>1 DEF Consumer, Send, RunReturns, RunFails, Ask, GiveUp, StatusDone, StatusInconclusive
  <2>1. AgentTypeOK'
    BY <1>0, <2>0 DEF AgentTypeOK
  <2>2. CASE Send(r)
    BY <1>0, <2>1, <2>2 DEF Send
  <2>3. CASE RunReturns(r)
    BY <1>0, <2>1, <2>3 DEF RunReturns
  <2>4. CASE RunFails(r) \/ GiveUp(r) \/ StatusDone(r)
    BY <2>1, <2>4 DEF RunFails, GiveUp, StatusDone, Return
  <2>5. CASE Ask(r) \/ StatusInconclusive(r)
    BY <1>0, <2>1, <2>5 DEF Ask, StatusInconclusive
  <2> QED BY <1>1, <2>2, <2>3, <2>4, <2>5 DEF Consumer
<1>2. ASSUME NEW r \in Requests, Deliver(r) PROVE TypeOK'
  <2>1. HandleRun(r)
    BY <1>2 DEF Deliver
  <2>2. DOMAIN jobs' \subseteq Requests /\ jobs' \in [DOMAIN jobs' -> Entry]
    <3>1. Pending \in Entry
      BY DEF Pending, Entry
    <3>2. jobs' = [x \in DOMAIN jobs' |-> jobs'[x]]
      BY <2>1 DEF HandleRun
    <3> QED BY <1>0, <2>1, <3>1, <3>2, HandleRunEffect DEF AgentTypeOK
  <2>3. AgentTypeOK'
    <3>1. handling' \subseteq Requests /\ UNCHANGED <<clock, queue, worker, forgotten, ended, restarts>>
      BY <1>0, <2>1 DEF HandleRun, AgentTypeOK
    <3> QED BY <1>0, <2>2, <3>1 DEF AgentTypeOK
  <2> QED BY <1>2, <2>3 DEF Deliver
<1>3. ASSUME NEW r \in Requests, Lose(r) PROVE TypeOK'
  BY <1>3 DEF Lose, AgentTypeOK
<1>4. ASSUME NEW r \in Requests, Answer(r) PROVE TypeOK'
  <2>1. CASE Accept(r)
    <3>1. queue' \in Seq(Requests)
      BY <1>0, <2>1 DEF Accept, AgentTypeOK
    <3>2. AgentTypeOK'
      BY <1>0, <2>1, <3>1 DEF Accept, AgentTypeOK
    <3> QED BY <1>4, <3>2 DEF Answer
  <2>2. CASE Refuse(r)
    <3>1. DOMAIN jobs' \subseteq Requests /\ jobs' \in [DOMAIN jobs' -> Entry]
      BY <1>0, <2>2 DEF Refuse, AgentTypeOK
    <3>2. handling' \subseteq Requests /\ UNCHANGED <<clock, queue, worker, forgotten, ended, restarts>>
      BY <1>0, <2>2 DEF Refuse, AgentTypeOK
    <3>3. AgentTypeOK'
      BY <1>0, <3>1, <3>2 DEF AgentTypeOK
    <3> QED BY <1>4, <3>3 DEF Answer
  <2> QED BY <1>4, <2>1, <2>2 DEF Answer
<1>5. CASE AgentWorks
  <2>1. CASE Take
    <3>1. queue' \in Seq(Requests) /\ worker' \in Requests
      BY <1>0, <2>1, HeadTailProperties DEF Take, AgentTypeOK
    <3>2. AgentTypeOK'
      BY <1>0, <2>1, <3>1 DEF Take, AgentTypeOK
    <3> QED BY <1>5, <3>2 DEF AgentWorks
  <2>2. ASSUME NEW result \in Results, Finish(result) PROVE TypeOK'
    <3>1. DOMAIN jobs' = DOMAIN jobs /\ jobs' \in [DOMAIN jobs' -> Entry]
      <4>1. [state |-> result, completedAt |-> clock] \in Entry
        BY <1>0 DEF Entry
      <4> QED BY <1>0, <2>2, <4>1 DEF Finish, Report, AgentTypeOK
    <3>2. AgentTypeOK'
      BY <1>0, <2>2, <3>1 DEF Finish, AgentTypeOK
    <3> QED BY <1>5, <3>2 DEF AgentWorks
  <2>3. CASE Restart
    <3>1. DOMAIN jobs' \subseteq Requests /\ jobs' \in [DOMAIN jobs' -> Entry] /\ queue' \in Seq(Requests)
      BY <2>3 DEF Restart, NoJobs
    <3>2. ended' \in [Requests -> {"none"} \cup Results]
      BY <1>0, <2>3 DEF Restart, AgentTypeOK, Results
    <3>3. /\ clock' \in 0 .. MaxTime /\ worker' \in Requests \cup {"idle"} /\ handling' \subseteq Requests
          /\ restarts' \in 0 .. MaxRestarts
      <4>1. /\ clock' = clock /\ worker' = "idle" /\ handling' = {}
            /\ restarts < MaxRestarts /\ restarts' = restarts + 1
        BY <2>3, Zenon DEF Restart
      <4> QED BY <1>0, <4>1 DEF AgentTypeOK
    <3>4. forgotten' \subseteq Requests
      BY <1>0, <2>3, HeldType DEF Restart, AgentTypeOK
    <3>5. AgentTypeOK'
      BY <3>1, <3>2, <3>3, <3>4 DEF AgentTypeOK
    <3> QED BY <1>5, <3>5 DEF AgentWorks
  <2> QED BY <1>5, <2>1, <2>2, <2>3 DEF AgentWorks, Work
<1>6. CASE Tick
  <2>1. clock' \in 0 .. MaxTime /\ UNCHANGED <<agentVars, consumerVars>>
    BY <1>0, <1>6 DEF Tick, AgentTypeOK
  <2>2. AgentTypeOK'
    BY <1>0, <2>1 DEF AgentTypeOK
  <2> QED BY <2>1, <2>2
<1>7. CASE UNCHANGED vars
  <2>1. AgentTypeOK'
    BY <1>0, <1>7 DEF AgentTypeOK
  <2> QED BY <1>7, <2>1
<1> QED BY <1>1, <1>2, <1>3, <1>4, <1>5, <1>6, <1>7 DEF Next

\* The variables of consumer and agent stay in their types.
THEOREM TypeCorrect == Spec => []TypeOK
BY InitTypeOK, NextTypeOK, PTL DEF Spec

IInv ==
  /\ TypeOK
  /\ KnownUntilDone /\ PendingIsHeld
  /\ PlaceInv /\ FreshInv /\ HeldInv /\ ResultInv /\ TimeInv /\ RefusedInv
  /\ OutcomeIsTrue /\ AwaitedIsKept

\* Nothing is posted, held or answered at the start.
LEMMA InitIInv == Init => IInv
<1> SUFFICES ASSUME Init PROVE IInv
    OBVIOUS
<1>1. TypeOK
  BY InitTypeOK
<1>2. Waiting = {} /\ Held = {} /\ DOMAIN jobs = {}
  BY Numbers DEF Init, AgentInit, Waiting, Held, NoJobs
<1>3. KnownUntilDone /\ PendingIsHeld /\ FreshInv /\ HeldInv /\ ResultInv /\ RefusedInv
  BY <1>2 DEF Init, AgentInit, KnownUntilDone, PendingIsHeld, FreshInv, HeldInv, ResultInv, RefusedInv
<1>4. PlaceInv
  BY <1>2, Numbers DEF Init, AgentInit, PlaceInv
<1>5. TimeInv /\ OutcomeIsTrue /\ AwaitedIsKept
  BY <1>2 DEF Init, AgentInit, TimeInv, OutcomeIsTrue, AwaitedIsKept, Awaited
<1> QED BY <1>1, <1>3, <1>4, <1>5 DEF IInv

\* A step of the consumer does not touch the agent.
LEMMA ConsumerFrame ==
  ASSUME UNCHANGED agentVars
  PROVE  UNCHANGED <<jobs, queue, worker, handling, forgotten, ended, restarts>>
         /\ Held' = Held /\ Waiting' = Waiting
BY DEF agentVars, Held, Waiting

\* The consumer's own steps keep the invariant.
LEMMA ConsumerIInv ==
  ASSUME IInv, NEW r \in Requests, Consumer(r), TypeOK'
  PROVE  IInv'
<1>0. clock' = clock /\ UNCHANGED agentVars
  BY DEF Consumer, Send, RunReturns, RunFails, Ask, GiveUp, StatusDone, StatusInconclusive
<1>1. UNCHANGED <<jobs, queue, worker, handling, forgotten, ended, restarts>>
      /\ Held' = Held /\ Waiting' = Waiting
  BY <1>0, ConsumerFrame
<1>2. AgentTypeOK /\ clock \in Nat /\ Held \subseteq Requests /\ DOMAIN jobs \subseteq Requests
  <2>1. AgentTypeOK
    BY DEF IInv, TypeOK
  <2> QED BY <2>1, HeldType, Numbers DEF AgentTypeOK
<1>3. KnownUntilDone' /\ PendingIsHeld' /\ HeldInv'
  BY <1>1 DEF IInv, KnownUntilDone, PendingIsHeld, HeldInv, Done
<1> USE Numbers
<1>4. CASE Send(r)
  <2>1. /\ reply' = reply /\ outcome' = outcome /\ deadline' = deadline /\ askedAt' = askedAt
        /\ pc[r] = "new" /\ posted' = posted \cup {r}
        /\ \A x \in Requests : pc'[x] = IF x = r THEN "run" ELSE pc[x]
        /\ \A x \in Requests : sentAt'[x] = IF x = r THEN clock ELSE sentAt[x]
    BY <1>4 DEF Send, Goto, IInv, TypeOK
  <2>2. PlaceInv' /\ FreshInv'
    BY <1>1, <2>1 DEF IInv, PlaceInv, FreshInv
  <2>3. ResultInv'
    BY <1>1, <1>2, <2>1 DEF IInv, ResultInv, FreshInv, Done
  <2>4. TimeInv'
    BY <1>0, <1>2, <2>1 DEF IInv, TimeInv
  <2>5. RefusedInv' /\ OutcomeIsTrue'
    BY <1>1, <2>1 DEF IInv, RefusedInv, OutcomeIsTrue, FreshInv
  <2>6. AwaitedIsKept'
    BY <1>0, <1>1, <2>1 DEF IInv, AwaitedIsKept, Awaited, FreshInv
  <2> QED BY <1>3, <2>2, <2>3, <2>4, <2>5, <2>6 DEF IInv
<1>5. CASE RunReturns(r)
  <2>1. /\ reply' = reply /\ outcome' = outcome /\ sentAt' = sentAt /\ askedAt' = askedAt
        /\ pc[r] = "run" /\ reply[r] = "accepted" /\ posted' = posted
        /\ \A x \in Requests : pc'[x] = IF x = r THEN "poll" ELSE pc[x]
        /\ \A x \in Requests : deadline'[x] = IF x = r THEN clock + MaxWait ELSE deadline[x]
        /\ sentAt[r] \in Nat
    BY <1>5 DEF RunReturns, Goto, IInv, TypeOK
  <2>2. PlaceInv' /\ FreshInv'
    BY <1>1, <2>1 DEF IInv, PlaceInv, FreshInv
  <2>3. ResultInv'
    BY <1>1, <1>2, <2>1 DEF IInv, ResultInv, Done
  <2>4. TimeInv'
    BY <1>0, <1>2, <2>1 DEF IInv, TimeInv
  <2>5. RefusedInv' /\ OutcomeIsTrue'
    BY <1>1, <2>1 DEF IInv, RefusedInv, OutcomeIsTrue
  <2>6. AwaitedIsKept'
    BY <1>0, <1>1, <2>1 DEF IInv, AwaitedIsKept, Awaited
  <2> QED BY <1>3, <2>2, <2>3, <2>4, <2>5, <2>6 DEF IInv
<1>6. CASE RunFails(r) \/ GiveUp(r) \/ StatusDone(r)
  <2>1. /\ reply' = reply /\ posted' = posted /\ pc[r] \in {"run", "poll", "asked"}
        /\ \A x \in Requests : pc'[x] = IF x = r THEN "done" ELSE pc[x]
        /\ \A x \in Requests : x # r =>
             /\ sentAt'[x] = sentAt[x] /\ deadline'[x] = deadline[x]
             /\ askedAt'[x] = askedAt[x] /\ outcome'[x] = outcome[x]
    BY <1>6 DEF RunFails, GiveUp, StatusDone, Return, Goto, IInv, TypeOK
  <2>2. PlaceInv' /\ FreshInv'
    BY <1>1, <2>1 DEF IInv, PlaceInv, FreshInv
  <2>3. ResultInv'
    BY <1>1, <1>2, <2>1 DEF IInv, ResultInv, Done
  <2>4. TimeInv'
    BY <1>0, <1>2, <2>1 DEF IInv, TimeInv
  <2>5. RefusedInv' /\ OutcomeIsTrue'
    <3>1. CASE RunFails(r)
      <4>1. outcome'[r] = "unknown" \/ (outcome'[r] = "refused" /\ reply[r] = "refused")
        BY <3>1 DEF RunFails, Return, IInv, TypeOK
      <4> QED BY <1>1, <2>1, <4>1 DEF IInv, RefusedInv, OutcomeIsTrue
    <3>2. CASE GiveUp(r)
      <4>1. outcome'[r] = "unknown"
        BY <3>2 DEF GiveUp, Return, IInv, TypeOK
      <4> QED BY <1>1, <2>1, <4>1 DEF IInv, RefusedInv, OutcomeIsTrue
    <3>3. CASE StatusDone(r)
      <4>1. /\ r \in DOMAIN jobs /\ Done(r)
            /\ outcome'[r] = IF jobs[r].state = "success" THEN "success" ELSE "failed"
        BY <3>3 DEF StatusDone, Return, IInv, TypeOK
      <4>2. ended[r] = jobs[r].state /\ jobs[r].state \in {"success", "error"}
        BY <4>1 DEF IInv, ResultInv, TypeOK, AgentTypeOK, Entry, Results, Done
      <4> QED BY <1>1, <2>1, <4>1, <4>2 DEF IInv, RefusedInv, OutcomeIsTrue
    <3> QED BY <1>6, <3>1, <3>2, <3>3
  <2>6. AwaitedIsKept'
    BY <1>0, <1>1, <2>1 DEF IInv, AwaitedIsKept, Awaited
  <2> QED BY <1>3, <2>2, <2>3, <2>4, <2>5, <2>6 DEF IInv
<1>7. CASE Ask(r) \/ StatusInconclusive(r)
  <2>1. /\ reply' = reply /\ posted' = posted /\ outcome' = outcome
        /\ sentAt' = sentAt /\ deadline' = deadline
        /\ \A x \in Requests : x # r => pc'[x] = pc[x] /\ askedAt'[x] = askedAt[x]
        /\ \/ pc[r] = "poll" /\ pc'[r] = "asked" /\ clock <= deadline[r] /\ askedAt'[r] = clock
           \/ pc[r] = "asked" /\ pc'[r] = "poll"
    BY <1>7 DEF Ask, StatusInconclusive, Goto, IInv, TypeOK
  <2>2. PlaceInv' /\ FreshInv'
    BY <1>1, <2>1 DEF IInv, PlaceInv, FreshInv
  <2>3. ResultInv'
    BY <1>1, <1>2, <2>1 DEF IInv, ResultInv, Done
  <2>4. TimeInv'
    BY <1>0, <1>2, <2>1 DEF IInv, TimeInv
  <2>5. RefusedInv' /\ OutcomeIsTrue'
    BY <1>1, <2>1 DEF IInv, RefusedInv, OutcomeIsTrue
  <2>6. AwaitedIsKept'
    BY <1>0, <1>1, <2>1 DEF IInv, AwaitedIsKept, Awaited
  <2> QED BY <1>3, <2>2, <2>3, <2>4, <2>5, <2>6 DEF IInv
<1> QED BY <1>4, <1>5, <1>6, <1>7 DEF Consumer

\* A result the consumer still waits for is younger than the retention time: it is no older
\* than the POST, whose 202 took at most Timeout, the polling MaxWait, the last poll Timeout.
LEMMA AwaitedIsYoung ==
  ASSUME IInv, NEW r \in Requests, Awaited(r), r \in DOMAIN jobs, Done(r)
  PROVE  jobs[r].completedAt >= clock - Retention
<1>1. /\ clock \in Nat /\ sentAt[r] \in Nat /\ deadline[r] \in Nat /\ askedAt[r] \in Nat
      /\ jobs[r].completedAt \in Nat
  BY Numbers DEF IInv, TypeOK, AgentTypeOK, Entry
<1>2. pc[r] \in {"run", "poll", "asked"} /\ jobs[r].completedAt >= sentAt[r]
  BY DEF IInv, ResultInv, Awaited
<1>3. clock <= sentAt[r] + Timeout + MaxWait + Timeout
  <2>1. CASE pc[r] = "run"
    BY <1>1, <2>1, Numbers DEF IInv, TimeInv
  <2>2. CASE pc[r] = "poll"
    BY <1>1, <2>2, Numbers DEF IInv, TimeInv, Awaited
  <2>3. CASE pc[r] = "asked"
    BY <1>1, <2>3, Numbers DEF IInv, TimeInv
  <2> QED BY <1>2, <2>1, <2>2, <2>3
<1> QED BY <1>1, <1>2, <1>3, Numbers

\* handleRun: a new pending entry, and a sweep that spares what is awaited or pending.
LEMMA DeliverIInv ==
  ASSUME IInv, NEW r \in Requests, Deliver(r), TypeOK'
  PROVE  IInv'
<1>0. AgentTypeOK /\ Held \subseteq Requests /\ DOMAIN jobs \subseteq Requests
  <2>1. AgentTypeOK
    BY DEF IInv, TypeOK
  <2> QED BY <2>1, HeldType DEF AgentTypeOK
<1>1. /\ HandleRun(r) /\ r \in posted /\ posted' = posted \ {r}
      /\ UNCHANGED <<pc, sentAt, reply, deadline, askedAt, outcome>>
  BY DEF Deliver
<1>2. /\ r \in DOMAIN jobs' /\ jobs'[r] = Pending
      /\ \A x \in DOMAIN jobs' : x # r => x \in DOMAIN jobs /\ jobs'[x] = jobs[x]
      /\ \A x \in DOMAIN jobs \ DOMAIN jobs' :
           x # r /\ Done(x) /\ jobs[x].completedAt < clock - Retention
  BY <1>0, <1>1, HandleRunEffect
<1>3. /\ handling' = handling \cup {r}
      /\ UNCHANGED <<clock, queue, worker, forgotten, ended, restarts>>
  BY <1>1 DEF HandleRun
<1>4. Waiting' = Waiting /\ Held' = Held \cup {r}
  BY <1>3 DEF Waiting, Held
<1>5. /\ r \notin DOMAIN jobs /\ r \notin Held /\ reply[r] = "none" /\ ended[r] = "none" /\ pc[r] # "new"
      /\ r \notin Waiting /\ worker # r
  BY <1>1 DEF IInv, FreshInv, Held
<1>6. KnownUntilDone' /\ PendingIsHeld'
  BY <1>0, <1>2, <1>4 DEF IInv, KnownUntilDone, PendingIsHeld, Done, Pending
<1>7. PlaceInv' /\ HeldInv'
  BY <1>1, <1>3, <1>4, <1>5 DEF IInv, PlaceInv, HeldInv
<1>8. FreshInv'
  BY <1>1, <1>2, <1>3, <1>4, <1>5 DEF IInv, FreshInv
<1>9. ResultInv'
  BY <1>1, <1>2, <1>3 DEF IInv, ResultInv, Done, Pending
<1>10. TimeInv'
  BY <1>1, <1>3 DEF IInv, TimeInv
<1>11. RefusedInv' /\ OutcomeIsTrue'
  BY <1>1, <1>3, <1>4, <1>5 DEF IInv, RefusedInv, OutcomeIsTrue
<1>12. AwaitedIsKept'
  <2> SUFFICES ASSUME NEW x \in Requests, Awaited(x), x \notin forgotten, x \notin DOMAIN jobs' PROVE FALSE
    BY <1>1, <1>3 DEF AwaitedIsKept, Awaited
  <2>1. x \in DOMAIN jobs
    BY DEF IInv, AwaitedIsKept
  <2>2. Done(x) /\ jobs[x].completedAt < clock - Retention
    BY <1>2, <2>1
  <2>3. jobs[x].completedAt >= clock - Retention
    BY <2>1, <2>2, AwaitedIsYoung
  <2>4. clock \in Nat /\ jobs[x].completedAt \in Nat
    BY <1>0, <2>1, Numbers DEF AgentTypeOK, Entry
  <2> QED BY <2>2, <2>3, <2>4, Numbers
<1> QED BY <1>6, <1>7, <1>8, <1>9, <1>10, <1>11, <1>12 DEF IInv

\* What a send on the channel and a receive from it do to the jobs waiting there.
LEMMA AppendWaiting ==
  ASSUME queue \in Seq(Requests), NEW r \in Requests, queue' = Append(queue, r), r \notin Waiting,
         \A i, k \in 1 .. Len(queue) : queue[i] = queue[k] => i = k
  PROVE  /\ Waiting' = Waiting \cup {r}
         /\ \A i, k \in 1 .. Len(queue') : queue'[i] = queue'[k] => i = k
<1>1. /\ Len(queue') = Len(queue) + 1 /\ Len(queue) \in Nat
      /\ queue'[Len(queue) + 1] = r
      /\ \A i \in 1 .. Len(queue) : queue'[i] = queue[i]
  BY AppendProperties
<1>2. \A i \in 1 .. Len(queue') : i \in 1 .. Len(queue) \/ i = Len(queue) + 1
  BY <1>1
<1>3. Waiting' = Waiting \cup {r}
  BY <1>1, <1>2 DEF Waiting
<1>4. \A i \in 1 .. Len(queue) : queue[i] # r
  BY DEF Waiting
<1>5. \A i, k \in 1 .. Len(queue') : queue'[i] = queue'[k] => i = k
  BY <1>1, <1>2, <1>4
<1> QED BY <1>3, <1>5

\* The head leaves, and as no job waits twice it is not among the rest.
LEMMA TailWaiting ==
  ASSUME queue \in Seq(Requests), queue # <<>>, queue' = Tail(queue),
         \A i, k \in 1 .. Len(queue) : queue[i] = queue[k] => i = k
  PROVE  /\ Head(queue) \in Waiting
         /\ Waiting' = Waiting \ {Head(queue)}
         /\ \A i, k \in 1 .. Len(queue') : queue'[i] = queue'[k] => i = k
<1>1. /\ Len(queue) \in Nat /\ Len(queue) >= 1 /\ Head(queue) = queue[1]
      /\ Len(queue') = Len(queue) - 1
      /\ \A i \in 1 .. Len(queue') : queue'[i] = queue[i + 1]
  BY HeadTailProperties, EmptySeq, LenProperties
<1>2. Head(queue) \in Waiting
  BY <1>1 DEF Waiting
<1>3. \A i \in 1 .. Len(queue') : i + 1 \in 1 .. Len(queue) /\ i + 1 # 1
  BY <1>1
<1>4. \A k \in 1 .. Len(queue) : k = 1 \/ (k - 1 \in 1 .. Len(queue') /\ (k - 1) + 1 = k)
  BY <1>1
<1>5. Waiting' \subseteq Waiting \ {Head(queue)}
  <2> SUFFICES ASSUME NEW i \in 1 .. Len(queue') PROVE queue'[i] \in Waiting \ {Head(queue)}
    BY DEF Waiting
  <2>1. queue[i + 1] # queue[1] /\ queue[i + 1] \in Waiting
    BY <1>1, <1>3 DEF Waiting
  <2> QED BY <1>1, <2>1
<1>6. Waiting \ {Head(queue)} \subseteq Waiting'
  <2> SUFFICES ASSUME NEW k \in 1 .. Len(queue), queue[k] # Head(queue) PROVE queue[k] \in Waiting'
    BY DEF Waiting
  <2>1. k - 1 \in 1 .. Len(queue') /\ (k - 1) + 1 = k
    BY <1>1, <1>4
  <2>2. queue'[k - 1] = queue[k]
    BY <1>1, <2>1
  <2> QED BY <2>1, <2>2 DEF Waiting
<1>7. \A i, k \in 1 .. Len(queue') : queue'[i] = queue'[k] => i = k
  <2> SUFFICES ASSUME NEW i \in 1 .. Len(queue'), NEW k \in 1 .. Len(queue'), queue'[i] = queue'[k]
      PROVE  i = k
    OBVIOUS
  <2>1. queue[i + 1] = queue[k + 1]
    BY <1>1
  <2>2. i + 1 = k + 1
    BY <1>3, <2>1
  <2> QED BY <2>2
<1> QED BY <1>2, <1>5, <1>6, <1>7

\* The end of handleRun: 202 with the job queued, or 503 with its entry gone.
LEMMA AnswerIInv ==
  ASSUME IInv, NEW r \in Requests, Answer(r), TypeOK'
  PROVE  IInv'
<1>0. AgentTypeOK /\ Held \subseteq Requests /\ DOMAIN jobs \subseteq Requests
  <2>1. AgentTypeOK
    BY DEF IInv, TypeOK
  <2> QED BY <2>1, HeldType DEF AgentTypeOK
<1>1. UNCHANGED <<clock, worker, forgotten, ended, pc, sentAt, posted, deadline, askedAt, outcome>>
  BY DEF Answer, Accept, Refuse
<1>2. r \in handling /\ handling' = handling \ {r}
  BY DEF Answer, Accept, Refuse
<1>3. /\ r \in Held /\ r \notin Waiting /\ worker # r /\ reply[r] = "none" /\ ended[r] = "none"
      /\ r \in DOMAIN jobs /\ ~Done(r) /\ pc[r] # "new" /\ r \notin posted
      /\ pc[r] \notin {"poll", "asked"}
  BY <1>2 DEF IInv, PlaceInv, HeldInv, KnownUntilDone, FreshInv, Held
<1>4. TimeInv'
  BY <1>1 DEF IInv, TimeInv
<1>5. CASE Accept(r) /\ reply' = [reply EXCEPT ![r] = "accepted"]
  <2>1. jobs' = jobs /\ queue' = Append(queue, r) /\ queue \in Seq(Requests)
    BY <1>0, <1>5 DEF Accept, AgentTypeOK
  <2>2. /\ Waiting' = Waiting \cup {r}
        /\ \A i, k \in 1 .. Len(queue') : queue'[i] = queue'[k] => i = k
    BY <1>3, <2>1, AppendWaiting DEF IInv, PlaceInv
  <2>3. Held' = Held
    BY <1>1, <1>2, <2>2 DEF Held
  <2>4. \A x \in Requests : reply'[x] = IF x = r THEN "accepted" ELSE reply[x]
    BY <1>5 DEF IInv, TypeOK
  <2>5. KnownUntilDone' /\ PendingIsHeld' /\ HeldInv'
    BY <1>1, <2>1, <2>3 DEF IInv, KnownUntilDone, PendingIsHeld, HeldInv, Done
  <2>6. PlaceInv'
    BY <1>1, <1>2, <1>3, <2>2, <2>4 DEF IInv, PlaceInv
  <2>7. FreshInv'
    BY <1>1, <1>3, <2>1, <2>3, <2>4 DEF IInv, FreshInv
  <2>8. ResultInv'
    BY <1>0, <1>1, <2>1, <2>4 DEF IInv, ResultInv, Done
  <2>9. RefusedInv' /\ OutcomeIsTrue'
    BY <1>1, <1>3, <2>3, <2>4 DEF IInv, RefusedInv, OutcomeIsTrue
  <2>10. AwaitedIsKept'
    BY <1>1, <1>3, <2>1, <2>4 DEF IInv, AwaitedIsKept, Awaited
  <2> QED BY <1>4, <2>5, <2>6, <2>7, <2>8, <2>9, <2>10 DEF IInv
<1>6. CASE Refuse(r) /\ reply' = [reply EXCEPT ![r] = "refused"]
  <2>1. /\ DOMAIN jobs' = DOMAIN jobs \ {r} /\ queue' = queue
        /\ \A x \in DOMAIN jobs' : jobs'[x] = jobs[x]
    BY <1>6 DEF Refuse
  <2>2. Waiting' = Waiting
    BY <2>1 DEF Waiting
  <2>3. Held' = Held \ {r}
    BY <1>1, <1>2, <1>3, <2>2 DEF Held
  <2>4. \A x \in Requests : reply'[x] = IF x = r THEN "refused" ELSE reply[x]
    BY <1>6 DEF IInv, TypeOK
  <2>5. KnownUntilDone' /\ PendingIsHeld' /\ HeldInv'
    BY <1>1, <2>1, <2>3 DEF IInv, KnownUntilDone, PendingIsHeld, HeldInv, Done
  <2>6. PlaceInv'
    BY <1>1, <1>2, <1>3, <2>1, <2>2, <2>4 DEF IInv, PlaceInv
  <2>7. FreshInv'
    BY <1>1, <1>3, <2>1, <2>3, <2>4 DEF IInv, FreshInv
  <2>8. ResultInv'
    BY <1>0, <1>1, <2>1, <2>4 DEF IInv, ResultInv, Done
  <2>9. RefusedInv' /\ OutcomeIsTrue'
    BY <1>1, <1>3, <2>3, <2>4 DEF IInv, RefusedInv, OutcomeIsTrue
  <2>10. AwaitedIsKept'
    BY <1>1, <1>3, <2>1, <2>4 DEF IInv, AwaitedIsKept, Awaited
  <2> QED BY <1>4, <2>5, <2>6, <2>7, <2>8, <2>9, <2>10 DEF IInv
<1> QED BY <1>5, <1>6 DEF Answer

\* The worker takes a job, ends it, or is gone with everything the agent had in memory.
LEMMA AgentWorksIInv ==
  ASSUME IInv, AgentWorks, TypeOK'
  PROVE  IInv'
<1>0. AgentTypeOK /\ Held \subseteq Requests /\ DOMAIN jobs \subseteq Requests
  <2>1. AgentTypeOK
    BY DEF IInv, TypeOK
  <2> QED BY <2>1, HeldType DEF AgentTypeOK
<1>1. /\ clock' = clock
      /\ UNCHANGED <<pc, sentAt, posted, reply, deadline, askedAt, outcome>>
  BY DEF AgentWorks, Work, Take, Finish, Restart, consumerVars
<1>2. TimeInv'
  BY <1>1 DEF IInv, TimeInv
<1>3. CASE Take
  <2>1. /\ worker = "idle" /\ queue # <<>> /\ worker' = Head(queue) /\ queue' = Tail(queue)
        /\ UNCHANGED <<jobs, handling, forgotten, ended>> /\ queue \in Seq(Requests)
    BY <1>0, <1>3 DEF Take, AgentTypeOK
  <2>2. /\ Head(queue) \in Waiting
        /\ Waiting' = Waiting \ {Head(queue)}
        /\ \A i, k \in 1 .. Len(queue') : queue'[i] = queue'[k] => i = k
    BY <2>1, TailWaiting DEF IInv, PlaceInv
  <2>3. Held' = Held /\ worker' \in Requests
    BY <1>0, <2>1, <2>2, Numbers DEF Held
  <2>4. KnownUntilDone' /\ PendingIsHeld' /\ HeldInv' /\ FreshInv'
    BY <1>1, <2>1, <2>3 DEF IInv, KnownUntilDone, PendingIsHeld, HeldInv, FreshInv, Done
  <2>5. PlaceInv'
    BY <1>1, <2>1, <2>2 DEF IInv, PlaceInv
  <2>6. ResultInv' /\ RefusedInv' /\ OutcomeIsTrue'
    BY <1>1, <2>1, <2>3 DEF IInv, ResultInv, RefusedInv, OutcomeIsTrue, Done
  <2>7. AwaitedIsKept'
    BY <1>1, <2>1 DEF IInv, AwaitedIsKept, Awaited
  <2> QED BY <1>2, <2>4, <2>5, <2>6, <2>7 DEF IInv
<1>4. ASSUME NEW result \in Results, Finish(result) PROVE IInv'
  <2>1. /\ worker \in Requests /\ worker' = "idle"
        /\ UNCHANGED <<queue, handling, forgotten>>
        /\ \A x \in Requests : ended'[x] = IF x = worker THEN result ELSE ended[x]
        /\ DOMAIN jobs' = DOMAIN jobs
        /\ \A x \in DOMAIN jobs' : x # worker => jobs'[x] = jobs[x]
        /\ worker \in DOMAIN jobs =>
             jobs'[worker].state = result /\ jobs'[worker].completedAt = clock
    BY <1>0, <1>4 DEF Finish, Report, AgentTypeOK
  <2>2. Waiting' = Waiting /\ worker \in Held /\ worker \notin Waiting /\ worker \notin handling
    BY <2>1 DEF IInv, PlaceInv, Waiting, Held
  <2>3. Held' = Held \ {worker}
    BY <2>1, <2>2, Numbers DEF Held
  <2>4. /\ ended[worker] = "none" /\ reply[worker] = "accepted" /\ pc[worker] # "new"
        /\ worker \notin posted /\ worker \in DOMAIN jobs
    BY <2>1, <2>2 DEF IInv, PlaceInv, HeldInv, FreshInv, KnownUntilDone
  <2>5. result # "pending"
    BY DEF Results
  <2>6. KnownUntilDone' /\ PendingIsHeld' /\ HeldInv'
    BY <1>0, <2>1, <2>3, <2>4, <2>5 DEF IInv, KnownUntilDone, PendingIsHeld, HeldInv, Done
  <2>7. PlaceInv'
    BY <1>1, <2>1, <2>2, Numbers DEF IInv, PlaceInv
  <2>8. FreshInv'
    BY <1>1, <2>1, <2>3, <2>4 DEF IInv, FreshInv
  <2>9. ResultInv'
    <3>1. pc[worker] \in {"run", "poll", "asked"} => clock >= sentAt[worker]
      BY <1>0, <2>1, Numbers DEF IInv, TimeInv, TypeOK, AgentTypeOK
    <3> QED BY <1>0, <1>1, <2>1, <2>4, <2>5, <3>1 DEF IInv, ResultInv, Done
  <2>10. RefusedInv' /\ OutcomeIsTrue'
    BY <1>1, <2>1, <2>2, <2>3, <2>4 DEF IInv, RefusedInv, OutcomeIsTrue
  <2>11. AwaitedIsKept'
    BY <1>1, <2>1 DEF IInv, AwaitedIsKept, Awaited
  <2> QED BY <1>2, <2>6, <2>7, <2>8, <2>9, <2>10, <2>11 DEF IInv
<1>5. CASE Restart
  <2>1. /\ jobs' = NoJobs /\ queue' = <<>> /\ worker' = "idle" /\ handling' = {}
        /\ forgotten' = forgotten \cup (DOMAIN jobs \cup Held)
    BY <1>5 DEF Restart
  <2>2. Waiting' = {} /\ Held' = {} /\ DOMAIN jobs' = {} /\ Len(queue') = 0
    BY <2>1, Numbers DEF Waiting, Held, NoJobs
  <2>3. \A x \in Requests : ended'[x] = ended[x] \/ (x = worker /\ worker \in Held)
    BY <1>0, <1>5 DEF Restart, AgentTypeOK, Held
  <2>4. KnownUntilDone' /\ PendingIsHeld' /\ HeldInv' /\ ResultInv'
    BY <2>2 DEF KnownUntilDone, PendingIsHeld, HeldInv, ResultInv
  <2>5. PlaceInv'
    BY <1>1, <2>1, <2>2, Numbers DEF IInv, PlaceInv
  <2>6. FreshInv'
    BY <1>1, <2>2, <2>3 DEF IInv, FreshInv
  <2>7. RefusedInv' /\ OutcomeIsTrue'
    BY <1>1, <2>2, <2>3 DEF IInv, RefusedInv, OutcomeIsTrue, HeldInv
  <2>8. AwaitedIsKept'
    BY <1>1, <2>1 DEF IInv, AwaitedIsKept, Awaited
  <2> QED BY <1>2, <2>4, <2>5, <2>6, <2>7, <2>8 DEF IInv
<1> QED BY <1>3, <1>4, <1>5 DEF AgentWorks, Work

\* Every step keeps the invariant.
LEMMA NextIInv == IInv /\ [Next]_vars => IInv'
<1> SUFFICES ASSUME IInv, [Next]_vars PROVE IInv'
    OBVIOUS
<1>0. TypeOK'
  BY NextTypeOK DEF IInv
<1>1. ASSUME NEW r \in Requests, Consumer(r) PROVE IInv'
  BY <1>0, <1>1, ConsumerIInv
<1>2. ASSUME NEW r \in Requests, Deliver(r) PROVE IInv'
  BY <1>0, <1>2, DeliverIInv
<1>3. ASSUME NEW r \in Requests, Lose(r) PROVE IInv'
  <2>1. /\ UNCHANGED <<clock, agentVars, pc, sentAt, reply, deadline, askedAt, outcome>>
        /\ posted' = posted \ {r}
    BY <1>3 DEF Lose
  <2>2. /\ UNCHANGED <<jobs, queue, worker, handling, forgotten, ended, restarts>>
        /\ Held' = Held /\ Waiting' = Waiting
    BY <2>1, ConsumerFrame
  <2>3. KnownUntilDone' /\ PendingIsHeld' /\ HeldInv' /\ ResultInv' /\ PlaceInv'
    BY <2>1, <2>2 DEF IInv, KnownUntilDone, PendingIsHeld, HeldInv, ResultInv, PlaceInv, Done
  <2>4. FreshInv' /\ TimeInv' /\ RefusedInv' /\ OutcomeIsTrue'
    BY <2>1, <2>2 DEF IInv, FreshInv, TimeInv, RefusedInv, OutcomeIsTrue
  <2>5. AwaitedIsKept'
    BY <2>1, <2>2 DEF IInv, AwaitedIsKept, Awaited
  <2> QED BY <1>0, <2>3, <2>4, <2>5 DEF IInv
<1>4. ASSUME NEW r \in Requests, Answer(r) PROVE IInv'
  BY <1>0, <1>4, AnswerIInv
<1>5. CASE AgentWorks
  BY <1>0, <1>5, AgentWorksIInv
<1>6. CASE Tick
  <2>1. /\ UNCHANGED <<agentVars, pc, sentAt, posted, reply, deadline, askedAt, outcome>>
        /\ clock' = clock + 1
    BY <1>6 DEF Tick, consumerVars
  <2>2. /\ UNCHANGED <<jobs, queue, worker, handling, forgotten, ended, restarts>>
        /\ Held' = Held /\ Waiting' = Waiting
    BY <2>1, ConsumerFrame
  <2>3. /\ clock \in Nat
        /\ \A r \in Requests : sentAt[r] \in Nat /\ deadline[r] \in Nat /\ askedAt[r] \in Nat
    BY Numbers DEF IInv, TypeOK, AgentTypeOK
  <2>4. KnownUntilDone' /\ PendingIsHeld' /\ HeldInv' /\ ResultInv' /\ PlaceInv'
    BY <2>1, <2>2 DEF IInv, KnownUntilDone, PendingIsHeld, HeldInv, ResultInv, PlaceInv, Done
  <2>5. FreshInv' /\ RefusedInv' /\ OutcomeIsTrue'
    BY <2>1, <2>2 DEF IInv, FreshInv, RefusedInv, OutcomeIsTrue
  <2>6. TimeInv'
    <3>1. \A r \in Requests : /\ pc[r] = "run" => clock < sentAt[r] + Timeout
                              /\ pc[r] = "asked" => clock < askedAt[r] + Timeout
      BY <1>6 DEF Tick
    <3> QED BY <2>1, <2>3, <3>1, Numbers DEF IInv, TimeInv
  <2>7. AwaitedIsKept'
    <3>1. \A r \in Requests : clock + 1 <= deadline[r] => clock <= deadline[r]
      BY <2>3
    <3> QED BY <2>1, <2>2, <3>1 DEF IInv, AwaitedIsKept, Awaited
  <2> QED BY <1>0, <2>4, <2>5, <2>6, <2>7 DEF IInv
<1>7. CASE UNCHANGED vars
  <2>1. UNCHANGED <<clock, agentVars, pc, sentAt, posted, reply, deadline, askedAt, outcome>>
    BY <1>7 DEF vars, consumerVars
  <2>2. /\ UNCHANGED <<jobs, queue, worker, handling, forgotten, ended, restarts>>
        /\ Held' = Held /\ Waiting' = Waiting
    BY <2>1, ConsumerFrame
  <2>3. KnownUntilDone' /\ PendingIsHeld' /\ HeldInv' /\ ResultInv' /\ PlaceInv'
    BY <2>1, <2>2 DEF IInv, KnownUntilDone, PendingIsHeld, HeldInv, ResultInv, PlaceInv, Done
  <2>4. FreshInv' /\ TimeInv' /\ RefusedInv' /\ OutcomeIsTrue' /\ AwaitedIsKept'
    BY <2>1, <2>2 DEF IInv, FreshInv, TimeInv, RefusedInv, OutcomeIsTrue, AwaitedIsKept, Awaited
  <2> QED BY <1>0, <2>3, <2>4 DEF IInv
<1> QED BY <1>1, <1>2, <1>3, <1>4, <1>5, <1>6, <1>7 DEF Next

\* The inductive invariant.
THEOREM Invariance == Spec => []IInv
BY InitIInv, NextIInv, PTL DEF Spec

\* The agent never sweeps a result its consumer still waits for, for all waiting times
\* within the retention time, late replies and slow polls included.
THEOREM AwaitedKept == Spec => []AwaitedIsKept
BY Invariance, PTL DEF IInv

\* What the consumer reports of an agent's job is how the job ended, whatever is lost.
THEOREM OutcomesAreTrue == Spec => []OutcomeIsTrue
BY Invariance, PTL DEF IInv

\* The agent's map knows every job in its hands, as pending, for any queue capacity.
THEOREM HeldIsKnown == Spec => []KnownUntilDone
BY Invariance, PTL DEF IInv

\* The agent's map holds no pending entry but those of the jobs in its hands.
THEOREM NoPendingLeak == Spec => []PendingIsHeld
BY Invariance, PTL DEF IInv
==============================================================================
