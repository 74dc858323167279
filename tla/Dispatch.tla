------------------------------ MODULE Dispatch ------------------------------
(***************************************************************************)
(* remoteBackupAndUpload against an Agent, over HTTPS: the consumer posts  *)
(* the job, then polls its status until it is done or the deadline has     *)
(* passed.  A request or its reply may be lost or late; the HTTP client    *)
(* gives an exchange up after its timeout, but what it sent may still      *)
(* reach the agent.  Times are in units of the same clock.                 *)
(***************************************************************************)
EXTENDS Agent

CONSTANTS
  MaxWait,   \* remoteAgentMaxWait (6 hours)
  Timeout    \* the HTTP client's timeout (30 seconds)

\* 6 hours and twice 30 seconds are less than 24 hours.
ASSUME DispatchAssumption ==
  /\ MaxWait \in Nat
  /\ Timeout \in Nat
  /\ MaxWait + 2 * Timeout <= Retention

VARIABLES
  pc,        \* where the goroutine of each request is
  sentAt,    \* when it posted the job
  posted,    \* requests whose POST is on its way to the agent
  reply,     \* what the agent answered to the POST
  deadline,  \* the deadline of the polling loop
  askedAt,   \* when the status exchange in progress began
  outcome    \* what remoteBackupAndUpload returned

consumerVars == <<pc, sentAt, posted, reply, deadline, askedAt, outcome>>
vars == <<clock, agentVars, consumerVars>>

Init ==
  /\ AgentInit
  /\ pc = [r \in Requests |-> "new"]
  /\ sentAt = [r \in Requests |-> 0]
  /\ posted = {}
  /\ reply = [r \in Requests |-> "none"]
  /\ deadline = [r \in Requests |-> 0]
  /\ askedAt = [r \in Requests |-> 0]
  /\ outcome = [r \in Requests |-> "none"]

Goto(r, step) == pc' = [pc EXCEPT ![r] = step]

\* remoteBackupAndUpload returns, and its variables are gone.
Return(r, result) ==
  /\ Goto(r, "done")
  /\ outcome' = [outcome EXCEPT ![r] = result]
  /\ sentAt' = [sentAt EXCEPT ![r] = 0]
  /\ deadline' = [deadline EXCEPT ![r] = 0]
  /\ askedAt' = [askedAt EXCEPT ![r] = 0]

(***************************************************************************)
(* The consumer.                                                           *)
(***************************************************************************)

\* client.Run
Send(r) ==
  /\ pc[r] = "new"
  /\ Goto(r, "run")
  /\ sentAt' = [sentAt EXCEPT ![r] = clock]
  /\ posted' = posted \cup {r}
  /\ UNCHANGED <<clock, agentVars, reply, deadline, askedAt, outcome>>

\* The 202 arrives, and the deadline runs from now on.
RunReturns(r) ==
  /\ pc[r] = "run"
  /\ reply[r] = "accepted"
  /\ Goto(r, "poll")
  /\ deadline' = [deadline EXCEPT ![r] = clock + MaxWait]
  /\ UNCHANGED <<clock, agentVars, sentAt, posted, reply, askedAt, outcome>>

\* The 503 arrives, or no answer does.
RunFails(r) ==
  /\ pc[r] = "run"
  /\ \/ reply[r] = "refused" /\ Return(r, "refused")
     \/ Return(r, "unknown")
  /\ UNCHANGED <<clock, agentVars, posted, reply>>

\* Seeded fault: the deadline is computed inside the loop.
AskExtends(r) ==
  /\ pc[r] = "poll"
  /\ clock <= deadline[r]
  /\ Goto(r, "asked")
  /\ askedAt' = [askedAt EXCEPT ![r] = clock]
  /\ deadline' = [deadline EXCEPT ![r] = clock + MaxWait]
  /\ UNCHANGED <<clock, agentVars, sentAt, posted, reply, outcome>>

\* client.Status, after the deadline was looked at.
Ask(r) ==
  /\ pc[r] = "poll"
  /\ clock <= deadline[r]
  /\ Goto(r, "asked")
  /\ askedAt' = [askedAt EXCEPT ![r] = clock]
  /\ UNCHANGED <<clock, agentVars, sentAt, posted, reply, deadline, outcome>>

GiveUp(r) ==
  /\ pc[r] = "poll"
  /\ clock > deadline[r]
  /\ Return(r, "unknown")
  /\ UNCHANGED <<clock, agentVars, posted, reply>>

\* Seeded fault: status.Status is not looked at, and a pending job reads as failed.
StatusUnchecked(r) ==
  /\ pc[r] = "asked"
  /\ r \in DOMAIN jobs
  /\ Return(r, IF jobs[r].state = "success" THEN "success" ELSE "failed")
  /\ UNCHANGED <<clock, agentVars, posted, reply>>

\* handleStatus finds the job done.
StatusDone(r) ==
  /\ pc[r] = "asked"
  /\ r \in DOMAIN jobs
  /\ Done(r)
  /\ Return(r, IF jobs[r].state = "success" THEN "success" ELSE "failed")
  /\ UNCHANGED <<clock, agentVars, posted, reply>>

\* Pending, 404, or no answer: the loop goes on.
StatusInconclusive(r) ==
  /\ pc[r] = "asked"
  /\ Goto(r, "poll")
  /\ askedAt' = [askedAt EXCEPT ![r] = 0]
  /\ UNCHANGED <<clock, agentVars, sentAt, posted, reply, deadline, outcome>>

(***************************************************************************)
(* The agent's handlers, with the request that calls them.                 *)
(***************************************************************************)

Deliver(r) ==
  /\ r \in posted
  /\ posted' = posted \ {r}
  /\ HandleRun(r)
  /\ UNCHANGED <<pc, sentAt, reply, deadline, askedAt, outcome>>

\* The request never reaches the agent.
Lose(r) ==
  /\ r \in posted
  /\ posted' = posted \ {r}
  /\ UNCHANGED <<clock, agentVars, pc, sentAt, reply, deadline, askedAt, outcome>>

Answer(r) ==
  /\ \/ Accept(r) /\ reply' = [reply EXCEPT ![r] = "accepted"]
     \/ Refuse(r) /\ reply' = [reply EXCEPT ![r] = "refused"]
  /\ UNCHANGED <<pc, sentAt, posted, deadline, askedAt, outcome>>

AgentWorks == (Work \/ Restart) /\ UNCHANGED consumerVars

\* An exchange is cut off by the client's timeout before the clock moves past it.
Tick ==
  /\ clock < MaxTime
  /\ \A r \in Requests : pc[r] = "run" => clock < sentAt[r] + Timeout
  /\ \A r \in Requests : pc[r] = "asked" => clock < askedAt[r] + Timeout
  /\ clock' = clock + 1
  /\ UNCHANGED <<agentVars, consumerVars>>

Consumer(r) ==
  \/ Send(r) \/ RunReturns(r) \/ RunFails(r)
  \/ Ask(r) \/ GiveUp(r) \/ StatusDone(r) \/ StatusInconclusive(r)

Next ==
  \/ \E r \in Requests : Consumer(r) \/ Deliver(r) \/ Lose(r) \/ Answer(r)
  \/ AgentWorks
  \/ Tick

Spec == Init /\ [][Next]_vars

\* The agent's handlers and its worker keep running; dump and upload return.
FairSpec == Spec /\ WF_vars(Work /\ UNCHANGED consumerVars) /\ \A r \in Requests : WF_vars(Answer(r))

(***************************************************************************)
(* Properties.                                                             *)
(***************************************************************************)

\* The variables stay in their types.
TypeOK ==
  /\ AgentTypeOK
  /\ pc \in [Requests -> {"new", "run", "poll", "asked", "done"}]
  /\ sentAt \in [Requests -> Nat]
  /\ posted \subseteq Requests
  /\ reply \in [Requests -> {"none", "accepted", "refused"}]
  /\ deadline \in [Requests -> Nat]
  /\ askedAt \in [Requests -> Nat]
  /\ outcome \in [Requests -> {"none", "success", "failed", "refused", "unknown"}]

\* The consumer may still ask for the result of r.
Awaited(r) ==
  /\ reply[r] = "accepted"
  /\ pc[r] \in {"run", "asked"} \/ (pc[r] = "poll" /\ clock <= deadline[r])

\* The agent never sweeps a result the consumer still waits for: as long as the agent does
\* not restart, a status request finds the job, however late the 202 and the polls are.
AwaitedIsKept ==
  \A r \in Requests : Awaited(r) /\ r \notin forgotten => r \in DOMAIN jobs

\* What the consumer reports of an agent's job is what happened: "success" and "failed"
\* are how the dump and upload ended, and a job that was refused never runs.  Of an
\* "unknown" outcome (lost reply, deadline) nothing is known: the backup may exist.
OutcomeIsTrue ==
  \A r \in Requests :
    /\ outcome[r] = "success" => ended[r] = "success"
    /\ outcome[r] = "failed" => ended[r] = "error"
    /\ outcome[r] = "refused" => ended[r] = "none" /\ r \notin Held

\* Every job the agent accepted runs to an end, unless the agent restarts: jobs that fail
\* do not keep the ones behind them from running.
AcceptedRuns ==
  \A r \in Requests : reply[r] = "accepted" ~> (ended[r] # "none" \/ r \in forgotten)

(***************************************************************************)
(* The inductive invariant behind the safety properties, part by part.     *)
(***************************************************************************)

\* A job is at one place of the agent at a time, and answered when it leaves its handler;
\* a goroutine that polls has its 202.
PlaceInv ==
  /\ \A r \in Requests :
       /\ pc[r] \in {"poll", "asked"} => reply[r] = "accepted"
       /\ r \in handling => r \notin Waiting /\ worker # r /\ reply[r] = "none"
       /\ r \in Waiting => worker # r
       /\ r \in Waiting \/ worker = r => reply[r] = "accepted"
  /\ \A i, k \in 1 .. Len(queue) : queue[i] = queue[k] => i = k

\* The agent knows nothing of a job that has not reached it.
FreshInv ==
  \A r \in Requests :
    /\ pc[r] = "new" => r \notin posted
    /\ pc[r] = "new" \/ r \in posted =>
         r \notin DOMAIN jobs /\ r \notin Held /\ reply[r] = "none" /\ ended[r] = "none"

\* A job in the agent's hands has no end yet.
HeldInv == \A r \in Held : ended[r] = "none"

\* A result tells how the job ended, and is no older than the POST its consumer waits on.
ResultInv ==
  \A r \in DOMAIN jobs : Done(r) =>
    /\ reply[r] = "accepted"
    /\ ended[r] = jobs[r].state
    /\ pc[r] \in {"run", "poll", "asked"} => jobs[r].completedAt >= sentAt[r]

\* How far the clock may be when an exchange is under way.
TimeInv ==
  \A r \in Requests :
    /\ pc[r] \in {"run", "poll", "asked"} => sentAt[r] <= clock
    /\ pc[r] = "run" => clock <= sentAt[r] + Timeout
    /\ pc[r] \in {"poll", "asked"} => deadline[r] <= sentAt[r] + Timeout + MaxWait
    /\ pc[r] = "asked" => askedAt[r] <= deadline[r] /\ clock <= askedAt[r] + Timeout

\* A refused job is out of the agent's hands.
RefusedInv ==
  \A r \in Requests :
    /\ outcome[r] = "refused" => reply[r] = "refused"
    /\ reply[r] = "refused" => ended[r] = "none" /\ r \notin Held /\ r \notin posted /\ pc[r] # "new"
==============================================================================
