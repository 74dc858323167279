------------------------------ MODULE AgentCert ------------------------------
(***************************************************************************)
(* An agent's certificate and the fingerprints pinned for it.              *)
(* loadOrCreateAgentCert takes the certificate and the key from two files  *)
(* or makes a new pair and writes the files one after the other; only then *)
(* the fingerprint is logged, for the operator to enter in the admin page, *)
(* and served.  The process may die anywhere and is restarted.             *)
(*                                                                         *)
(* A certificate is the number of its making and stands for its            *)
(* fingerprint and its key.  Clients (the check button, a dispatched job)  *)
(* read the agent's row and connect later.                                 *)
(***************************************************************************)
EXTENDS Integers

CONSTANTS
  Rows,        \* ids of remote_agents rows for this agent
  Clients,     \* connections made by the admin page and the consumer
  MaxStops,    \* bounds the crashes, failed writes and other ends of the process
  MaxMisreads  \* bounds the times good files cannot be read

ASSUME AgentCertAssumption ==
  /\ MaxStops \in Nat
  /\ MaxMisreads \in Nat

VARIABLES
  certFile, keyFile, \* the pair a file belongs to; 0 if it is missing or cut short
  at,         \* where runAgent is
  mine,       \* the pair the process holds; 0 if none
  made,       \* the pairs made so far
  announced,  \* fingerprints that were logged
  stops,      \* ends of the process so far
  misreads,   \* failed reads of good files so far
  agents,     \* row -> the pin and whether the token is right
  client      \* client -> its copy of a row and how the connection ended

procVars == <<certFile, keyFile, at, mine, made, announced, stops, misreads>>
vars == <<procVars, agents, client>>

None == 0
Wrong == -1    \* a fingerprint entered with a mistake

NoAgent == [pin |-> None, token |-> FALSE]
Idle == [pin |-> None, token |-> FALSE, end |-> "idle"]

Init ==
  /\ certFile = None
  /\ keyFile = None
  /\ at = "start"
  /\ mine = None
  /\ made = 0
  /\ announced = {}
  /\ stops = 0
  /\ misreads = 0
  /\ agents = [r \in Rows |-> NoAgent]
  /\ client = [c \in Clients |-> Idle]

(***************************************************************************)
(* The agent process.                                                      *)
(***************************************************************************)

\* LoadX509KeyPair: both files are there and belong together.
Loadable == certFile # None /\ certFile = keyFile

Load ==
  /\ at = "start"
  /\ Loadable
  /\ mine' = certFile
  /\ at' = "ready"
  /\ UNCHANGED <<certFile, keyFile, made, announced, stops, misreads, agents, client>>

\* Seeded fault: files that do not fit end the process with an error.
GenerateOnlyFirst ==
  /\ at = "start"
  /\ certFile = None /\ keyFile = None
  /\ made' = made + 1
  /\ mine' = made + 1
  /\ at' = "made"
  /\ UNCHANGED <<certFile, keyFile, announced, stops, misreads, agents, client>>

\* Whatever keeps the pair from being loaded, a new one is made.
Generate ==
  /\ at = "start"
  /\ ~Loadable
  /\ made' = made + 1
  /\ mine' = made + 1
  /\ at' = "made"
  /\ UNCHANGED <<certFile, keyFile, announced, stops, misreads, agents, client>>

\* The files are good and cannot be read just now: that is no different.
Misread ==
  /\ at = "start"
  /\ Loadable
  /\ misreads < MaxMisreads
  /\ misreads' = misreads + 1
  /\ made' = made + 1
  /\ mine' = made + 1
  /\ at' = "made"
  /\ UNCHANGED <<certFile, keyFile, announced, stops, agents, client>>

\* os.WriteFile empties a file before it writes it.
WriteCert ==
  /\ \/ at = "made" /\ at' = "certCut" /\ certFile' = None
     \/ at = "certCut" /\ at' = "certWritten" /\ certFile' = mine
  /\ UNCHANGED <<keyFile, mine, made, announced, stops, misreads, agents, client>>

WriteKey ==
  /\ \/ at = "certWritten" /\ at' = "keyCut" /\ keyFile' = None
     \/ at = "keyCut" /\ at' = "ready" /\ keyFile' = mine
  /\ UNCHANGED <<certFile, mine, made, announced, stops, misreads, agents, client>>

\* Seeded fault: the fingerprint is logged as soon as there is one.
AnnounceEarly ==
  /\ at \in {"made", "ready"}
  /\ mine \notin announced \/ at = "ready"
  /\ announced' = announced \cup {mine}
  /\ at' = IF at = "ready" THEN "announced" ELSE at
  /\ UNCHANGED <<certFile, keyFile, mine, made, stops, misreads, agents, client>>

\* runAgent logs the fingerprint ...
Announce ==
  /\ at = "ready"
  /\ announced' = announced \cup {mine}
  /\ at' = "announced"
  /\ UNCHANGED <<certFile, keyFile, mine, made, stops, misreads, agents, client>>

\* ... and listens.
Serve ==
  /\ at = "announced"
  /\ at' = "serving"
  /\ UNCHANGED <<certFile, keyFile, mine, made, announced, stops, misreads, agents, client>>

\* The process is killed, or returns an error: a write fails, the port is taken.
Stop ==
  /\ at # "down"
  /\ stops < MaxStops
  /\ stops' = stops + 1
  /\ at' = "down"
  /\ mine' = None
  /\ UNCHANGED <<certFile, keyFile, made, announced, misreads, agents, client>>

Restart ==
  /\ at = "down"
  /\ at' = "start"
  /\ UNCHANGED <<certFile, keyFile, mine, made, announced, stops, misreads, agents, client>>

(***************************************************************************)
(* The admin's rows and the connections made with them.                    *)
(***************************************************************************)

\* What the operator may enter: all fields are required.
Entries == [pin : announced \cup {Wrong}, token : BOOLEAN]

Create(r, entry) ==
  /\ agents[r] = NoAgent
  /\ agents' = [agents EXCEPT ![r] = entry]
  /\ UNCHANGED <<procVars, client>>

Update(r, entry) ==
  /\ agents[r] # NoAgent
  /\ agents' = [agents EXCEPT ![r] = entry]
  /\ UNCHANGED <<procVars, client>>

Delete(r) ==
  /\ agents[r] # NoAgent
  /\ agents' = [agents EXCEPT ![r] = NoAgent]
  /\ UNCHANGED <<procVars, client>>

\* GetRemoteAgent and NewClient
Dial(c, r) ==
  /\ client[c].end # "dialling"
  /\ agents[r] # NoAgent
  /\ client' = [client EXCEPT ![c] = [pin |-> agents[r].pin, token |-> agents[r].token, end |-> "dialling"]]
  /\ UNCHANGED <<procVars, agents>>

\* VerifyPeerCertificate, then RequireToken.
Connect(c) ==
  /\ client[c].end = "dialling"
  /\ at = "serving"
  /\ client' = [client EXCEPT ![c].end =
       IF client[c].pin # mine THEN "mismatch"
       ELSE IF ~client[c].token THEN "unauthorized" ELSE "ok"]
  /\ UNCHANGED <<procVars, agents>>

\* Nobody answers in time.
Unreachable(c) ==
  /\ client[c].end = "dialling"
  /\ client' = [client EXCEPT ![c].end = "unreachable"]
  /\ UNCHANGED <<procVars, agents>>

AgentStep == Restart \/ Load \/ Generate \/ WriteCert \/ WriteKey \/ Announce \/ Serve

AdminStep ==
  \/ \E r \in Rows : \E entry \in Entries : Create(r, entry) \/ Update(r, entry)
  \/ \E r \in Rows : Delete(r)

ClientStep ==
  \E c \in Clients : (\E r \in Rows : Dial(c, r)) \/ Connect(c) \/ Unreachable(c)

Next == AgentStep \/ Misread \/ Stop \/ AdminStep \/ ClientStep

Spec == Init /\ [][Next]_vars

\* Docker restarts the agent, and its start-up takes its steps.
FairSpec == Spec /\ WF_vars(AgentStep)

(***************************************************************************)
(* Properties.                                                             *)
(***************************************************************************)

Starting == {"made", "certCut", "certWritten", "keyCut"}

\* Every variable stays in its type; a process past its start-up holds a pair, and the pins
\* in rows and connections were logged by the agent before they were entered.
TypeOK ==
  /\ made \in Nat
  /\ certFile \in 0 .. made
  /\ keyFile \in 0 .. made
  /\ at \in {"down", "start", "ready", "announced", "serving"} \cup Starting
  /\ mine \in 0 .. made
  /\ at \in {"ready", "announced", "serving"} \cup Starting => mine # None
  /\ announced \subseteq 1 .. made
  /\ stops \in 0 .. MaxStops
  /\ misreads \in 0 .. MaxMisreads
  /\ agents \in [Rows -> [pin : announced \cup {None, Wrong}, token : BOOLEAN]]
  /\ client \in [Clients -> [pin : announced \cup {None, Wrong}, token : BOOLEAN,
                             end : {"idle", "dialling", "ok", "mismatch", "unauthorized", "unreachable"}]]

\* "A fresh one every restart would break every registered database": a fingerprint taken
\* from the agent's log never stops matching, wherever the process died, as long as the
\* files could be read.
PinHolds ==
  \A c \in Clients :
    client[c].end = "mismatch" /\ client[c].pin \in announced => misreads > 0

\* However the process was interrupted, even between the writes of the two files, it comes
\* up again.
ComesUp == at # "serving" ~> at = "serving"

(***************************************************************************)
(* The inductive invariant behind PinHolds.                                *)
(***************************************************************************)

\* Once a fingerprint is out, both files hold its pair and no other pair is made.
AnnouncedIsOnFile ==
  misreads = 0 =>
    /\ \A f \in announced : certFile = f /\ keyFile = f
    /\ announced # {} => at \notin Starting
    /\ at \in {"certWritten", "keyCut"} => certFile = mine
    /\ at \in {"ready", "announced", "serving"} => certFile = mine /\ keyFile = mine
==============================================================================
