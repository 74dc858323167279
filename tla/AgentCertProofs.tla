--------------------------- MODULE AgentCertProofs ---------------------------
(***************************************************************************)
(* Proofs about AgentCert for any rows, clients and bounds.                *)
(*                                                                         *)
(* PinHolds is about a client that read its row long before it connects,   *)
(* so it needs an invariant of the files: once a fingerprint was logged    *)
(* both files hold its pair, the process is past the writes, and from then *)
(* on only Load is taken at start-up (AnnouncedIsOnFile).                  *)
(***************************************************************************)
EXTENDS AgentCert, TLAPS

IndInv == TypeOK /\ AnnouncedIsOnFile /\ PinHolds

\* The program starts in a state of the invariant: no files, no rows, nobody connecting.
LEMMA InitInv == Init => IndInv
  BY AgentCertAssumption
  DEF Init, IndInv, TypeOK, AnnouncedIsOnFile, PinHolds, None, Wrong, Starting, NoAgent, Idle

\* Every step of runAgent keeps types, also as the number of pairs made grows.
LEMMA StepTypes == TypeOK /\ [Next]_vars => TypeOK'
<1> SUFFICES ASSUME TypeOK, [Next]_vars PROVE TypeOK'
  OBVIOUS
<1> USE AgentCertAssumption DEF TypeOK, Starting, None, Wrong
<1>1. CASE Restart \/ Load \/ WriteCert \/ WriteKey \/ Serve \/ Stop
  <2>1. UNCHANGED <<made, announced, misreads, agents, client>>
    BY <1>1 DEF Restart, Load, WriteCert, WriteKey, Serve, Stop
  <2>2. certFile' \in 0 .. made /\ keyFile' \in 0 .. made /\ mine' \in 0 .. made
    BY <1>1 DEF Restart, Load, WriteCert, WriteKey, Serve, Stop
  <2>3. stops' \in 0 .. MaxStops
    BY <1>1 DEF Restart, Load, WriteCert, WriteKey, Serve, Stop
  <2>4. at' \in {"down", "start", "ready", "announced", "serving"} \cup Starting
    BY <1>1 DEF Restart, Load, WriteCert, WriteKey, Serve, Stop
  <2>5. at' \in {"ready", "announced", "serving"} \cup Starting => mine' # 0
    BY <1>1 DEF Restart, Load, WriteCert, WriteKey, Serve, Stop, Loadable
  <2> QED
    BY <2>1, <2>2, <2>3, <2>4, <2>5
<1>2. CASE Generate \/ Misread
  <2>1. UNCHANGED <<certFile, keyFile, announced, stops, agents, client>> /\ at' = "made"
    BY <1>2 DEF Generate, Misread
  <2>2. made' = made + 1 /\ mine' = made + 1 /\ misreads' \in 0 .. MaxMisreads
    BY <1>2 DEF Generate, Misread
  <2> QED
    BY <2>1, <2>2
<1>6. CASE Announce
  <2>1. agents' \in [Rows -> [pin : announced' \cup {0, -1}, token : BOOLEAN]]
    BY <1>6 DEF Announce
  <2>2. client' \in [Clients -> [pin : announced' \cup {0, -1}, token : BOOLEAN,
                      end : {"idle", "dialling", "ok", "mismatch", "unauthorized", "unreachable"}]]
    BY <1>6 DEF Announce
  <2>3. announced' \subseteq 1 .. made
    BY <1>6 DEF Announce
  <2> QED
    BY <1>6, <2>1, <2>2, <2>3 DEF Announce
<1>3. CASE AdminStep
  <2> DEFINE T == [pin : announced \cup {0, -1}, token : BOOLEAN]
  <2>1. NoAgent \in T /\ Entries \subseteq T
    BY DEF NoAgent, Entries
  <2>2. PICK r \in Rows, entry \in T : agents' = [agents EXCEPT ![r] = entry]
    BY <1>3, <2>1 DEF AdminStep, Create, Update, Delete
  <2>3. UNCHANGED <<procVars, client>>
    BY <1>3 DEF AdminStep, Create, Update, Delete
  <2> QED
    BY <2>2, <2>3 DEF procVars
<1>4. CASE ClientStep
  BY <1>4 DEF ClientStep, Dial, Connect, Unreachable, procVars
<1>5. CASE UNCHANGED vars
  BY <1>5 DEF vars, procVars
<1> QED
  BY <1>1, <1>2, <1>3, <1>4, <1>5, <1>6 DEF Next, AgentStep

\* No step of the process takes an announced pair out of the files.
LEMMA StepOnFile == TypeOK /\ AnnouncedIsOnFile /\ [Next]_vars => AnnouncedIsOnFile'
<1> SUFFICES ASSUME TypeOK, AnnouncedIsOnFile, [Next]_vars PROVE AnnouncedIsOnFile'
  OBVIOUS
<1> USE AgentCertAssumption DEF TypeOK, AnnouncedIsOnFile, Starting, None
<1>1. CASE Load
  BY <1>1 DEF Load, Loadable
<1>2. CASE Generate
  <2>1. misreads = 0 => announced = {}
    BY <1>2 DEF Generate, Loadable
  <2> QED
    BY <1>2, <2>1 DEF Generate
<1>3. CASE Misread
  BY <1>3 DEF Misread
<1>4. CASE WriteCert
  BY <1>4 DEF WriteCert
<1>5. CASE WriteKey
  BY <1>5 DEF WriteKey
<1>6. CASE Announce
  BY <1>6 DEF Announce
<1>7. CASE Restart \/ Serve \/ Stop
  BY <1>7 DEF Restart, Serve, Stop
<1>8. CASE AdminStep \/ ClientStep \/ UNCHANGED vars
  BY <1>8 DEF AdminStep, Create, Update, Delete, ClientStep, Dial, Connect, Unreachable,
              vars, procVars
<1> QED
  BY <1>1, <1>2, <1>3, <1>4, <1>5, <1>6, <1>7, <1>8 DEF Next, AgentStep

\* A client that holds a logged fingerprint finds it served.
LEMMA StepPins == IndInv /\ [Next]_vars => PinHolds'
<1> SUFFICES ASSUME IndInv, [Next]_vars PROVE PinHolds'
  OBVIOUS
<1> USE AgentCertAssumption DEF IndInv, TypeOK, PinHolds, None, Wrong
<1>1. CASE Restart \/ Load \/ Generate \/ WriteCert \/ WriteKey \/ Serve \/ Stop
  BY <1>1 DEF Restart, Load, Generate, WriteCert, WriteKey, Serve, Stop
<1>2. CASE Misread
  BY <1>2 DEF Misread
<1>3. CASE Announce
  <2>1. UNCHANGED <<client, misreads>> /\ announced' = announced \cup {mine}
    BY <1>3 DEF Announce
  <2>2. \A c \in Clients : client[c].pin \in announced \cup {0, -1}
    OBVIOUS
  <2>3. mine # 0 /\ mine # -1
    BY <1>3 DEF Announce
  <2> QED
    BY <2>1, <2>2, <2>3
<1>4. CASE AdminStep \/ UNCHANGED vars
  BY <1>4 DEF AdminStep, Create, Update, Delete, vars, procVars
<1>5. CASE ClientStep
  BY <1>5 DEF ClientStep, Dial, Connect, Unreachable, procVars, AnnouncedIsOnFile
<1> QED
  BY <1>1, <1>2, <1>3, <1>4, <1>5 DEF Next, AgentStep

\* The inductive invariant holds in every reachable state.
LEMMA Invariant == Spec => []IndInv
<1>1. IndInv /\ [Next]_vars => IndInv'
  BY StepTypes, StepOnFile, StepPins DEF IndInv
<1> QED
  BY InitInv, <1>1, PTL DEF Spec

\* In every run the variables stay in their types, whatever the bounds.
THEOREM TypeCorrect == Spec => []TypeOK
<1>1. IndInv => TypeOK
  BY DEF IndInv
<1> QED
  BY Invariant, <1>1, PTL

\* A fingerprint copied from the agent's log matches for good, unless good files were
\* misread: loadOrCreateAgentCert logs it only after both files are written.
THEOREM PinsHold == Spec => []PinHolds
<1>1. IndInv => PinHolds
  BY DEF IndInv
<1> QED
  BY Invariant, <1>1, PTL
==============================================================================
