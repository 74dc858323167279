----------------------------- MODULE MCPipeline -----------------------------
(* Instances of Pipeline for TLC: the jobs are model values. *)
EXTENDS Pipeline

\* The one request of the same kind (local, remote or ad-hoc) that a copy repeats.
OriginalOf ==
  [j \in Jobs |->
     IF j \in Requests THEN j
     ELSE CHOOSE r \in Requests : /\ r \in RemoteJobs <=> j \in RemoteJobs
                                  /\ r \in AdHocJobs <=> j \in AdHocJobs]
==============================================================================
