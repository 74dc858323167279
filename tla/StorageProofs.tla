---------------------------- MODULE StorageProofs ----------------------------
(***************************************************************************)
(* Theorems about Storage.                                                 *)
(***************************************************************************)
EXTENDS Storage, TLAPS

(***************************************************************************)
(* Rows and the UPDATE of a config.                                        *)
(***************************************************************************)

\* What a value of a row's type is, by its kind.
LEMMA RowKinds ==
  ASSUME NEW r \in Rows \cup {NoRow}
  PROVE  /\ r.kind \in {"none", "gdrive", "s3"}
         /\ r.kind = "none" <=> r = NoRow
         /\ r.kind = "gdrive" => r \in Rows /\ r.config \in GoogleConfigs
         /\ r.kind = "s3" => r \in Rows /\ r.config \in S3Configs
  BY DEF Rows, NoRow

\* A row with a new config that fits its kind.
LEMMA RowUpdate ==
  ASSUME NEW r \in Rows, NEW c,
         r.kind = "gdrive" => c \in GoogleConfigs,
         r.kind = "s3" => c \in S3Configs
  PROVE  /\ [r EXCEPT !.config = c] \in Rows
         /\ [r EXCEPT !.config = c].kind = r.kind
         /\ [r EXCEPT !.config = c].config = c
  BY DEF Rows, GoogleConfigs, S3Configs

\* An UPDATE whose config fits the row keeps the types, touches no other row, changes no
\* kind and brings no row back.
LEMMA ConfigUpdate ==
  ASSUME targets \in [Ids -> Rows \cup {NoRow}], NEW t, NEW c,
         UpdateStorageTargetConfig(t, c),
         Exists(t) => /\ targets[t].kind = "gdrive" => c \in GoogleConfigs
                      /\ targets[t].kind = "s3" => c \in S3Configs
  PROVE  /\ targets' \in [Ids -> Rows \cup {NoRow}]
         /\ \A s \in Ids : targets'[s].kind = targets[s].kind
         /\ \A s \in Ids : s # t => targets'[s] = targets[s]
         /\ Exists(t) => targets'[t].config = c
         /\ ~Exists(t) => targets' = targets
<1>1. CASE ~Exists(t)
  BY <1>1 DEF UpdateStorageTargetConfig
<1>2. CASE Exists(t)
  <2>1. t \in Ids /\ targets[t] \in Rows
    BY <1>2, RowKinds DEF Exists
  <2>2. targets' = [targets EXCEPT ![t] = [targets[t] EXCEPT !.config = c]]
    BY <1>2, <2>1 DEF UpdateStorageTargetConfig
  <2>3. /\ [targets[t] EXCEPT !.config = c] \in Rows
        /\ [targets[t] EXCEPT !.config = c].kind = targets[t].kind
        /\ [targets[t] EXCEPT !.config = c].config = c
    BY <1>2, <2>1, RowUpdate
  <2> QED
    BY <1>2, <2>1, <2>2, <2>3
<1> QED
  BY <1>1, <1>2

\* A provider is built from a row, or not at all.
LEMMA BuildTypes ==
  ASSUME TypeOK, NEW k \in Tasks, NEW t, Build(k, t)
  PROVE  /\ at' \in [Tasks -> {"new", "opened", "built", "stored", "done", "failed"}]
         /\ target' \in [Tasks -> 0 .. MaxTargets]
         /\ copy' \in [Tasks -> Rows \cup {NoRow}]
<1>1. CASE Exists(t)
  <2>1. t \in 0 .. MaxTargets /\ targets[t] \in Rows \cup {NoRow}
    BY <1>1, StorageAssumption DEF Exists, TypeOK, Ids
  <2> QED
    BY <1>1, <2>1 DEF Build, TypeOK
<1>2. CASE ~Exists(t)
  BY <1>2 DEF Build, TypeOK
<1> QED
  BY <1>1, <1>2

(***************************************************************************)
(* The parts of the invariant, step by step.                               *)
(***************************************************************************)

\* Every step keeps the types.
LEMMA TypeStep ==
  ASSUME TypeOK, KindsKept, StepsOK, [Next]_vars
  PROVE  TypeOK'
<1>1. ASSUME NEW a \in Accounts, NEW email \in BOOLEAN, AddGoogle(a, email)
      PROVE  TypeOK'
  BY <1>1, StorageAssumption DEF AddGoogle, CreateStorageTarget, NextTarget, Login, TypeOK, Rows,
     NoRow, GoogleConfigs, S3Configs, Tasks, Ids, NoEdit, NoPut, NoFile, Nobody, Refs, cloudVars,
     KindsKept, StepsOK, NoEmail
<1>2. ASSUME NEW b \in Buckets, NEW p \in Prefixes, AddS3(b, p)
      PROVE  TypeOK'
  BY <1>2, StorageAssumption DEF AddS3, CreateStorageTarget, NextTarget, TypeOK, Rows, NoRow,
     GoogleConfigs, S3Configs, Tasks, Ids, NoEdit, NoPut, NoFile, Nobody, Refs, cloudVars,
     KindsKept, StepsOK, NoEmail
<1>3. ASSUME NEW e \in Edits, NEW t \in Ids, BeginEdit(e, t)
      PROVE  TypeOK'
  BY <1>3, StorageAssumption DEF BeginEdit, Exists, NoEdit, TypeOK, Rows, NoRow, GoogleConfigs,
     S3Configs, Tasks, Ids, NoEdit, NoPut, NoFile, Nobody, Refs, cloudVars, KindsKept, StepsOK,
     NoEmail
<1>4. ASSUME NEW e \in Edits, NEW a \in Accounts, NEW email \in BOOLEAN, UpdateGoogle(e, a, email)
      PROVE  TypeOK'
  <2>1. Login(a, email) \in GoogleConfigs
    BY DEF Login, GoogleConfigs
  <2>2. Exists(edit[e].id) => targets[edit[e].id].kind = "gdrive"
    BY <1>4 DEF UpdateGoogle, KindsKept, NoEdit
  <2>3. targets' \in [Ids -> Rows \cup {NoRow}]
    BY <1>4, <2>1, <2>2, ConfigUpdate DEF UpdateGoogle, TypeOK
  <2>4. edit' \in [Edits -> {NoEdit} \cup [id : Ids, kind : {"gdrive", "s3"}]]
    BY <1>4 DEF UpdateGoogle, TypeOK
  <2> QED
    BY <1>4, <2>3, <2>4 DEF UpdateGoogle, TypeOK, cloudVars, Refs
<1>5. ASSUME NEW e \in Edits, NEW b \in Buckets, NEW p \in Prefixes, UpdateS3(e, b, p)
      PROVE  TypeOK'
  <2>1. [bucket |-> b, prefix |-> p] \in S3Configs
    BY DEF S3Configs
  <2>2. Exists(edit[e].id) => targets[edit[e].id].kind = "s3"
    BY <1>5 DEF UpdateS3, KindsKept, NoEdit
  <2>3. targets' \in [Ids -> Rows \cup {NoRow}]
    BY <1>5, <2>1, <2>2, ConfigUpdate DEF UpdateS3, TypeOK
  <2>4. edit' \in [Edits -> {NoEdit} \cup [id : Ids, kind : {"gdrive", "s3"}]]
    BY <1>5 DEF UpdateS3, TypeOK
  <2> QED
    BY <1>5, <2>3, <2>4 DEF UpdateS3, TypeOK, cloudVars, Refs
<1>6. ASSUME NEW e \in Edits, EndEdit(e)
      PROVE  TypeOK'
  BY <1>6, StorageAssumption DEF EndEdit, NoEdit, TypeOK, Rows, NoRow, GoogleConfigs, S3Configs,
     Tasks, Ids, NoEdit, NoPut, NoFile, Nobody, Refs, cloudVars, KindsKept, StepsOK, NoEmail
<1>7. ASSUME NEW t \in Ids, Delete(t)
      PROVE  TypeOK'
  BY <1>7, StorageAssumption DEF Delete, Exists, TypeOK, Rows, NoRow, GoogleConfigs, S3Configs,
     Tasks, Ids, NoEdit, NoPut, NoFile, Nobody, Refs, cloudVars, KindsKept, StepsOK, NoEmail
<1>8. ASSUME NEW k \in Tasks, Refresh(k)
      PROVE  TypeOK'
  <2>1. copy[k] \in Rows \cup {NoRow} /\ copy[k].kind = "gdrive"
    BY <1>8 DEF Refresh, TypeOK
  <2>2. copy[k] # NoRow /\ copy[k].config \in GoogleConfigs
    BY <2>1, RowKinds DEF NoRow
  <2>3. Exists(target[k]) => targets[target[k]].kind = "gdrive"
    BY <2>1, <2>2 DEF KindsKept
  <2>4. targets' \in [Ids -> Rows \cup {NoRow}]
    BY <1>8, <2>2, <2>3, ConfigUpdate DEF Refresh, TypeOK
  <2> QED
    BY <1>8, <2>4 DEF Refresh, TypeOK, cloudVars, Refs
<1>9. ASSUME NEW k \in Tasks, Fail(k)
      PROVE  TypeOK'
  BY <1>9, StorageAssumption DEF Fail, TypeOK, Rows, NoRow, GoogleConfigs, S3Configs, Tasks, Ids,
     NoEdit, NoPut, NoFile, Nobody, Refs, cloudVars, KindsKept, StepsOK, NoEmail
<1>10. ASSUME NEW u \in Uploads, NEW t \in 0 .. lastTarget, BeginUpload(u, t)
      PROVE  TypeOK'
  <2>1. /\ at' \in [Tasks -> {"new", "opened", "built", "stored", "done", "failed"}]
        /\ target' \in [Tasks -> 0 .. MaxTargets]
        /\ copy' \in [Tasks -> Rows \cup {NoRow}]
    BY <1>10, BuildTypes DEF BeginUpload, Tasks
  <2> QED
    BY <1>10, <2>1 DEF BeginUpload, Build, TypeOK, cloudVars, Refs
<1>11. ASSUME NEW u \in Uploads, Upload(u)
      PROVE  TypeOK'
  <2>1. u \in Tasks /\ copy[u] \in Rows /\ copy[u] # NoRow
    BY <1>11, RowKinds DEF Upload, TypeOK, StepsOK, Tasks
  <2>2. Place(copy[u]) \in Accounts \cup Buckets
    BY <2>1 DEF Place, Rows, GoogleConfigs, S3Configs
  <2>3. Ref(u) \in Refs
    BY <2>1 DEF Ref, Refs, Rows, S3Configs
  <2> DEFINE where == <<Place(copy[u]), Ref(u)>>
  <2>4. where \in (Accounts \cup Buckets) \X Refs
    BY <2>2, <2>3
  <2>5. /\ cloud' = [x \in DOMAIN cloud \cup {where} |-> IF x = where THEN u ELSE cloud[x]]
        /\ clock' = clock + 1
        /\ puts' = [puts EXCEPT ![u] = [when |-> clock + 1, place |-> Place(copy[u]), ref |-> Ref(u)]]
    BY <1>11 DEF Upload, Put
  <2>6. DOMAIN cloud' \subseteq (Accounts \cup Buckets) \X Refs /\ cloud' \in [DOMAIN cloud' -> Uploads]
    <3> HIDE DEF where
    <3> QED BY <2>4, <2>5 DEF TypeOK
  <2>7. clock' \in Nat
    BY <2>5 DEF TypeOK
  <2>8. puts' \in [Uploads -> {NoPut} \cup [when : 1 .. clock', place : Accounts \cup Buckets, ref : Refs]]
    BY <2>2, <2>3, <2>5 DEF TypeOK, NoPut
  <2>9. at' \in [Tasks -> {"new", "opened", "built", "stored", "done", "failed"}]
    BY <1>11 DEF Upload, TypeOK
  <2>10. Refs' = Refs
    BY DEF Refs, Key
  <2> QED
    BY <1>11, <2>6, <2>7, <2>8, <2>9, <2>10 DEF Upload, TypeOK
<1>12. ASSUME NEW u \in Uploads, RecordFile(u)
      PROVE  TypeOK'
  <2>1. u \in Tasks /\ copy[u] # NoRow /\ puts[u] # NoPut
    BY <1>12 DEF RecordFile, StepsOK, Tasks
  <2>2. target[u] \in Ids
    BY <2>1 DEF KindsKept, Ids, TypeOK
  <2>3. puts[u].ref \in Refs
    BY <2>1 DEF TypeOK
  <2>4. files' \in [Uploads -> {NoFile} \cup [target : Ids, ref : Refs]]
    BY <1>12, <2>2, <2>3 DEF RecordFile, TypeOK
  <2>5. at' \in [Tasks -> {"new", "opened", "built", "stored", "done", "failed"}]
    BY <1>12 DEF RecordFile, TypeOK
  <2> QED
    BY <1>12, <2>4, <2>5 DEF RecordFile, TypeOK, cloudVars, Refs
<1>13. ASSUME NEW d \in Downloads, NEW u \in Uploads, OpenFile(d, u)
      PROVE  TypeOK'
  BY <1>13, StorageAssumption DEF OpenFile, TypeOK, Rows, NoRow, GoogleConfigs, S3Configs, Tasks,
     Ids, NoEdit, NoPut, NoFile, Nobody, Refs, cloudVars, KindsKept, StepsOK, NoEmail
<1>14. ASSUME NEW d \in Downloads, BeginDownload(d)
      PROVE  TypeOK'
  <2>1. /\ at' \in [Tasks -> {"new", "opened", "built", "stored", "done", "failed"}]
        /\ target' \in [Tasks -> 0 .. MaxTargets]
        /\ copy' \in [Tasks -> Rows \cup {NoRow}]
    BY <1>14, BuildTypes DEF BeginDownload, Tasks
  <2> QED
    BY <1>14, <2>1 DEF BeginDownload, Build, TypeOK, cloudVars, Refs
<1>15. ASSUME NEW d \in Downloads, Fetch(d)
      PROVE  TypeOK'
  BY <1>15, StorageAssumption DEF Fetch, Place, TypeOK, Rows, NoRow, GoogleConfigs, S3Configs,
     Tasks, Ids, NoEdit, NoPut, NoFile, Nobody, Refs, cloudVars, KindsKept, StepsOK, NoEmail
<1>16. CASE UNCHANGED vars
  BY <1>16 DEF vars, TypeOK, Refs, Tasks, Ids
<1> QED
  BY <1>1, <1>2, <1>3, <1>4, <1>5, <1>6, <1>7, <1>8, <1>9, <1>10, <1>11, <1>12, <1>13, <1>14,
     <1>15, <1>16 DEF Next, AdminStep, UploadStep, DownloadStep
\* Every step keeps the emails in line with the tokens.
LEMMA EmailStep ==
  ASSUME TypeOK, KindsKept, CopiesFit, EmailFitsToken, [Next]_vars
  PROVE  EmailFitsToken'
<1>1. ASSUME NEW a \in Accounts, NEW email \in BOOLEAN, AddGoogle(a, email)
      PROVE  EmailFitsToken'
  BY <1>1 DEF AddGoogle, CreateStorageTarget, NextTarget, Login, TypeOK, EmailFitsToken, Ids, NoRow
<1>2. ASSUME NEW b \in Buckets, NEW p \in Prefixes, AddS3(b, p)
      PROVE  EmailFitsToken'
  BY <1>2 DEF AddS3, CreateStorageTarget, NextTarget, TypeOK, EmailFitsToken, Ids, NoRow
<1>3. ASSUME NEW e \in Edits, NEW t \in Ids, BeginEdit(e, t)
      PROVE  EmailFitsToken'
  BY <1>3 DEF BeginEdit, cloudVars, EmailFitsToken
<1>4. ASSUME NEW e \in Edits, NEW a \in Accounts, NEW email \in BOOLEAN, UpdateGoogle(e, a, email)
      PROVE  EmailFitsToken'
  <2>1. Exists(edit[e].id) => targets[edit[e].id].kind = "gdrive"
    BY <1>4 DEF UpdateGoogle, KindsKept, NoEdit
  <2>2. Login(a, email) \in GoogleConfigs /\ Login(a, email).email \in {NoEmail, Login(a, email).account}
    BY DEF Login, GoogleConfigs
  <2>3. /\ \A s \in Ids : targets'[s].kind = targets[s].kind
        /\ \A s \in Ids : s # edit[e].id => targets'[s] = targets[s]
        /\ Exists(edit[e].id) => targets'[edit[e].id].config = Login(a, email)
        /\ ~Exists(edit[e].id) => targets' = targets
    BY <1>4, <2>1, <2>2, ConfigUpdate DEF UpdateGoogle, TypeOK
  <2> QED
    BY <2>2, <2>3 DEF EmailFitsToken
<1>5. ASSUME NEW e \in Edits, NEW b \in Buckets, NEW p \in Prefixes, UpdateS3(e, b, p)
      PROVE  EmailFitsToken'
  <2>1. Exists(edit[e].id) => targets[edit[e].id].kind = "s3"
    BY <1>5 DEF UpdateS3, KindsKept, NoEdit
  <2>2. [bucket |-> b, prefix |-> p] \in S3Configs
    BY DEF S3Configs
  <2>3. /\ \A s \in Ids : targets'[s].kind = targets[s].kind
        /\ \A s \in Ids : s # edit[e].id => targets'[s] = targets[s]
        /\ ~Exists(edit[e].id) => targets' = targets
    BY <1>5, <2>1, <2>2, ConfigUpdate DEF UpdateS3, TypeOK
  <2> QED
    BY <2>1, <2>3 DEF EmailFitsToken
<1>6. ASSUME NEW e \in Edits, EndEdit(e)
      PROVE  EmailFitsToken'
  BY <1>6 DEF EndEdit, cloudVars, EmailFitsToken
<1>7. ASSUME NEW t \in Ids, Delete(t)
      PROVE  EmailFitsToken'
  BY <1>7 DEF Delete, Exists, TypeOK, EmailFitsToken, Ids, NoRow
<1>8. ASSUME NEW k \in Tasks, Refresh(k)
      PROVE  EmailFitsToken'
  <2>1. copy[k] \in Rows \cup {NoRow} /\ copy[k].kind = "gdrive"
    BY <1>8 DEF Refresh, TypeOK
  <2>2. copy[k] # NoRow /\ copy[k].config \in GoogleConfigs
    BY <2>1, RowKinds DEF NoRow
  <2>3. Exists(target[k]) => targets[target[k]].kind = "gdrive"
    BY <2>1, <2>2 DEF KindsKept
  <2>4. /\ \A s \in Ids : targets'[s].kind = targets[s].kind
        /\ \A s \in Ids : s # target[k] => targets'[s] = targets[s]
        /\ Exists(target[k]) => targets'[target[k]].config = copy[k].config
        /\ ~Exists(target[k]) => targets' = targets
    BY <1>8, <2>2, <2>3, ConfigUpdate DEF Refresh, TypeOK
  <2> QED
    BY <2>1, <2>4 DEF EmailFitsToken, CopiesFit
<1>9. ASSUME NEW k \in Tasks, Fail(k)
      PROVE  EmailFitsToken'
  BY <1>9 DEF Fail, cloudVars, EmailFitsToken
<1>10. ASSUME NEW u \in Uploads, NEW t \in 0 .. lastTarget, BeginUpload(u, t)
      PROVE  EmailFitsToken'
  BY <1>10 DEF BeginUpload, Build, Exists, cloudVars, EmailFitsToken
<1>11. ASSUME NEW u \in Uploads, Upload(u)
      PROVE  EmailFitsToken'
  BY <1>11 DEF Upload, cloudVars, EmailFitsToken
<1>12. ASSUME NEW u \in Uploads, RecordFile(u)
      PROVE  EmailFitsToken'
  BY <1>12 DEF RecordFile, cloudVars, EmailFitsToken
<1>13. ASSUME NEW d \in Downloads, NEW u \in Uploads, OpenFile(d, u)
      PROVE  EmailFitsToken'
  BY <1>13 DEF OpenFile, cloudVars, EmailFitsToken
<1>14. ASSUME NEW d \in Downloads, BeginDownload(d)
      PROVE  EmailFitsToken'
  BY <1>14 DEF BeginDownload, Build, Exists, cloudVars, EmailFitsToken
<1>15. ASSUME NEW d \in Downloads, Fetch(d)
      PROVE  EmailFitsToken'
  BY <1>15 DEF Fetch, cloudVars, EmailFitsToken
<1>16. CASE UNCHANGED vars
  BY <1>16 DEF vars, EmailFitsToken
<1> QED
  BY <1>1, <1>2, <1>3, <1>4, <1>5, <1>6, <1>7, <1>8, <1>9, <1>10, <1>11, <1>12, <1>13, <1>14,
     <1>15, <1>16 DEF Next, AdminStep, UploadStep, DownloadStep
\* A row added under a new id disturbs nobody who knows an older one.
LEMMA AddKeepsKinds ==
  ASSUME TypeOK, KindsKept, NEW row,
         lastTarget' = lastTarget + 1, lastTarget + 1 \in Ids,
         targets' = [targets EXCEPT ![lastTarget + 1] = row],
         UNCHANGED <<edit, target, copy>>
  PROVE  KindsKept'
<1>1. lastTarget \in Nat
  BY DEF TypeOK
<1>2. \A t \in Ids : t <= lastTarget => targets'[t] = targets[t]
  BY <1>1 DEF TypeOK, Ids
<1>3. \A t \in Ids : t > lastTarget' => targets'[t] = NoRow
  BY <1>1 DEF TypeOK, KindsKept, Ids
<1>4. ASSUME NEW e \in Edits, edit[e] # NoEdit
      PROVE  /\ edit[e].id <= lastTarget'
             /\ Exists(edit[e].id)' => targets'[edit[e].id].kind = edit[e].kind
  BY <1>1, <1>2, <1>4, StorageAssumption DEF TypeOK, KindsKept, Exists, Ids
<1>5. ASSUME NEW k \in Tasks, copy[k] # NoRow
      PROVE  /\ target[k] \in 1 .. lastTarget'
             /\ Exists(target[k])' => targets'[target[k]].kind = copy[k].kind
  BY <1>1, <1>2, <1>5 DEF TypeOK, KindsKept, Exists, Ids
<1> QED
  BY <1>3, <1>4, <1>5 DEF KindsKept, Exists

\* Every step keeps the kind an id stands for.
LEMMA KindsStep ==
  ASSUME TypeOK, KindsKept, [Next]_vars
  PROVE  KindsKept'
<1>1. ASSUME NEW a \in Accounts, NEW email \in BOOLEAN, AddGoogle(a, email)
      PROVE  KindsKept'
  <2>1. /\ lastTarget' = lastTarget + 1 /\ lastTarget + 1 \in Ids
        /\ targets' = [targets EXCEPT ![lastTarget + 1] = [kind |-> "gdrive", config |-> Login(a, email)]]
        /\ UNCHANGED <<edit, target, copy>>
    BY <1>1 DEF AddGoogle, CreateStorageTarget, NextTarget
  <2> QED
    BY <2>1, AddKeepsKinds
<1>2. ASSUME NEW b \in Buckets, NEW p \in Prefixes, AddS3(b, p)
      PROVE  KindsKept'
  <2>1. /\ lastTarget' = lastTarget + 1 /\ lastTarget + 1 \in Ids
        /\ targets' = [targets EXCEPT ![lastTarget + 1] = [kind |-> "s3", config |-> [bucket |-> b, prefix |-> p]]]
        /\ UNCHANGED <<edit, target, copy>>
    BY <1>2 DEF AddS3, CreateStorageTarget, NextTarget
  <2> QED
    BY <2>1, AddKeepsKinds
<1>3. ASSUME NEW e \in Edits, NEW t \in Ids, BeginEdit(e, t)
      PROVE  KindsKept'
  <2>1. t <= lastTarget
    BY <1>3, StorageAssumption DEF BeginEdit, KindsKept, Exists, TypeOK, Ids, NoRow
  <2> QED
    BY <1>3, <2>1 DEF BeginEdit, KindsKept, Exists, TypeOK
<1>4. ASSUME NEW e \in Edits, NEW a \in Accounts, NEW email \in BOOLEAN, UpdateGoogle(e, a, email)
      PROVE  KindsKept'
  <2>1. Exists(edit[e].id) => targets[edit[e].id].kind = "gdrive"
    BY <1>4 DEF UpdateGoogle, KindsKept, NoEdit
  <2>2. Login(a, email) \in GoogleConfigs
    BY DEF Login, GoogleConfigs
  <2>3. /\ \A s \in Ids : targets'[s].kind = targets[s].kind
        /\ targets' \in [Ids -> Rows \cup {NoRow}]
    BY <1>4, <2>1, <2>2, ConfigUpdate DEF UpdateGoogle, TypeOK
  <2>4. \A s \in Ids : targets[s] = NoRow => targets'[s] = NoRow
    BY <2>3, RowKinds DEF NoRow
  <2> QED
    BY <1>4, <2>3, <2>4 DEF UpdateGoogle, KindsKept, Exists, TypeOK
<1>5. ASSUME NEW e \in Edits, NEW b \in Buckets, NEW p \in Prefixes, UpdateS3(e, b, p)
      PROVE  KindsKept'
  <2>1. Exists(edit[e].id) => targets[edit[e].id].kind = "s3"
    BY <1>5 DEF UpdateS3, KindsKept, NoEdit
  <2>2. [bucket |-> b, prefix |-> p] \in S3Configs
    BY DEF S3Configs
  <2>3. /\ \A s \in Ids : targets'[s].kind = targets[s].kind
        /\ targets' \in [Ids -> Rows \cup {NoRow}]
    BY <1>5, <2>1, <2>2, ConfigUpdate DEF UpdateS3, TypeOK
  <2>4. \A s \in Ids : targets[s] = NoRow => targets'[s] = NoRow
    BY <2>3, RowKinds DEF NoRow
  <2> QED
    BY <1>5, <2>3, <2>4 DEF UpdateS3, KindsKept, Exists, TypeOK
<1>6. ASSUME NEW e \in Edits, EndEdit(e)
      PROVE  KindsKept'
  BY <1>6 DEF EndEdit, NoEdit, KindsKept, Exists, TypeOK, NoRow
<1>7. ASSUME NEW t \in Ids, Delete(t)
      PROVE  KindsKept'
  BY <1>7 DEF Delete, Exists, KindsKept, Exists, TypeOK, NoRow
<1>8. ASSUME NEW k \in Tasks, Refresh(k)
      PROVE  KindsKept'
  <2>1. copy[k] \in Rows \cup {NoRow} /\ copy[k].kind = "gdrive"
    BY <1>8 DEF Refresh, TypeOK
  <2>2. copy[k] # NoRow /\ copy[k].config \in GoogleConfigs
    BY <2>1, RowKinds DEF NoRow
  <2>3. Exists(target[k]) => targets[target[k]].kind = "gdrive"
    BY <2>1, <2>2 DEF KindsKept
  <2>4. /\ \A s \in Ids : targets'[s].kind = targets[s].kind
        /\ targets' \in [Ids -> Rows \cup {NoRow}]
    BY <1>8, <2>2, <2>3, ConfigUpdate DEF Refresh, TypeOK
  <2>5. \A s \in Ids : targets[s] = NoRow => targets'[s] = NoRow
    BY <2>4, RowKinds DEF NoRow
  <2> QED
    BY <1>8, <2>4, <2>5 DEF Refresh, KindsKept, Exists
<1>9. ASSUME NEW k \in Tasks, Fail(k)
      PROVE  KindsKept'
  BY <1>9 DEF Fail, cloudVars, KindsKept, Exists, Tasks
<1>10. ASSUME NEW u \in Uploads, NEW t \in 0 .. lastTarget, BeginUpload(u, t)
      PROVE  KindsKept'
  <2>1. ASSUME Exists(t)
        PROVE  t \in 1 .. lastTarget
    BY <2>1, StorageAssumption DEF KindsKept, Exists, TypeOK, Ids, NoRow
  <2> QED
    BY <1>10, <2>1 DEF BeginUpload, Build, KindsKept, Exists, TypeOK, Tasks
<1>11. ASSUME NEW u \in Uploads, Upload(u)
      PROVE  KindsKept'
  BY <1>11 DEF Upload, cloudVars, KindsKept, Exists, Tasks
<1>12. ASSUME NEW u \in Uploads, RecordFile(u)
      PROVE  KindsKept'
  BY <1>12 DEF RecordFile, cloudVars, KindsKept, Exists, Tasks
<1>13. ASSUME NEW d \in Downloads, NEW u \in Uploads, OpenFile(d, u)
      PROVE  KindsKept'
  BY <1>13 DEF OpenFile, cloudVars, KindsKept, Exists, Tasks
<1>14. ASSUME NEW d \in Downloads, BeginDownload(d)
      PROVE  KindsKept'
  <2> DEFINE t == files[opened[d]].target
  <2>1. ASSUME Exists(t)
        PROVE  t \in 1 .. lastTarget
    <3> HIDE DEF t
    <3> QED BY <2>1, StorageAssumption DEF KindsKept, Exists, TypeOK, Ids, NoRow
  <2>2. Build(d, t)
    BY <1>14 DEF BeginDownload
  <2> HIDE DEF t
  <2> QED
    BY <2>1, <2>2 DEF Build, KindsKept, Exists, TypeOK, Tasks
<1>15. ASSUME NEW d \in Downloads, Fetch(d)
      PROVE  KindsKept'
  BY <1>15 DEF Fetch, cloudVars, KindsKept, Exists, Tasks
<1>16. CASE UNCHANGED vars
  BY <1>16 DEF vars, KindsKept, Exists, Tasks
<1> QED
  BY <1>1, <1>2, <1>3, <1>4, <1>5, <1>6, <1>7, <1>8, <1>9, <1>10, <1>11, <1>12, <1>13, <1>14,
     <1>15, <1>16 DEF Next, AdminStep, UploadStep, DownloadStep
\* A new copy is as consistent as its row.
LEMMA CopiesStep ==
  ASSUME TypeOK, EmailFitsToken, CopiesFit, [Next]_vars
  PROVE  CopiesFit'
<1>1. ASSUME NEW a \in Accounts, NEW email \in BOOLEAN, AddGoogle(a, email)
      PROVE  CopiesFit'
  BY <1>1 DEF AddGoogle, cloudVars, CopiesFit
<1>2. ASSUME NEW b \in Buckets, NEW p \in Prefixes, AddS3(b, p)
      PROVE  CopiesFit'
  BY <1>2 DEF AddS3, cloudVars, CopiesFit
<1>3. ASSUME NEW e \in Edits, NEW t \in Ids, BeginEdit(e, t)
      PROVE  CopiesFit'
  BY <1>3 DEF BeginEdit, cloudVars, CopiesFit
<1>4. ASSUME NEW e \in Edits, NEW a \in Accounts, NEW email \in BOOLEAN, UpdateGoogle(e, a, email)
      PROVE  CopiesFit'
  BY <1>4 DEF UpdateGoogle, cloudVars, CopiesFit
<1>5. ASSUME NEW e \in Edits, NEW b \in Buckets, NEW p \in Prefixes, UpdateS3(e, b, p)
      PROVE  CopiesFit'
  BY <1>5 DEF UpdateS3, cloudVars, CopiesFit
<1>6. ASSUME NEW e \in Edits, EndEdit(e)
      PROVE  CopiesFit'
  BY <1>6 DEF EndEdit, cloudVars, CopiesFit
<1>7. ASSUME NEW t \in Ids, Delete(t)
      PROVE  CopiesFit'
  BY <1>7 DEF Delete, cloudVars, CopiesFit
<1>8. ASSUME NEW k \in Tasks, Refresh(k)
      PROVE  CopiesFit'
  BY <1>8 DEF Refresh, cloudVars, CopiesFit
<1>9. ASSUME NEW k \in Tasks, Fail(k)
      PROVE  CopiesFit'
  BY <1>9 DEF Fail, cloudVars, CopiesFit
<1>10. ASSUME NEW u \in Uploads, NEW t \in 0 .. lastTarget, BeginUpload(u, t)
      PROVE  CopiesFit'
  BY <1>10 DEF BeginUpload, Build, CopiesFit, EmailFitsToken, TypeOK, Exists
<1>11. ASSUME NEW u \in Uploads, Upload(u)
      PROVE  CopiesFit'
  BY <1>11 DEF Upload, cloudVars, CopiesFit
<1>12. ASSUME NEW u \in Uploads, RecordFile(u)
      PROVE  CopiesFit'
  BY <1>12 DEF RecordFile, cloudVars, CopiesFit
<1>13. ASSUME NEW d \in Downloads, NEW u \in Uploads, OpenFile(d, u)
      PROVE  CopiesFit'
  BY <1>13 DEF OpenFile, cloudVars, CopiesFit
<1>14. ASSUME NEW d \in Downloads, BeginDownload(d)
      PROVE  CopiesFit'
  BY <1>14 DEF BeginDownload, Build, CopiesFit, EmailFitsToken, TypeOK, Exists
<1>15. ASSUME NEW d \in Downloads, Fetch(d)
      PROVE  CopiesFit'
  BY <1>15 DEF Fetch, cloudVars, CopiesFit
<1>16. CASE UNCHANGED vars
  BY <1>16 DEF vars, CopiesFit
<1> QED
  BY <1>1, <1>2, <1>3, <1>4, <1>5, <1>6, <1>7, <1>8, <1>9, <1>10, <1>11, <1>12, <1>13, <1>14,
     <1>15, <1>16 DEF Next, AdminStep, UploadStep, DownloadStep
\* Every task has what its step needs.
LEMMA StepsStep ==
  ASSUME TypeOK, KindsKept, RefsOK, StepsOK, [Next]_vars
  PROVE  StepsOK'
<1>1. ASSUME NEW a \in Accounts, NEW email \in BOOLEAN, AddGoogle(a, email)
      PROVE  StepsOK'
  BY <1>1 DEF AddGoogle, cloudVars, StepsOK
<1>2. ASSUME NEW b \in Buckets, NEW p \in Prefixes, AddS3(b, p)
      PROVE  StepsOK'
  BY <1>2 DEF AddS3, cloudVars, StepsOK
<1>3. ASSUME NEW e \in Edits, NEW t \in Ids, BeginEdit(e, t)
      PROVE  StepsOK'
  BY <1>3 DEF BeginEdit, cloudVars, StepsOK
<1>4. ASSUME NEW e \in Edits, NEW a \in Accounts, NEW email \in BOOLEAN, UpdateGoogle(e, a, email)
      PROVE  StepsOK'
  BY <1>4 DEF UpdateGoogle, cloudVars, StepsOK
<1>5. ASSUME NEW e \in Edits, NEW b \in Buckets, NEW p \in Prefixes, UpdateS3(e, b, p)
      PROVE  StepsOK'
  BY <1>5 DEF UpdateS3, cloudVars, StepsOK
<1>6. ASSUME NEW e \in Edits, EndEdit(e)
      PROVE  StepsOK'
  BY <1>6 DEF EndEdit, cloudVars, StepsOK
<1>7. ASSUME NEW t \in Ids, Delete(t)
      PROVE  StepsOK'
  BY <1>7 DEF Delete, cloudVars, StepsOK
<1>8. ASSUME NEW k \in Tasks, Refresh(k)
      PROVE  StepsOK'
  BY <1>8 DEF Refresh, cloudVars, StepsOK
<1>9. ASSUME NEW k \in Tasks, Fail(k)
      PROVE  StepsOK'
  <2>1. /\ \A j \in Tasks : j # k => at'[j] = at[j]
        /\ at'[k] = "failed"
        /\ UNCHANGED <<copy, target, puts, files, opened>>
    BY <1>9 DEF Fail, TypeOK, cloudVars
  <2> QED
    BY <2>1 DEF StepsOK, Tasks
<1>10. ASSUME NEW u \in Uploads, NEW t \in 0 .. lastTarget, BeginUpload(u, t)
      PROVE  StepsOK'
  <2>1. u \in Tasks /\ u \notin Downloads
    BY StorageAssumption DEF Tasks
  <2>2. at[u] = "new" /\ files[u] = NoFile /\ puts[u] = NoPut
    BY <1>10 DEF BeginUpload, StepsOK
  <2>3. /\ \A k \in Tasks : k # u => at'[k] = at[k] /\ copy'[k] = copy[k] /\ target'[k] = target[k]
        /\ at'[u] = "failed" \/ (at'[u] = "built" /\ copy'[u] # NoRow)
        /\ UNCHANGED <<puts, files, opened>>
    BY <1>10, <2>1 DEF BeginUpload, Build, Exists, NoRow, TypeOK, cloudVars
  <2>4. \A d \in Downloads : d # u /\ (files[opened[d]] # NoFile => opened[d] # u)
    BY <2>1, <2>2
  <2>5. \A d \in Downloads : d \in Tasks
    BY DEF Tasks
  <2>6. \A v \in Uploads : v \in Tasks
    BY DEF Tasks
  <2> QED
    BY <2>2, <2>3, <2>4, <2>5, <2>6 DEF StepsOK
<1>11. ASSUME NEW u \in Uploads, Upload(u)
      PROVE  StepsOK'
  <2>1. u \in Tasks /\ u \notin Downloads /\ at[u] = "built" /\ puts[u] = NoPut /\ files[u] = NoFile
    BY <1>11, StorageAssumption DEF Upload, StepsOK, Tasks
  <2>2. /\ \A j \in Tasks : j # u => at'[j] = at[j]
        /\ at'[u] \in {"stored", "failed"}
        /\ UNCHANGED <<copy, target, files, opened>>
    BY <1>11, <2>1 DEF Upload, TypeOK
  <2>3. /\ \A v \in Uploads : v # u => puts'[v] = puts[v]
        /\ puts'[u] # NoPut
    BY <1>11 DEF Upload, Put, TypeOK, NoPut
  <2>4. (\A v \in Uploads : v \in Tasks) /\ (\A d \in Downloads : d \in Tasks /\ d # u)
    BY <2>1 DEF Tasks
  <2> QED
    BY <2>1, <2>2, <2>3, <2>4 DEF StepsOK
<1>12. ASSUME NEW u \in Uploads, RecordFile(u)
      PROVE  StepsOK'
  <2>1. u \in Tasks /\ u \notin Downloads /\ at[u] = "stored" /\ puts[u] # NoPut
    BY <1>12, StorageAssumption DEF RecordFile, StepsOK, Tasks
  <2>2. /\ \A j \in Tasks : j # u => at'[j] = at[j]
        /\ at'[u] = "done"
        /\ \A v \in Uploads : v # u => files'[v] = files[v]
        /\ files'[u] = [target |-> target[u], ref |-> puts[u].ref]
        /\ UNCHANGED <<copy, target, puts, opened>>
    BY <1>12, <2>1 DEF RecordFile, TypeOK, cloudVars
  <2>3. files'[u] # NoFile
    BY <2>2 DEF NoFile
  <2>4. files'[u].ref = puts[u].ref /\ files'[u].target = target[u]
    BY <2>2
  <2>5. (\A v \in Uploads : v \in Tasks) /\ (\A d \in Downloads : d \in Tasks /\ d # u)
    BY <2>1 DEF Tasks
  <2> QED
    BY <2>1, <2>2, <2>3, <2>4, <2>5 DEF StepsOK
<1>13. ASSUME NEW d \in Downloads, NEW u \in Uploads, OpenFile(d, u)
      PROVE  StepsOK'
  <2>1. d \in Tasks /\ d \notin Uploads
    BY StorageAssumption DEF Tasks
  <2>2. /\ \A j \in Tasks : j # d => at'[j] = at[j]
        /\ at'[d] = "opened"
        /\ \A c \in Downloads : c # d => opened'[c] = opened[c]
        /\ opened'[d] = u
        /\ files[u] # NoFile
        /\ UNCHANGED <<copy, target, puts, files>>
    BY <1>13, <2>1 DEF OpenFile, TypeOK, cloudVars
  <2>3. (\A v \in Uploads : v \in Tasks /\ v # d) /\ (\A c \in Downloads : c \in Tasks)
    BY <2>1 DEF Tasks
  <2> QED
    BY <2>1, <2>2, <2>3 DEF StepsOK
<1>14. ASSUME NEW d \in Downloads, BeginDownload(d)
      PROVE  StepsOK'
  <2>1. d \in Tasks /\ d \notin Uploads /\ opened[d] \in Uploads /\ files[opened[d]] # NoFile
    BY <1>14, StorageAssumption DEF BeginDownload, StepsOK, Tasks
  <2> DEFINE t == files[opened[d]].target
  <2>2. t = target[opened[d]] /\ copy[opened[d]] # NoRow
    BY <2>1 DEF StepsOK, RefsOK
  <2>3. Build(d, t) /\ UNCHANGED <<opened, got>>
    BY <1>14 DEF BeginDownload
  <2>4. Exists(t) => targets[t].kind = copy[opened[d]].kind
    BY <2>1, <2>2 DEF KindsKept, Tasks
  <2> HIDE DEF t
  <2>5. /\ \A k \in Tasks : k # d => at'[k] = at[k] /\ copy'[k] = copy[k] /\ target'[k] = target[k]
        /\ \/ at'[d] = "failed"
           \/ at'[d] = "built" /\ copy'[d] # NoRow /\ copy'[d].kind = copy[opened[d]].kind
        /\ UNCHANGED <<puts, files, opened>>
    BY <2>1, <2>3, <2>4 DEF Build, Exists, NoRow, TypeOK, cloudVars
  <2>6. (\A v \in Uploads : v \in Tasks /\ v # d) /\ (\A c \in Downloads : c \in Tasks)
    BY <2>1 DEF Tasks
  <2> QED
    BY <2>1, <2>5, <2>6 DEF StepsOK
<1>15. ASSUME NEW d \in Downloads, Fetch(d)
      PROVE  StepsOK'
  <2>1. d \in Tasks /\ d \notin Uploads /\ at[d] = "built"
    BY <1>15, StorageAssumption DEF Fetch, Tasks
  <2>2. /\ \A j \in Tasks : j # d => at'[j] = at[j]
        /\ at'[d] = "done"
        /\ UNCHANGED <<copy, target, puts, files, opened>>
    BY <1>15, <2>1 DEF Fetch, TypeOK, cloudVars
  <2>3. (\A v \in Uploads : v \in Tasks /\ v # d) /\ (\A c \in Downloads : c \in Tasks)
    BY <2>1 DEF Tasks
  <2> QED
    BY <2>1, <2>2, <2>3 DEF StepsOK
<1>16. CASE UNCHANGED vars
  BY <1>16 DEF vars, StepsOK
<1> QED
  BY <1>1, <1>2, <1>3, <1>4, <1>5, <1>6, <1>7, <1>8, <1>9, <1>10, <1>11, <1>12, <1>13, <1>14,
     <1>15, <1>16 DEF Next, AdminStep, UploadStep, DownloadStep
\* References are of their upload's making.
LEMMA RefsStep ==
  ASSUME TypeOK, StepsOK, RefsOK, [Next]_vars
  PROVE  RefsOK'
<1>1. ASSUME NEW a \in Accounts, NEW email \in BOOLEAN, AddGoogle(a, email)
      PROVE  RefsOK'
  BY <1>1 DEF AddGoogle, cloudVars, RefsOK, Key
<1>2. ASSUME NEW b \in Buckets, NEW p \in Prefixes, AddS3(b, p)
      PROVE  RefsOK'
  BY <1>2 DEF AddS3, cloudVars, RefsOK, Key
<1>3. ASSUME NEW e \in Edits, NEW t \in Ids, BeginEdit(e, t)
      PROVE  RefsOK'
  BY <1>3 DEF BeginEdit, cloudVars, RefsOK, Key
<1>4. ASSUME NEW e \in Edits, NEW a \in Accounts, NEW email \in BOOLEAN, UpdateGoogle(e, a, email)
      PROVE  RefsOK'
  BY <1>4 DEF UpdateGoogle, cloudVars, RefsOK, Key
<1>5. ASSUME NEW e \in Edits, NEW b \in Buckets, NEW p \in Prefixes, UpdateS3(e, b, p)
      PROVE  RefsOK'
  BY <1>5 DEF UpdateS3, cloudVars, RefsOK, Key
<1>6. ASSUME NEW e \in Edits, EndEdit(e)
      PROVE  RefsOK'
  BY <1>6 DEF EndEdit, cloudVars, RefsOK, Key
<1>7. ASSUME NEW t \in Ids, Delete(t)
      PROVE  RefsOK'
  BY <1>7 DEF Delete, cloudVars, RefsOK, Key
<1>8. ASSUME NEW k \in Tasks, Refresh(k)
      PROVE  RefsOK'
  BY <1>8 DEF Refresh, cloudVars, RefsOK, Key
<1>9. ASSUME NEW k \in Tasks, Fail(k)
      PROVE  RefsOK'
  BY <1>9 DEF Fail, cloudVars, RefsOK, Key
<1>10. ASSUME NEW u \in Uploads, NEW t \in 0 .. lastTarget, BeginUpload(u, t)
      PROVE  RefsOK'
  <2>1. at[u] = "new" /\ puts[u] = NoPut
    BY <1>10 DEF BeginUpload, StepsOK
  <2>2. (\A v \in Uploads : v # u => copy'[v] = copy[v]) /\ puts' = puts
    BY <1>10 DEF BeginUpload, Build, TypeOK, Tasks, cloudVars
  <2> QED
    BY <2>1, <2>2 DEF RefsOK, Key
<1>11. ASSUME NEW u \in Uploads, Upload(u)
      PROVE  RefsOK'
  <2>1. u \in Tasks /\ copy[u] \in Rows /\ copy[u] # NoRow
    BY <1>11, RowKinds DEF Upload, TypeOK, StepsOK, Tasks
  <2>2. copy[u].kind # "gdrive" => copy[u].config.prefix \in Prefixes
    BY <2>1 DEF Rows, S3Configs
  <2>3. /\ \A v \in Uploads : v # u => puts'[v] = puts[v]
        /\ puts'[u].ref = Ref(u)
        /\ copy' = copy
    BY <1>11 DEF Upload, Put, TypeOK
  <2> QED
    BY <2>1, <2>2, <2>3 DEF RefsOK, Ref, Key
<1>12. ASSUME NEW u \in Uploads, RecordFile(u)
      PROVE  RefsOK'
  BY <1>12 DEF RecordFile, cloudVars, RefsOK, Key
<1>13. ASSUME NEW d \in Downloads, NEW u \in Uploads, OpenFile(d, u)
      PROVE  RefsOK'
  BY <1>13 DEF OpenFile, cloudVars, RefsOK, Key
<1>14. ASSUME NEW d \in Downloads, BeginDownload(d)
      PROVE  RefsOK'
  <2>1. d \notin Uploads
    BY StorageAssumption
  <2>2. (\A v \in Uploads : copy'[v] = copy[v]) /\ puts' = puts
    BY <1>14, <2>1 DEF BeginDownload, Build, TypeOK, Tasks, cloudVars
  <2> QED
    BY <2>2 DEF RefsOK, Key
<1>15. ASSUME NEW d \in Downloads, Fetch(d)
      PROVE  RefsOK'
  BY <1>15 DEF Fetch, cloudVars, RefsOK, Key
<1>16. CASE UNCHANGED vars
  BY <1>16 DEF vars, RefsOK, Key
<1> QED
  BY <1>1, <1>2, <1>3, <1>4, <1>5, <1>6, <1>7, <1>8, <1>9, <1>10, <1>11, <1>12, <1>13, <1>14,
     <1>15, <1>16 DEF Next, AdminStep, UploadStep, DownloadStep
\* Every object holds the last upload to its place.
LEMMA CloudStep ==
  ASSUME TypeOK, StepsOK, CloudOK, [Next]_vars
  PROVE  CloudOK'
<1>1. ASSUME NEW a \in Accounts, NEW email \in BOOLEAN, AddGoogle(a, email)
      PROVE  CloudOK'
  BY <1>1 DEF AddGoogle, cloudVars, CloudOK, Spot
<1>2. ASSUME NEW b \in Buckets, NEW p \in Prefixes, AddS3(b, p)
      PROVE  CloudOK'
  BY <1>2 DEF AddS3, cloudVars, CloudOK, Spot
<1>3. ASSUME NEW e \in Edits, NEW t \in Ids, BeginEdit(e, t)
      PROVE  CloudOK'
  BY <1>3 DEF BeginEdit, cloudVars, CloudOK, Spot
<1>4. ASSUME NEW e \in Edits, NEW a \in Accounts, NEW email \in BOOLEAN, UpdateGoogle(e, a, email)
      PROVE  CloudOK'
  BY <1>4 DEF UpdateGoogle, cloudVars, CloudOK, Spot
<1>5. ASSUME NEW e \in Edits, NEW b \in Buckets, NEW p \in Prefixes, UpdateS3(e, b, p)
      PROVE  CloudOK'
  BY <1>5 DEF UpdateS3, cloudVars, CloudOK, Spot
<1>6. ASSUME NEW e \in Edits, EndEdit(e)
      PROVE  CloudOK'
  BY <1>6 DEF EndEdit, cloudVars, CloudOK, Spot
<1>7. ASSUME NEW t \in Ids, Delete(t)
      PROVE  CloudOK'
  BY <1>7 DEF Delete, cloudVars, CloudOK, Spot
<1>8. ASSUME NEW k \in Tasks, Refresh(k)
      PROVE  CloudOK'
  BY <1>8 DEF Refresh, cloudVars, CloudOK, Spot
<1>9. ASSUME NEW k \in Tasks, Fail(k)
      PROVE  CloudOK'
  BY <1>9 DEF Fail, cloudVars, CloudOK, Spot
<1>10. ASSUME NEW u \in Uploads, NEW t \in 0 .. lastTarget, BeginUpload(u, t)
      PROVE  CloudOK'
  BY <1>10 DEF BeginUpload, Build, Exists, cloudVars, CloudOK, Spot
<1>11. ASSUME NEW u \in Uploads, Upload(u)
      PROVE  CloudOK'
  <2> DEFINE where == <<Place(copy[u]), Ref(u)>>
  <2>1. puts[u] = NoPut /\ clock \in Nat
    BY <1>11 DEF Upload, StepsOK, TypeOK
  <2>2. /\ DOMAIN cloud' = DOMAIN cloud \cup {where}
        /\ \A x \in DOMAIN cloud' : cloud'[x] = IF x = where THEN u ELSE cloud[x]
        /\ \A v \in Uploads : v # u => puts'[v] = puts[v]
        /\ puts'[u] = [when |-> clock + 1, place |-> Place(copy[u]), ref |-> Ref(u)]
    BY <1>11 DEF Upload, Put, TypeOK
  <2> DEFINE Moved(v) == <<puts'[v].place, puts'[v].ref>>
  <2>3. Moved(u) = where /\ puts'[u].when = clock + 1 /\ puts'[u] # NoPut
    BY <2>2 DEF Spot, NoPut
  <2>4. \A v \in Uploads : v # u => Moved(v) = Spot(v)
    BY <2>2 DEF Spot
  <2> HIDE DEF where, Moved
  <2>5. \A v \in Uploads : puts[v] # NoPut => puts[v].when <= clock
    BY <2>1 DEF TypeOK
  <2>6. \A x \in DOMAIN cloud : cloud[x] \in Uploads /\ cloud[x] # u
    BY <2>1 DEF CloudOK, TypeOK
  <2>7. ASSUME NEW x \in DOMAIN cloud'
        PROVE  puts'[cloud'[x]] # NoPut /\ Moved(cloud'[x]) = x
    BY <2>2, <2>3, <2>4, <2>6 DEF CloudOK
  <2>8. ASSUME NEW v \in Uploads, puts'[v] # NoPut
        PROVE  /\ Moved(v) \in DOMAIN cloud'
               /\ cloud'[Moved(v)] = v \/ puts'[cloud'[Moved(v)]].when > puts'[v].when
    <3>1. CASE v = u
      BY <2>2, <2>3, <3>1
    <3>2. CASE v # u
      <4>1. puts[v] # NoPut /\ Moved(v) = Spot(v) /\ puts'[v] = puts[v] /\ Spot(v) \in DOMAIN cloud
        BY <2>2, <2>4, <2>8, <3>2 DEF CloudOK
      <4>2. CASE Spot(v) = where
        BY <2>1, <2>2, <2>3, <2>5, <4>1, <4>2 DEF TypeOK
      <4>3. CASE Spot(v) # where
        BY <2>2, <2>6, <4>1, <4>3 DEF CloudOK
      <4> QED BY <4>2, <4>3
    <3> QED BY <3>1, <3>2
  <2> QED
    BY <2>7, <2>8 DEF CloudOK, Spot, Moved
<1>12. ASSUME NEW u \in Uploads, RecordFile(u)
      PROVE  CloudOK'
  BY <1>12 DEF RecordFile, cloudVars, CloudOK, Spot
<1>13. ASSUME NEW d \in Downloads, NEW u \in Uploads, OpenFile(d, u)
      PROVE  CloudOK'
  BY <1>13 DEF OpenFile, cloudVars, CloudOK, Spot
<1>14. ASSUME NEW d \in Downloads, BeginDownload(d)
      PROVE  CloudOK'
  BY <1>14 DEF BeginDownload, Build, Exists, cloudVars, CloudOK, Spot
<1>15. ASSUME NEW d \in Downloads, Fetch(d)
      PROVE  CloudOK'
  BY <1>15 DEF Fetch, cloudVars, CloudOK, Spot
<1>16. CASE UNCHANGED vars
  BY <1>16 DEF vars, CloudOK, Spot
<1> QED
  BY <1>1, <1>2, <1>3, <1>4, <1>5, <1>6, <1>7, <1>8, <1>9, <1>10, <1>11, <1>12, <1>13, <1>14,
     <1>15, <1>16 DEF Next, AdminStep, UploadStep, DownloadStep
\* What a reference leads to.
LEMMA FetchedIsOwnOrLater ==
  ASSUME TypeOK, StepsOK, RefsOK, CloudOK, NEW d \in Downloads, at[d] = "built",
         NEW where, where = <<Place(copy[d]), files[opened[d]].ref>>, where \in DOMAIN cloud
  PROVE  \/ cloud[where] = opened[d]
         \/ /\ copy[d].kind = "s3"
            /\ Db[cloud[where]] = Db[opened[d]]
            /\ File[cloud[where]] = File[opened[d]]
            /\ Place(copy[d]) = puts[opened[d]].place =>
                 puts[cloud[where]].when > puts[opened[d]].when
<1> DEFINE u == opened[d]
           c == cloud[where]
<1>1. /\ u \in Uploads /\ puts[u] # NoPut /\ files[u].ref = puts[u].ref
      /\ copy[d].kind = copy[u].kind /\ copy[u] # NoRow
  BY DEF StepsOK, RefsOK
<1>2. c \in Uploads /\ puts[c] # NoPut /\ puts[c].ref = puts[u].ref
  BY <1>1 DEF CloudOK, Spot, TypeOK
<1>3. copy[u].kind \in {"gdrive", "s3"}
  BY <1>1, RowKinds DEF TypeOK, Tasks
<1>4. ASSUME NEW x \in Uploads, puts[x] # NoPut
      PROVE  \/ copy[x].kind = "gdrive" /\ puts[x].ref = <<x>>
             \/ \E p \in Prefixes : puts[x].ref = <<p, Db[x], File[x]>>
  BY <1>4 DEF RefsOK, Key
<1>5. ASSUME NEW x, NEW a, NEW b, NEW y
      PROVE  <<x>> # <<a, b, y>>
  OBVIOUS
<1>6. c = u \/ (Db[c] = Db[u] /\ File[c] = File[u])
  <2>1. CASE puts[u].ref = <<u>>
    BY <1>2, <1>4, <1>5, <2>1
  <2>2. CASE \E p \in Prefixes : puts[u].ref = <<p, Db[u], File[u]>>
    <3>1. PICK p \in Prefixes : puts[u].ref = <<p, Db[u], File[u]>>
      BY <2>2
    <3>2. PICK q \in Prefixes : puts[c].ref = <<q, Db[c], File[c]>>
      BY <1>2, <1>4, <1>5, <3>1
    <3> QED BY <1>2, <3>1, <3>2
  <2> QED BY <1>1, <1>4, <2>1, <2>2
<1>7. copy[u].kind = "gdrive" => c = u
  <2>1. SUFFICES ASSUME copy[u].kind = "gdrive" PROVE c = u
    OBVIOUS
  <2>2. puts[u].ref = <<u>>
    BY <1>1, <2>1 DEF RefsOK
  <2> QED BY <1>2, <1>4, <1>5, <2>2
<1>8. Place(copy[d]) = puts[u].place => c = u \/ puts[c].when > puts[u].when
  BY <1>1 DEF CloudOK, Spot
<1> QED
  BY <1>1, <1>3, <1>6, <1>7, <1>8

\* A download that is done has got something that was stored.
GotIsStored ==
  \A d \in Downloads : at[d] = "done" => got[d] \in Uploads /\ puts[got[d]] # NoPut

\* Downloads return what was stored.
LEMMA GotStep ==
  ASSUME TypeOK, CloudOK, GotIsStored, [Next]_vars
  PROVE  GotIsStored'
<1>1. ASSUME NEW a \in Accounts, NEW email \in BOOLEAN, AddGoogle(a, email)
      PROVE  GotIsStored'
  BY <1>1 DEF AddGoogle, cloudVars, GotIsStored
<1>2. ASSUME NEW b \in Buckets, NEW p \in Prefixes, AddS3(b, p)
      PROVE  GotIsStored'
  BY <1>2 DEF AddS3, cloudVars, GotIsStored
<1>3. ASSUME NEW e \in Edits, NEW t \in Ids, BeginEdit(e, t)
      PROVE  GotIsStored'
  BY <1>3 DEF BeginEdit, cloudVars, GotIsStored
<1>4. ASSUME NEW e \in Edits, NEW a \in Accounts, NEW email \in BOOLEAN, UpdateGoogle(e, a, email)
      PROVE  GotIsStored'
  BY <1>4 DEF UpdateGoogle, cloudVars, GotIsStored
<1>5. ASSUME NEW e \in Edits, NEW b \in Buckets, NEW p \in Prefixes, UpdateS3(e, b, p)
      PROVE  GotIsStored'
  BY <1>5 DEF UpdateS3, cloudVars, GotIsStored
<1>6. ASSUME NEW e \in Edits, EndEdit(e)
      PROVE  GotIsStored'
  BY <1>6 DEF EndEdit, cloudVars, GotIsStored
<1>7. ASSUME NEW t \in Ids, Delete(t)
      PROVE  GotIsStored'
  BY <1>7 DEF Delete, cloudVars, GotIsStored
<1>8. ASSUME NEW k \in Tasks, Refresh(k)
      PROVE  GotIsStored'
  BY <1>8 DEF Refresh, cloudVars, GotIsStored
<1>9. ASSUME NEW k \in Tasks, Fail(k)
      PROVE  GotIsStored'
  <2>1. /\ \A d \in Downloads : at'[d] = "done" => at[d] = "done"
        /\ UNCHANGED <<got, opened, copy, puts>>
    BY <1>9 DEF Fail, TypeOK, Tasks, cloudVars
  <2> QED
    BY <2>1 DEF GotIsStored
<1>10. ASSUME NEW u \in Uploads, NEW t \in 0 .. lastTarget, BeginUpload(u, t)
      PROVE  GotIsStored'
  <2>1. \A d \in Downloads : d \in Tasks /\ d # u
    BY StorageAssumption DEF Tasks
  <2>2. /\ \A d \in Downloads : at'[d] = at[d] /\ copy'[d] = copy[d]
        /\ UNCHANGED <<got, opened, puts>>
    BY <1>10, <2>1 DEF BeginUpload, Build, TypeOK, Tasks, cloudVars
  <2> QED
    BY <2>2 DEF GotIsStored
<1>11. ASSUME NEW u \in Uploads, Upload(u)
      PROVE  GotIsStored'
  <2>1. \A d \in Downloads : d \in Tasks /\ d # u
    BY StorageAssumption DEF Tasks
  <2>2. /\ \A d \in Downloads : at'[d] = at[d]
        /\ \A v \in Uploads : v # u => puts'[v] = puts[v]
        /\ puts'[u] # NoPut
        /\ got' = got
    BY <1>11, <2>1 DEF Upload, Put, TypeOK, NoPut
  <2> QED
    BY <2>2 DEF GotIsStored
<1>12. ASSUME NEW u \in Uploads, RecordFile(u)
      PROVE  GotIsStored'
  <2>1. \A d \in Downloads : d \in Tasks /\ d # u
    BY StorageAssumption DEF Tasks
  <2>2. /\ \A d \in Downloads : at'[d] = at[d]
        /\ UNCHANGED <<got, opened, copy, puts>>
    BY <1>12, <2>1 DEF RecordFile, TypeOK, cloudVars
  <2> QED
    BY <2>2 DEF GotIsStored
<1>13. ASSUME NEW d \in Downloads, NEW u \in Uploads, OpenFile(d, u)
      PROVE  GotIsStored'
  <2>1. /\ at'[d] = "opened"
        /\ \A c \in Downloads : c # d => at'[c] = at[c] /\ opened'[c] = opened[c]
        /\ UNCHANGED <<got, copy, puts>>
    BY <1>13 DEF OpenFile, TypeOK, Tasks, cloudVars
  <2> QED
    BY <2>1 DEF GotIsStored
<1>14. ASSUME NEW d \in Downloads, BeginDownload(d)
      PROVE  GotIsStored'
  <2>1. /\ at'[d] \in {"built", "failed"}
        /\ \A c \in Downloads : c # d => at'[c] = at[c] /\ copy'[c] = copy[c]
        /\ UNCHANGED <<got, opened, puts>>
    BY <1>14 DEF BeginDownload, Build, TypeOK, Tasks, cloudVars
  <2> QED
    BY <2>1 DEF GotIsStored
<1>15. ASSUME NEW d \in Downloads, Fetch(d)
      PROVE  GotIsStored'
  <2> DEFINE where == <<Place(copy[d]), files[opened[d]].ref>>
  <2>1. /\ where \in DOMAIN cloud
        /\ got'[d] = cloud[where]
        /\ \A c \in Downloads : c # d => at'[c] = at[c] /\ got'[c] = got[c]
        /\ puts' = puts
    BY <1>15 DEF Fetch, TypeOK, Tasks, cloudVars
  <2>2. cloud[where] \in Uploads /\ puts[cloud[where]] # NoPut
    BY <2>1 DEF TypeOK, CloudOK
  <2> HIDE DEF where
  <2> QED
    BY <2>1, <2>2 DEF GotIsStored
<1>16. CASE UNCHANGED vars
  BY <1>16 DEF vars, GotIsStored
<1> QED
  BY <1>1, <1>2, <1>3, <1>4, <1>5, <1>6, <1>7, <1>8, <1>9, <1>10, <1>11, <1>12, <1>13, <1>14,
     <1>15, <1>16 DEF Next, AdminStep, UploadStep, DownloadStep

\* Both properties of a download in one, as a fetch establishes them.
DownloadsOK ==
  \A d \in Downloads :
    at[d] = "done" =>
      \/ got[d] = opened[d]
      \/ /\ copy[d].kind = "s3"
         /\ Db[got[d]] = Db[opened[d]]
         /\ File[got[d]] = File[opened[d]]
         /\ Place(copy[d]) = puts[opened[d]].place => puts[got[d]].when > puts[opened[d]].when

\* Every step keeps the promise to those who download.
LEMMA DownloadsStep ==
  ASSUME TypeOK, StepsOK, RefsOK, CloudOK, GotIsStored, DownloadsOK, [Next]_vars
  PROVE  DownloadsOK'
<1>1. ASSUME NEW a \in Accounts, NEW email \in BOOLEAN, AddGoogle(a, email)
      PROVE  DownloadsOK'
  BY <1>1 DEF AddGoogle, cloudVars, DownloadsOK, Place
<1>2. ASSUME NEW b \in Buckets, NEW p \in Prefixes, AddS3(b, p)
      PROVE  DownloadsOK'
  BY <1>2 DEF AddS3, cloudVars, DownloadsOK, Place
<1>3. ASSUME NEW e \in Edits, NEW t \in Ids, BeginEdit(e, t)
      PROVE  DownloadsOK'
  BY <1>3 DEF BeginEdit, cloudVars, DownloadsOK, Place
<1>4. ASSUME NEW e \in Edits, NEW a \in Accounts, NEW email \in BOOLEAN, UpdateGoogle(e, a, email)
      PROVE  DownloadsOK'
  BY <1>4 DEF UpdateGoogle, cloudVars, DownloadsOK, Place
<1>5. ASSUME NEW e \in Edits, NEW b \in Buckets, NEW p \in Prefixes, UpdateS3(e, b, p)
      PROVE  DownloadsOK'
  BY <1>5 DEF UpdateS3, cloudVars, DownloadsOK, Place
<1>6. ASSUME NEW e \in Edits, EndEdit(e)
      PROVE  DownloadsOK'
  BY <1>6 DEF EndEdit, cloudVars, DownloadsOK, Place
<1>7. ASSUME NEW t \in Ids, Delete(t)
      PROVE  DownloadsOK'
  BY <1>7 DEF Delete, cloudVars, DownloadsOK, Place
<1>8. ASSUME NEW k \in Tasks, Refresh(k)
      PROVE  DownloadsOK'
  BY <1>8 DEF Refresh, cloudVars, DownloadsOK, Place
<1>9. ASSUME NEW k \in Tasks, Fail(k)
      PROVE  DownloadsOK'
  <2>1. /\ \A d \in Downloads : at'[d] = "done" => at[d] = "done"
        /\ UNCHANGED <<got, opened, copy, puts>>
    BY <1>9 DEF Fail, TypeOK, Tasks, cloudVars
  <2> QED
    BY <2>1 DEF DownloadsOK, Place
<1>10. ASSUME NEW u \in Uploads, NEW t \in 0 .. lastTarget, BeginUpload(u, t)
      PROVE  DownloadsOK'
  <2>1. \A d \in Downloads : d \in Tasks /\ d # u
    BY StorageAssumption DEF Tasks
  <2>2. /\ \A d \in Downloads : at'[d] = at[d] /\ copy'[d] = copy[d]
        /\ UNCHANGED <<got, opened, puts>>
    BY <1>10, <2>1 DEF BeginUpload, Build, TypeOK, Tasks, cloudVars
  <2> QED
    BY <2>2 DEF DownloadsOK, Place
<1>11. ASSUME NEW u \in Uploads, Upload(u)
      PROVE  DownloadsOK'
  <2>1. \A d \in Downloads : d \in Tasks /\ d # u
    BY StorageAssumption DEF Tasks
  <2>2. /\ \A d \in Downloads : at'[d] = at[d]
        /\ \A v \in Uploads : v # u => puts'[v] = puts[v]
        /\ UNCHANGED <<got, opened, copy>>
    BY <1>11, <2>1 DEF Upload, Put, TypeOK
  <2>3. puts[u] = NoPut
    BY <1>11 DEF Upload, StepsOK
  <2>4. \A d \in Downloads :
          at[d] = "done" => /\ opened[d] \in Uploads /\ puts[opened[d]] # NoPut
                            /\ got[d] \in Uploads /\ puts[got[d]] # NoPut
    BY DEF StepsOK, GotIsStored
  <2> QED
    BY <2>2, <2>3, <2>4 DEF DownloadsOK, Place
<1>12. ASSUME NEW u \in Uploads, RecordFile(u)
      PROVE  DownloadsOK'
  <2>1. \A d \in Downloads : d \in Tasks /\ d # u
    BY StorageAssumption DEF Tasks
  <2>2. /\ \A d \in Downloads : at'[d] = at[d]
        /\ UNCHANGED <<got, opened, copy, puts>>
    BY <1>12, <2>1 DEF RecordFile, TypeOK, cloudVars
  <2> QED
    BY <2>2 DEF DownloadsOK, Place
<1>13. ASSUME NEW d \in Downloads, NEW u \in Uploads, OpenFile(d, u)
      PROVE  DownloadsOK'
  <2>1. /\ at'[d] = "opened"
        /\ \A c \in Downloads : c # d => at'[c] = at[c] /\ opened'[c] = opened[c]
        /\ UNCHANGED <<got, copy, puts>>
    BY <1>13 DEF OpenFile, TypeOK, Tasks, cloudVars
  <2> QED
    BY <2>1 DEF DownloadsOK, Place
<1>14. ASSUME NEW d \in Downloads, BeginDownload(d)
      PROVE  DownloadsOK'
  <2>1. /\ at'[d] \in {"built", "failed"}
        /\ \A c \in Downloads : c # d => at'[c] = at[c] /\ copy'[c] = copy[c]
        /\ UNCHANGED <<got, opened, puts>>
    BY <1>14 DEF BeginDownload, Build, TypeOK, Tasks, cloudVars
  <2> QED
    BY <2>1 DEF DownloadsOK, Place
<1>15. ASSUME NEW d \in Downloads, Fetch(d)
      PROVE  DownloadsOK'
  <2> DEFINE where == <<Place(copy[d]), files[opened[d]].ref>>
  <2>1. /\ at[d] = "built" /\ where \in DOMAIN cloud
        /\ got'[d] = cloud[where]
        /\ \A c \in Downloads : c # d => at'[c] = at[c] /\ got'[c] = got[c]
        /\ UNCHANGED <<opened, copy, puts>>
    BY <1>15 DEF Fetch, TypeOK, Tasks, cloudVars
  <2>2. \/ cloud[where] = opened[d]
        \/ /\ copy[d].kind = "s3"
           /\ Db[cloud[where]] = Db[opened[d]]
           /\ File[cloud[where]] = File[opened[d]]
           /\ Place(copy[d]) = puts[opened[d]].place => puts[cloud[where]].when > puts[opened[d]].when
    BY <2>1, FetchedIsOwnOrLater
  <2> HIDE DEF where
  <2> QED
    BY <2>1, <2>2 DEF DownloadsOK, Place
<1>16. CASE UNCHANGED vars
  BY <1>16 DEF vars, DownloadsOK, Place
<1> QED
  BY <1>1, <1>2, <1>3, <1>4, <1>5, <1>6, <1>7, <1>8, <1>9, <1>10, <1>11, <1>12, <1>13, <1>14,
     <1>15, <1>16 DEF Next, AdminStep, UploadStep, DownloadStep
(***************************************************************************)
(* The theorems.                                                           *)
(***************************************************************************)

IndInv ==
  /\ TypeOK /\ EmailFitsToken /\ KindsKept /\ CopiesFit /\ StepsOK /\ RefsOK /\ CloudOK
  /\ GotIsStored /\ DownloadsOK

\* Nothing stored, nothing configured: the invariant holds.
LEMMA InitInv == Init => IndInv
<1> SUFFICES ASSUME Init PROVE IndInv
  OBVIOUS
<1>1. TypeOK
  BY StorageAssumption DEF Init, TypeOK, Nobody, NoPut, NoFile, NoEdit
<1>2. EmailFitsToken /\ CopiesFit
  BY DEF Init, EmailFitsToken, CopiesFit, NoRow
<1>3. KindsKept
  BY DEF Init, KindsKept
<1>4. StepsOK /\ RefsOK
  BY DEF Init, StepsOK, RefsOK, Tasks
<1>5. CloudOK
  BY DEF Init, CloudOK
<1>6. GotIsStored /\ DownloadsOK
  BY DEF Init, GotIsStored, DownloadsOK, Tasks
<1> QED
  BY <1>1, <1>2, <1>3, <1>4, <1>5, <1>6 DEF IndInv

\* Every step keeps the invariant.
LEMMA StepInv == IndInv /\ [Next]_vars => IndInv'
  BY TypeStep, EmailStep, KindsStep, CopiesStep, StepsStep, RefsStep, CloudStep, GotStep,
     DownloadsStep DEF IndInv

\* The inductive invariant holds in every reachable state.
LEMMA Invariant == Spec => []IndInv
  BY InitInv, StepInv, PTL DEF Spec

\* Storage rows, copies and references keep their types, and a row's config fits its kind
\* whoever writes it, for any number of targets, edits, uploads and downloads.
THEOREM TypeCorrect == Spec => []TypeOK
<1>1. IndInv => TypeOK
  BY DEF IndInv
<1> QED BY <1>1, Invariant, PTL

\* The email shown for a Google target is never that of another account than its token's,
\* in whatever order logins, backups and downloads save theirs.
THEOREM EmailsFit == Spec => []EmailFitsToken
<1>1. IndInv => EmailFitsToken
  BY DEF IndInv
<1> QED BY <1>1, Invariant, PTL

\* A download from the bucket its backup was stored in returns that backup, or from S3 one
\* stored later under the same key.
THEOREM DownloadsAreOwnOrLater == Spec => []DownloadIsOwnOrLater
<1>1. IndInv => DownloadIsOwnOrLater
  BY DEF IndInv, DownloadsOK, DownloadIsOwnOrLater, ReadsWhereStored, SameName
<1> QED BY <1>1, Invariant, PTL

\* Wherever a destination's settings have been moved to, a download returns a backup of the
\* name and minute that was asked for, and from Google Drive that very backup.
THEOREM DownloadsAreOfThatName == Spec => []DownloadIsOfThatName
<1>1. IndInv => DownloadIsOfThatName
  BY DEF IndInv, DownloadsOK, DownloadIsOfThatName, SameName
<1> QED BY <1>1, Invariant, PTL
==============================================================================
