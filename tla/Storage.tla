------------------------------- MODULE Storage -------------------------------
(***************************************************************************)
(* Storage destinations and what is stored there.  A row of                *)
(* storage_targets holds a Google login or an S3 bucket; every upload and  *)
(* every download builds a provider from its own copy of the row, and a    *)
(* Google provider writes a refreshed token back over the row.  The admin  *)
(* adds, edits and deletes rows meanwhile.  backup_files remembers, for    *)
(* each upload, the target's id and the reference it returned.             *)
(*                                                                         *)
(* Of a token only its account matters here; labels, keys and endpoints    *)
(* are left out.  Google Drive and S3 are external: Drive gives every new  *)
(* file an id of its own, S3 keeps one object per key.                     *)
(***************************************************************************)
EXTENDS Integers

CONSTANTS
  Uploads,       \* backups to be stored: by the consumer, an agent, the upload command
  AgentUploads,  \* those an agent stores, with the row it was sent
  Downloads,     \* requests for a file of the file list
  Edits,         \* submissions of a target's edit form
  Accounts,      \* Google accounts
  Buckets,       \* S3 buckets (endpoint and name)
  Prefixes,      \* S3 prefixes, trimmed of slashes
  Db,            \* upload -> dbname
  File,          \* upload -> date and filename, which has the minute in it
  MaxTargets     \* bounds the rows ever added to storage_targets

NoEmail == "unknown"    \* FetchEmail failed

ASSUME StorageAssumption ==
  /\ AgentUploads \subseteq Uploads
  /\ Uploads \cap Downloads = {}
  /\ NoEmail \notin Accounts
  /\ MaxTargets \in Nat

Tasks == Uploads \cup Downloads
Ids == 1 .. MaxTargets

GoogleConfigs == [account : Accounts, email : Accounts \cup {NoEmail}]
S3Configs == [bucket : Buckets, prefix : Prefixes]
Rows == [kind : {"gdrive"}, config : GoogleConfigs] \cup [kind : {"s3"}, config : S3Configs]
NoRow == [kind |-> "none"]

VARIABLES
  targets,    \* id -> row of storage_targets, or NoRow
  lastTarget, \* its sqlite_sequence
  edit,       \* edit -> the row it is about and that row's kind; id 0 before and after
  at,         \* where a task is
  target,     \* task -> the id of the target in hand
  copy,       \* task -> the row its provider was built from
  cloud,      \* <<account or bucket, reference>> -> the upload whose content is there
  puts,       \* history: upload -> when and where it was stored; when is 0 before
  clock,      \* history: the number of uploads stored
  files,      \* upload -> its row of backup_files; target 0 if there is none
  opened,     \* download -> the upload whose file is asked for
  got         \* download -> the upload whose content it returned

cloudVars == <<cloud, puts, clock>>
vars == <<targets, lastTarget, edit, at, target, copy, cloud, puts, clock, files, opened, got>>

NoEdit == [id |-> 0, kind |-> "none"]
NoPut == [when |-> 0]
NoFile == [target |-> 0]
Nobody == "nobody"

Init ==
  /\ targets = [t \in Ids |-> NoRow]
  /\ lastTarget = 0
  /\ edit = [e \in Edits |-> NoEdit]
  /\ at = [k \in Tasks |-> "new"]
  /\ target = [k \in Tasks |-> 0]
  /\ copy = [k \in Tasks |-> NoRow]
  /\ cloud = <<>>
  /\ puts = [u \in Uploads |-> NoPut]
  /\ clock = 0
  /\ files = [u \in Uploads |-> NoFile]
  /\ opened = [d \in Downloads |-> Nobody]
  /\ got = [d \in Downloads |-> Nobody]

Exists(t) == t \in Ids /\ targets[t].kind # "none"

(***************************************************************************)
(* The statements on storage_targets.                                      *)
(***************************************************************************)

\* Seeded fault: no AUTOINCREMENT, the id of a deleted row is given out again.
NextTargetReused ==
  CHOOSE t \in 1 .. MaxTargets + 1 :
    ~Exists(t) /\ \A s \in 1 .. MaxTargets + 1 : ~Exists(s) => t <= s

NextTarget == lastTarget + 1

CreateStorageTarget(row) ==
  /\ NextTarget \in Ids
  /\ targets' = [targets EXCEPT ![NextTarget] = row]
  /\ lastTarget' = NextTarget

\* An UPDATE of a row that is gone changes nothing.
UpdateStorageTargetConfig(t, config) ==
  targets' = IF Exists(t) THEN [targets EXCEPT ![t].config = config] ELSE targets

(***************************************************************************)
(* The admin's handlers.                                                   *)
(***************************************************************************)

\* Exchange has given a token of account a; FetchEmail is best effort.
Login(a, email) == [account |-> a, email |-> IF email THEN a ELSE NoEmail]

AddGoogle(a, email) ==
  /\ CreateStorageTarget([kind |-> "gdrive", config |-> Login(a, email)])
  /\ UNCHANGED <<edit, at, target, copy, cloudVars, files, opened, got>>

AddS3(b, p) ==
  /\ CreateStorageTarget([kind |-> "s3", config |-> [bucket |-> b, prefix |-> p]])
  /\ UNCHANGED <<edit, at, target, copy, cloudVars, files, opened, got>>

\* The edit handlers look the row up and check its kind before they go on.
BeginEdit(e, t) ==
  /\ edit[e] = NoEdit
  /\ Exists(t)
  /\ edit' = [edit EXCEPT ![e] = [id |-> t, kind |-> targets[t].kind]]
  /\ UNCHANGED <<targets, lastTarget, at, target, copy, cloudVars, files, opened, got>>

\* A verification code was submitted: a new login replaces the old one.
UpdateGoogle(e, a, email) ==
  /\ edit[e].kind = "gdrive"
  /\ UpdateStorageTargetConfig(edit[e].id, Login(a, email))
  /\ edit' = [edit EXCEPT ![e] = NoEdit]
  /\ UNCHANGED <<lastTarget, at, target, copy, cloudVars, files, opened, got>>

UpdateS3(e, b, p) ==
  /\ edit[e].kind = "s3"
  /\ UpdateStorageTargetConfig(edit[e].id, [bucket |-> b, prefix |-> p])
  /\ edit' = [edit EXCEPT ![e] = NoEdit]
  /\ UNCHANGED <<lastTarget, at, target, copy, cloudVars, files, opened, got>>

\* Only renamed, or the form is refused, or a step fails.
EndEdit(e) ==
  /\ edit[e] # NoEdit
  /\ edit' = [edit EXCEPT ![e] = NoEdit]
  /\ UNCHANGED <<targets, lastTarget, at, target, copy, cloudVars, files, opened, got>>

\* backup_files and the databases keep the id.
Delete(t) ==
  /\ Exists(t)
  /\ targets' = [targets EXCEPT ![t] = NoRow]
  /\ UNCHANGED <<lastTarget, edit, at, target, copy, cloudVars, files, opened, got>>

(***************************************************************************)
(* Providers: each from its own copy of the row.                           *)
(***************************************************************************)

\* GetStorageTarget and Build; id 0 and a missing row are errors.
Build(k, t) ==
  /\ IF Exists(t)
     THEN /\ at' = [at EXCEPT ![k] = "built"]
          /\ target' = [target EXCEPT ![k] = t]
          /\ copy' = [copy EXCEPT ![k] = targets[t]]
     ELSE /\ at' = [at EXCEPT ![k] = "failed"]
          /\ UNCHANGED <<target, copy>>
  /\ UNCHANGED <<targets, lastTarget, edit, cloudVars, files>>

\* Seeded fault: the token is saved with the email the row shows now.
RefreshOnlyToken(k) ==
  /\ at[k] = "built"
  /\ copy[k].kind = "gdrive"
  /\ k \notin AgentUploads
  /\ targets' = IF Exists(target[k])
                THEN [targets EXCEPT ![target[k]].config.account = copy[k].config.account]
                ELSE targets
  /\ UNCHANGED <<lastTarget, edit, at, target, copy, cloudVars, files, opened, got>>

\* savingTokenSource: the access token has expired, a new one of the same account is saved,
\* with the email of the copy.  An agent refreshes too, and saves nothing.
Refresh(k) ==
  /\ at[k] = "built"
  /\ copy[k].kind = "gdrive"
  /\ k \notin AgentUploads
  /\ UpdateStorageTargetConfig(target[k], copy[k].config)
  /\ UNCHANGED <<lastTarget, edit, at, target, copy, cloudVars, files, opened, got>>

\* Anything that goes wrong from here on ends the task; so does a crash.
Fail(k) ==
  /\ at[k] \in {"built", "stored"}
  /\ at' = [at EXCEPT ![k] = "failed"]
  /\ UNCHANGED <<targets, lastTarget, edit, target, copy, cloudVars, files, opened, got>>

(***************************************************************************)
(* Uploads.                                                                *)
(***************************************************************************)

BeginUpload(u, t) ==
  /\ at[u] = "new"
  /\ Build(u, t)
  /\ UNCHANGED <<opened, got>>

Place(row) == IF row.kind = "gdrive" THEN row.config.account ELSE row.config.bucket

Key(p, u) == <<p, Db[u], File[u]>>

\* The reference a provider returns: Drive's new file id, or the object's key.
Ref(u) == IF copy[u].kind = "gdrive" THEN <<u>> ELSE Key(copy[u].config.prefix, u)

Put(u) ==
  LET where == <<Place(copy[u]), Ref(u)>> IN
  /\ cloud' = [x \in DOMAIN cloud \cup {where} |-> IF x = where THEN u ELSE cloud[x]]
  /\ clock' = clock + 1
  /\ puts' = [puts EXCEPT ![u] = [when |-> clock + 1, place |-> where[1], ref |-> where[2]]]

\* The file is stored, and the provider returns its reference or an error.
Upload(u) ==
  /\ at[u] = "built"
  /\ Put(u)
  /\ at' \in {[at EXCEPT ![u] = "stored"], [at EXCEPT ![u] = "failed"]}
  /\ UNCHANGED <<targets, lastTarget, edit, target, copy, files, opened, got>>

\* CreateBackupFile
RecordFile(u) ==
  /\ at[u] = "stored"
  /\ files' = [files EXCEPT ![u] = [target |-> target[u], ref |-> puts[u].ref]]
  /\ at' = [at EXCEPT ![u] = "done"]
  /\ UNCHANGED <<targets, lastTarget, edit, target, copy, cloudVars, opened, got>>

(***************************************************************************)
(* Downloads.                                                              *)
(***************************************************************************)

\* GetBackupFile
OpenFile(d, u) ==
  /\ at[d] = "new"
  /\ files[u] # NoFile
  /\ opened' = [opened EXCEPT ![d] = u]
  /\ at' = [at EXCEPT ![d] = "opened"]
  /\ UNCHANGED <<targets, lastTarget, edit, target, copy, cloudVars, files, got>>

BeginDownload(d) ==
  /\ at[d] = "opened"
  /\ Build(d, files[opened[d]].target)
  /\ UNCHANGED <<opened, got>>

\* Seeded fault: some file of the destination is read, not the one the reference names.
FetchAny(d) ==
  /\ at[d] = "built"
  /\ \E x \in DOMAIN cloud :
       /\ x[1] = Place(copy[d])
       /\ got' = [got EXCEPT ![d] = cloud[x]]
  /\ at' = [at EXCEPT ![d] = "done"]
  /\ UNCHANGED <<targets, lastTarget, edit, target, copy, cloudVars, files, opened>>

\* The browser reads the file, through the server or from the presigned address.
Fetch(d) ==
  LET where == <<Place(copy[d]), files[opened[d]].ref>> IN
  /\ at[d] = "built"
  /\ where \in DOMAIN cloud
  /\ got' = [got EXCEPT ![d] = cloud[where]]
  /\ at' = [at EXCEPT ![d] = "done"]
  /\ UNCHANGED <<targets, lastTarget, edit, target, copy, cloudVars, files, opened>>

AdminStep ==
  \/ \E a \in Accounts, email \in BOOLEAN : AddGoogle(a, email)
  \/ \E b \in Buckets, p \in Prefixes : AddS3(b, p)
  \/ \E e \in Edits, t \in Ids : BeginEdit(e, t)
  \/ \E e \in Edits, a \in Accounts, email \in BOOLEAN : UpdateGoogle(e, a, email)
  \/ \E e \in Edits, b \in Buckets, p \in Prefixes : UpdateS3(e, b, p)
  \/ \E e \in Edits : EndEdit(e)
  \/ \E t \in Ids : Delete(t)

UploadStep(u) ==
  \/ \E t \in 0 .. lastTarget : BeginUpload(u, t)
  \/ Upload(u)
  \/ RecordFile(u)

DownloadStep(d) ==
  \/ \E u \in Uploads : OpenFile(d, u)
  \/ BeginDownload(d)
  \/ Fetch(d)

Next ==
  \/ AdminStep
  \/ \E k \in Tasks : Refresh(k) \/ Fail(k)
  \/ \E u \in Uploads : UploadStep(u)
  \/ \E d \in Downloads : DownloadStep(d)

Spec == Init /\ [][Next]_vars

(***************************************************************************)
(* Properties.                                                             *)
(***************************************************************************)

Refs == {<<u>> : u \in Uploads} \cup {Key(p, u) : p \in Prefixes, u \in Uploads}

\* Every variable stays in its type.  A row's config always fits its kind, although an
\* UPDATE names only the id: whoever looked the row up before it was deleted, and writes a
\* Google token later, does not hit an S3 row that came after it.
TypeOK ==
  /\ targets \in [Ids -> Rows \cup {NoRow}]
  /\ lastTarget \in 0 .. MaxTargets
  /\ edit \in [Edits -> {NoEdit} \cup [id : Ids, kind : {"gdrive", "s3"}]]
  /\ at \in [Tasks -> {"new", "opened", "built", "stored", "done", "failed"}]
  /\ target \in [Tasks -> 0 .. MaxTargets]
  /\ copy \in [Tasks -> Rows \cup {NoRow}]
  /\ cloud \in [DOMAIN cloud -> Uploads]
  /\ DOMAIN cloud \subseteq (Accounts \cup Buckets) \X Refs
  /\ clock \in Nat
  /\ puts \in [Uploads -> {NoPut} \cup [when : 1 .. clock, place : Accounts \cup Buckets, ref : Refs]]
  /\ files \in [Uploads -> {NoFile} \cup [target : Ids, ref : Refs]]
  /\ opened \in [Downloads -> Uploads \cup {Nobody}]
  /\ got \in [Downloads -> Uploads \cup {Nobody}]

\* The email the storage page shows for a Google target is that of the account the backups
\* go to, or none: tokens saved by backups and downloads race with a new login.
EmailFitsToken ==
  \A t \in Ids :
    targets[t].kind = "gdrive" => targets[t].config.email \in {NoEmail, targets[t].config.account}

\* Both were stored for databases of one name in one minute.
SameName(u, v) == Db[u] = Db[v] /\ File[u] = File[v]

\* The download reads where the backup was stored: the destination still has that bucket.
ReadsWhereStored(d) == Place(copy[d]) = puts[opened[d]].place

\* As long as the destination's bucket was not edited since the backup was stored, a download
\* returns that very backup, or from S3 one that was stored after it under the same key.
DownloadIsOwnOrLater ==
  \A d \in Downloads :
    at[d] = "done" /\ ReadsWhereStored(d) =>
      \/ got[d] = opened[d]
      \/ /\ copy[d].kind = "s3"
         /\ SameName(got[d], opened[d])
         /\ puts[got[d]].when > puts[opened[d]].when

\* Once the bucket was edited, the reference is looked up in the new one, and whatever is
\* under the key there is returned, an earlier backup too.  Even then it is a backup of a
\* database and a minute of the name that was asked for, and from Google Drive the very one:
\* the file list never leads to a backup of another database.
DownloadIsOfThatName ==
  \A d \in Downloads :
    at[d] = "done" =>
      got[d] = opened[d] \/ (copy[d].kind = "s3" /\ SameName(got[d], opened[d]))

\* What the comment on BackupFile says: its RemoteRef, passed back to its target's
\* Download, fetches the file.
DownloadIsOwn ==
  \A d \in Downloads : at[d] = "done" => got[d] = opened[d]

(***************************************************************************)
(* The inductive invariant behind the properties, part by part.            *)
(***************************************************************************)

\* An id names one row for good: whoever has seen its kind may rely on it.
KindsKept ==
  /\ \A t \in Ids : t > lastTarget => targets[t] = NoRow
  /\ \A e \in Edits :
       edit[e] # NoEdit =>
         /\ edit[e].id <= lastTarget
         /\ Exists(edit[e].id) => targets[edit[e].id].kind = edit[e].kind
  /\ \A k \in Tasks :
       copy[k] # NoRow =>
         /\ target[k] \in 1 .. lastTarget
         /\ Exists(target[k]) => targets[target[k]].kind = copy[k].kind

\* Copies of a row are as consistent as the row.
CopiesFit ==
  \A k \in Tasks :
    copy[k].kind = "gdrive" => copy[k].config.email \in {NoEmail, copy[k].config.account}

\* What a task has in hand at each step.
StepsOK ==
  /\ \A k \in Tasks : at[k] \in {"built", "stored", "done"} => copy[k] # NoRow
  /\ \A u \in Uploads : at[u] \in {"new", "built"} => puts[u] = NoPut
  /\ \A u \in Uploads : at[u] = "stored" => puts[u] # NoPut
  /\ \A u \in Uploads :
       files[u] # NoFile =>
         puts[u] # NoPut /\ files[u].ref = puts[u].ref /\ files[u].target = target[u]
  /\ \A d \in Downloads :
       at[d] \in {"opened", "built", "done"} => opened[d] \in Uploads /\ files[opened[d]] # NoFile
  /\ \A d \in Downloads :
       at[d] \in {"built", "done"} => copy[d].kind = copy[opened[d]].kind

\* Where upload u was stored, and that its reference is of u's making.
Spot(u) == <<puts[u].place, puts[u].ref>>

RefsOK ==
  \A u \in Uploads :
    puts[u] # NoPut =>
      /\ copy[u] # NoRow
      /\ IF copy[u].kind = "gdrive" THEN puts[u].ref = <<u>>
         ELSE \E p \in Prefixes : puts[u].ref = Key(p, u)

\* An object holds the last upload to its place.
CloudOK ==
  /\ \A x \in DOMAIN cloud : puts[cloud[x]] # NoPut /\ Spot(cloud[x]) = x
  /\ \A u \in Uploads :
       puts[u] # NoPut =>
         Spot(u) \in DOMAIN cloud /\ (cloud[Spot(u)] = u \/ puts[cloud[Spot(u)]].when > puts[u].when)
==============================================================================
