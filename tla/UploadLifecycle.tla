--------------------------- MODULE UploadLifecycle ---------------------------
(***************************************************************************)
(* The life of ONE upload: its row in PostgreSQL, its files under          *)
(* storage/temp/<uploadId> and storage/uploads/<uploadId>, and every       *)
(* request or background job that reads and writes them:                   *)
(*                                                                         *)
(*   - POST .../chunk     UploadService.ReceiveChunk (its last chunk)      *)
(*   - POST .../complete  UploadService.Complete                           *)
(*   - DELETE             DownloadService.DeleteBySecret                   *)
(*   - POST .../destroy   AdminUploadsHandler.destroy                      *)
(*   - GET .../file       a self-destructing download (see Delivery)       *)
(*   - the cron job       CleanupService.RunAll                            *)
(*                                                                         *)
(* No handler holds a lock or a transaction: each SQL statement and each   *)
(* file system call is one atomic step, and any other handler may run      *)
(* between two of them.  Uploads share nothing but the settings row, so    *)
(* one upload is enough.  A request that its first guard refuses changes   *)
(* nothing and is left to stuttering.                                      *)
(***************************************************************************)
EXTENDS Naturals, FiniteSets

CONSTANTS
    Files,          \* the files a client sends, by client-chosen UUID
    Archive,        \* the path uploads/<id>/archive.zip
    Completers,     \* calls of complete(); a call's fresh key is named by the call
    NoKey,          \* encrypt_key IS NULL, or a plain artifact
    OwnerDeletes,   \* calls of DELETE with the owner's secret code
    AdminDestroys,  \* calls of the admin's destroy endpoint
    SelfDestructs,  \* full downloads whose grant says ShouldDestroy
    Sweepers,       \* cleanup jobs: the in-process cron and the CLI
    Orderly,        \* the client has at most one upload request outstanding
    MaxFaults,      \* bound: I/O errors and server crashes
    MaxToggles      \* bound: how often the admin flips encrypt_files

ASSUME LifecycleAssumption ==
    /\ Archive \notin Files
    /\ NoKey \notin Completers
    /\ Orderly \in BOOLEAN
    /\ MaxFaults \in Nat
    /\ MaxToggles \in Nat

VARIABLES
    (* the uploads row, its files rows, the settings row *)
    status,       \* "absent" once the row is deleted
    key,          \* uploads.encrypt_key
    fileRows,     \* the ids in files for this upload
    encryptFiles, \* settings.encrypt_files
    expired,      \* expires_at < now()
    stale,        \* created_at is more than 12 hours ago
    (* storage/temp/<uploadId> *)
    part,         \* files present as <id>.part
    temp,         \* files present as <id>: completely received
    tempOld,      \* the directory's mtime is more than 12 hours ago
    (* storage/uploads/<uploadId> *)
    dir,          \* the directory exists
    blob,         \* what each path in it holds
    (* the handlers *)
    chunkPc, completePc, destroyPc, sweepPc,
    listed,       \* Complete's local copy of the file list
    encrypting,   \* Complete's encryptKey # nil
    linked,       \* the file Complete has open is still reachable by its path
    (* bookkeeping of the bounds *)
    faults, toggles

rowVars   == <<status, key, fileRows>>
envVars   == <<encryptFiles, expired, stale, toggles>>
tempVars  == <<part, temp, tempOld>>
storeVars == <<dir, blob>>
callVars  == <<listed, encrypting, linked>>
vars == <<rowVars, envVars, tempVars, storeVars, callVars,
          chunkPc, completePc, destroyPc, sweepPc, faults>>

Destroyers == OwnerDeletes \cup AdminDestroys \cup SelfDestructs
Paths      == Files \cup {Archive}
Keys       == Completers \cup {NoKey}

\* What a path under uploads/<id> holds.
Blobs   == [state : {"none", "partial", "whole"}, files : SUBSET Files, key : Keys]
NoBlob  == [state |-> "none", files |-> {}, key |-> NoKey]
Emptied == [state |-> "partial", files |-> {}, key |-> NoKey]

\* The path Complete writes and ResolveFinalPath serves, from a list of files.
FinalPath(fs) == IF Cardinality(fs) > 1 THEN Archive ELSE CHOOSE f \in fs : TRUE

\* The status guard of ReceiveChunk and Complete.
WritableUnlessReady == status # "ready"
Writable == status = "processing"

\* GetExpired; its other status, 'inactive', is one that no code ever writes.
DueIfInactive == status = "inactive" /\ expired
DueIfReady == status = "ready"
Due == status = "ready" /\ expired

\* GetStuckProcessing with a maximum age of 12 hours.
StuckAtAnyAge == status = "processing"
StuckByTempDir == status = "processing" /\ tempOld
Stuck == status = "processing" /\ stale

ChunkBusy    == {"writing", "renaming", "adding"}
CompleteBusy == {"listing", "creating", "filling", "keying", "cleaning", "marking"}
DestroyBusy  == {"removing", "marking"}
SweepBusy    == {"removing", "marking", "stuck", "dropTemp", "dropRow", "purge", "purging"}

\* No upload request of the client is being handled.
NoUploadRequest ==
    /\ \A f \in Files : chunkPc[f] \notin ChunkBusy
    /\ \A c \in Completers : completePc[c] \notin CompleteBusy

Init ==
    /\ status = "processing" /\ key = NoKey /\ fileRows = {}
    /\ encryptFiles \in BOOLEAN /\ expired = FALSE /\ stale = FALSE
    /\ part = {} /\ temp = {} /\ tempOld = FALSE
    /\ dir = FALSE /\ blob = [p \in Paths |-> NoBlob]
    /\ chunkPc = [f \in Files |-> "idle"]
    /\ completePc = [c \in Completers |-> "idle"]
    /\ destroyPc = [d \in Destroyers |-> "idle"]
    /\ sweepPc = [s \in Sweepers |-> "idle"]
    /\ listed = [c \in Completers |-> {}]
    /\ encrypting = [c \in Completers |-> FALSE]
    /\ linked = [c \in Completers |-> FALSE]
    /\ faults = 0 /\ toggles = 0

(***************************************************************************)
(* ReceiveChunk, for the chunk that makes the file whole.  (How chunks     *)
(* build up a file is the subject of module ChunkAssembly.)                *)
(***************************************************************************)
ChunkStart(f) ==
    /\ chunkPc[f] = "idle" /\ Writable
    /\ Orderly => NoUploadRequest
    /\ chunkPc' = [chunkPc EXCEPT ![f] = "writing"]
    /\ UNCHANGED <<rowVars, envVars, tempVars, storeVars, callVars, completePc,
                   destroyPc, sweepPc, faults>>

\* EnsureDir, OpenFile(O_CREATE) and WriteAt on <id>.part.
ChunkWrite(f) ==
    /\ chunkPc[f] = "writing"
    /\ part' = part \cup {f} /\ tempOld' = FALSE
    /\ chunkPc' = [chunkPc EXCEPT ![f] = "renaming"]
    /\ UNCHANGED <<rowVars, envVars, temp, storeVars, callVars, completePc,
                   destroyPc, sweepPc, faults>>

\* os.Rename(<id>.part, <id>): fails when a cleanup has emptied the directory.
ChunkRename(f) ==
    /\ chunkPc[f] = "renaming"
    /\ \/ /\ f \in part
          /\ part' = part \ {f} /\ temp' = temp \cup {f} /\ tempOld' = FALSE
          /\ chunkPc' = [chunkPc EXCEPT ![f] = "adding"]
       \/ /\ f \notin part
          /\ chunkPc' = [chunkPc EXCEPT ![f] = "done"]
          /\ UNCHANGED tempVars
    /\ UNCHANGED <<rowVars, envVars, storeVars, callVars, completePc, destroyPc,
                   sweepPc, faults>>

\* files.Add: the foreign key refuses a file of a deleted upload.
ChunkAdd(f) ==
    /\ chunkPc[f] = "adding"
    /\ fileRows' = IF status = "absent" THEN fileRows ELSE fileRows \cup {f}
    /\ chunkPc' = [chunkPc EXCEPT ![f] = "done"]
    /\ UNCHANGED <<status, key, envVars, tempVars, storeVars, callVars, completePc,
                   destroyPc, sweepPc, faults>>

(***************************************************************************)
(* Complete.                                                               *)
(***************************************************************************)
CompleteStart(c) ==
    /\ completePc[c] = "idle" /\ Writable
    /\ Orderly => NoUploadRequest
    /\ completePc' = [completePc EXCEPT ![c] = "listing"]
    /\ UNCHANGED <<rowVars, envVars, tempVars, storeVars, callVars, chunkPc,
                   destroyPc, sweepPc, faults>>

\* ListByUploadID (ErrNoFiles when empty), then EnsureDir on the upload's
\* directory and its thumbs.
CompleteList(c) ==
    /\ completePc[c] = "listing"
    /\ \/ /\ fileRows = {}
          /\ completePc' = [completePc EXCEPT ![c] = "done"]
          /\ UNCHANGED <<listed, dir>>
       \/ /\ fileRows # {}
          /\ listed' = [listed EXCEPT ![c] = fileRows]
          /\ dir' = TRUE
          /\ completePc' = [completePc EXCEPT ![c] = "creating"]
    /\ UNCHANGED <<rowVars, envVars, tempVars, blob, encrypting, linked, chunkPc,
                   destroyPc, sweepPc, faults>>

\* Reads settings.encrypt_files, generates a key, and os.Create truncates
\* whatever the final path held; it fails if the directory is gone.
CompleteCreate(c) ==
    /\ completePc[c] = "creating"
    /\ \/ /\ dir
          /\ encrypting' = [encrypting EXCEPT ![c] = encryptFiles]
          /\ linked' = [linked EXCEPT ![c] = TRUE]
          /\ blob' = [blob EXCEPT ![FinalPath(listed[c])] = Emptied]
          /\ completePc' = [completePc EXCEPT ![c] = "filling"]
       \/ /\ ~dir
          /\ completePc' = [completePc EXCEPT ![c] = "done"]
          /\ UNCHANGED <<encrypting, linked, blob>>
    /\ UNCHANGED <<rowVars, envVars, tempVars, dir, listed, chunkPc, destroyPc,
                   sweepPc, faults>>

\* The artifact that call c packs: its own key encrypts it.
Artifact(c) == [state |-> "whole", files |-> listed[c],
                key |-> IF encrypting[c] THEN c ELSE NoKey]

\* Packs whatever files are there.
CompleteFillUnchecked(c) ==
    /\ completePc[c] = "filling"
    /\ blob' = [blob EXCEPT ![FinalPath(listed[c])] =
                  [Artifact(c) EXCEPT !.files = @ \cap temp]]
    /\ completePc' = [completePc EXCEPT
                        ![c] = IF encrypting[c] THEN "keying" ELSE "cleaning"]
    /\ UNCHANGED <<rowVars, envVars, tempVars, dir, callVars, chunkPc, destroyPc,
                   sweepPc, faults>>

\* The rest of writeFinalArtifact: copy, encrypt or zip every listed temp
\* file.  A missing one is an error that leaves the truncated artifact.
CompleteFill(c) ==
    /\ completePc[c] = "filling"
    /\ \/ /\ listed[c] \subseteq temp
          /\ blob' = IF linked[c] THEN [blob EXCEPT ![FinalPath(listed[c])] = Artifact(c)]
                                  ELSE blob
          /\ completePc' = [completePc EXCEPT
                              ![c] = IF encrypting[c] THEN "keying" ELSE "cleaning"]
       \/ /\ ~(listed[c] \subseteq temp)
          /\ completePc' = [completePc EXCEPT ![c] = "done"]
          /\ UNCHANGED blob
    /\ UNCHANGED <<rowVars, envVars, tempVars, dir, callVars, chunkPc, destroyPc,
                   sweepPc, faults>>

\* StoreEncryptKey: an UPDATE by id, which matches no row once it is deleted.
CompleteStoreKey(c) ==
    /\ completePc[c] = "keying"
    /\ key' = IF status = "absent" THEN key ELSE c
    /\ completePc' = [completePc EXCEPT ![c] = "cleaning"]
    /\ UNCHANGED <<status, fileRows, envVars, tempVars, storeVars, callVars, chunkPc,
                   destroyPc, sweepPc, faults>>

\* os.RemoveAll(TempDir).
CompleteCleanTemp(c) ==
    /\ completePc[c] = "cleaning"
    /\ part' = {} /\ temp' = {} /\ tempOld' = FALSE
    /\ completePc' = [completePc EXCEPT ![c] = "marking"]
    /\ UNCHANGED <<rowVars, envVars, storeVars, callVars, chunkPc, destroyPc,
                   sweepPc, faults>>

\* MarkReady: an UPDATE by id, whatever the status has become meanwhile.
CompleteMarkReady(c) ==
    /\ completePc[c] = "marking"
    /\ status' = IF status = "absent" THEN "absent" ELSE "ready"
    /\ completePc' = [completePc EXCEPT ![c] = "done"]
    /\ UNCHANGED <<key, fileRows, envVars, tempVars, storeVars, callVars, chunkPc,
                   destroyPc, sweepPc, faults>>

(***************************************************************************)
(* Destroy, as called by an owner, an administrator or a finished          *)
(* self-destructing download.  Each reads the row first and acts later.    *)
(***************************************************************************)
DestroyStart(d) ==
    /\ destroyPc[d] = "idle"
    /\ \/ d \in OwnerDeletes /\ status \in {"processing", "ready"}
       \/ d \in AdminDestroys /\ status # "absent"
       \/ d \in SelfDestructs /\ status = "ready"
    /\ destroyPc' = [destroyPc EXCEPT ![d] = "removing"]
    /\ UNCHANGED <<rowVars, envVars, tempVars, storeVars, callVars, chunkPc,
                   completePc, sweepPc, faults>>

\* Removes what is in UploadDir and keeps the directory.
EmptyUploadDir ==
    /\ blob' = [p \in Paths |-> NoBlob]
    /\ linked' = [c \in Completers |-> FALSE]
    /\ UNCHANGED dir

\* os.RemoveAll(UploadDir): open files lose their name, not their bytes.
RemoveUploadDir ==
    /\ dir' = FALSE
    /\ blob' = [p \in Paths |-> NoBlob]
    /\ linked' = [c \in Completers |-> FALSE]

\* UpdateStatus(inactive), the status that GetExpired still asks for.
SetInactive == status' = IF status = "absent" THEN "absent" ELSE "inactive"

\* UpdateStatus(destroyed): an UPDATE by id.
SetDestroyed == status' = IF status = "absent" THEN "absent" ELSE "destroyed"

DestroyRemove(d) ==
    /\ destroyPc[d] = "removing"
    /\ RemoveUploadDir
    /\ destroyPc' = [destroyPc EXCEPT ![d] = "marking"]
    /\ UNCHANGED <<rowVars, envVars, tempVars, listed, encrypting, chunkPc, completePc,
                   sweepPc, faults>>

DestroyMark(d) ==
    /\ destroyPc[d] = "marking"
    /\ SetDestroyed
    /\ destroyPc' = [destroyPc EXCEPT ![d] = "done"]
    /\ UNCHANGED <<key, fileRows, envVars, tempVars, storeVars, callVars, chunkPc,
                   completePc, sweepPc, faults>>

(***************************************************************************)
(* CleanupService.RunAll: expireUploads, cleanStuckProcessing and          *)
(* purgeOldTempEntries, in this order, again and again.                    *)
(***************************************************************************)
SweepExpired(s) ==
    /\ sweepPc[s] = "idle"
    /\ sweepPc' = [sweepPc EXCEPT
                     ![s] = IF Due THEN "removing" ELSE "stuck"]
    /\ UNCHANGED <<rowVars, envVars, tempVars, storeVars, callVars, chunkPc,
                   completePc, destroyPc, faults>>

SweepRemove(s) ==
    /\ sweepPc[s] = "removing"
    /\ RemoveUploadDir
    /\ sweepPc' = [sweepPc EXCEPT ![s] = "marking"]
    /\ UNCHANGED <<rowVars, envVars, tempVars, listed, encrypting, chunkPc, completePc,
                   destroyPc, faults>>

SweepMark(s) ==
    /\ sweepPc[s] = "marking"
    /\ SetDestroyed
    /\ sweepPc' = [sweepPc EXCEPT ![s] = "stuck"]
    /\ UNCHANGED <<key, fileRows, envVars, tempVars, storeVars, callVars, chunkPc,
                   completePc, destroyPc, faults>>

\* GetStuckProcessing.
SweepStuck(s) ==
    /\ sweepPc[s] = "stuck"
    /\ sweepPc' = [sweepPc EXCEPT
                     ![s] = IF Stuck THEN "dropTemp" ELSE "purge"]
    /\ UNCHANGED <<rowVars, envVars, tempVars, storeVars, callVars, chunkPc,
                   completePc, destroyPc, faults>>

SweepDropTemp(s) ==
    /\ sweepPc[s] = "dropTemp"
    /\ part' = {} /\ temp' = {} /\ tempOld' = FALSE
    /\ sweepPc' = [sweepPc EXCEPT ![s] = "dropRow"]
    /\ UNCHANGED <<rowVars, envVars, storeVars, callVars, chunkPc, completePc,
                   destroyPc, faults>>

\* uploads.Delete: by id, and the files rows cascade.
SweepDropRow(s) ==
    /\ sweepPc[s] = "dropRow"
    /\ status' = "absent" /\ fileRows' = {} /\ key' = NoKey
    /\ sweepPc' = [sweepPc EXCEPT ![s] = "purge"]
    /\ UNCHANGED <<envVars, tempVars, storeVars, callVars, chunkPc, completePc,
                   destroyPc, faults>>

\* entry.Info(): is the directory old?
SweepStat(s) ==
    /\ sweepPc[s] = "purge"
    /\ sweepPc' = [sweepPc EXCEPT ![s] = IF tempOld THEN "purging" ELSE "idle"]
    /\ UNCHANGED <<rowVars, envVars, tempVars, storeVars, callVars, chunkPc,
                   completePc, destroyPc, faults>>

SweepPurge(s) ==
    /\ sweepPc[s] = "purging"
    /\ part' = {} /\ temp' = {} /\ tempOld' = FALSE
    /\ sweepPc' = [sweepPc EXCEPT ![s] = "idle"]
    /\ UNCHANGED <<rowVars, envVars, storeVars, callVars, chunkPc, completePc,
                   destroyPc, faults>>

(***************************************************************************)
(* The environment: time, the administrator's settings form, errors, and   *)
(* crashes.                                                                *)
(***************************************************************************)
Expire ==
    /\ ~expired /\ expired' = TRUE
    /\ UNCHANGED <<rowVars, encryptFiles, stale, toggles, tempVars, storeVars, callVars,
                   chunkPc, completePc, destroyPc, sweepPc, faults>>

TwelveHoursPass ==
    /\ ~stale /\ stale' = TRUE
    /\ UNCHANGED <<rowVars, encryptFiles, expired, toggles, tempVars, storeVars, callVars,
                   chunkPc, completePc, destroyPc, sweepPc, faults>>

\* The directory is younger than the row, so it is old only if the row is.
TempDirAges ==
    /\ stale /\ ~tempOld /\ part \cup temp # {} /\ tempOld' = TRUE
    /\ UNCHANGED <<rowVars, envVars, part, temp, storeVars, callVars, chunkPc,
                   completePc, destroyPc, sweepPc, faults>>

ToggleEncryption ==
    /\ toggles < MaxToggles
    /\ toggles' = toggles + 1 /\ encryptFiles' = ~encryptFiles
    /\ UNCHANGED <<rowVars, expired, stale, tempVars, storeVars, callVars, chunkPc,
                   completePc, destroyPc, sweepPc, faults>>

Fault == faults < MaxFaults /\ faults' = faults + 1

\* An SQL or file error ends a chunk or complete request where it is; only
\* complete()'s removal of the temp files may fail without that.
ChunkFails(f) ==
    /\ chunkPc[f] \in ChunkBusy /\ Fault
    /\ chunkPc' = [chunkPc EXCEPT ![f] = "done"]
    /\ UNCHANGED <<rowVars, envVars, tempVars, storeVars, callVars, completePc,
                   destroyPc, sweepPc>>

CompleteFails(c) ==
    /\ completePc[c] \in CompleteBusy /\ Fault
    /\ completePc' = [completePc EXCEPT
                        ![c] = IF completePc[c] = "cleaning" THEN "marking" ELSE "done"]
    /\ UNCHANGED <<rowVars, envVars, tempVars, storeVars, callVars, chunkPc,
                   destroyPc, sweepPc>>

\* Destroy ignores both of its errors and goes on.
DestroyFails(d) ==
    /\ destroyPc[d] \in DestroyBusy /\ Fault
    /\ destroyPc' = [destroyPc EXCEPT
                       ![d] = IF destroyPc[d] = "removing" THEN "marking" ELSE "done"]
    /\ UNCHANGED <<rowVars, envVars, tempVars, storeVars, callVars, chunkPc,
                   completePc, sweepPc>>

\* The server process dies and restarts: every handler stops where it is,
\* the cron job is armed again, database and disk stay as they are.
Crash ==
    /\ Fault
    /\ chunkPc' = [f \in Files |-> IF chunkPc[f] \in ChunkBusy THEN "done" ELSE chunkPc[f]]
    /\ completePc' = [c \in Completers |->
                        IF completePc[c] \in CompleteBusy THEN "done" ELSE completePc[c]]
    /\ destroyPc' = [d \in Destroyers |->
                       IF destroyPc[d] \in DestroyBusy THEN "done" ELSE destroyPc[d]]
    /\ sweepPc' = [s \in Sweepers |-> "idle"]
    /\ UNCHANGED <<rowVars, envVars, tempVars, storeVars, callVars>>

\* RunAll reports an error of a step and goes on with the next one.
NextAfter == [idle |-> "stuck", removing |-> "marking", marking |-> "stuck",
              stuck |-> "purge", dropTemp |-> "dropRow", dropRow |-> "purge",
              purge |-> "idle", purging |-> "idle"]

SweepFails(s) ==
    /\ Fault
    /\ sweepPc' = [sweepPc EXCEPT ![s] = NextAfter[@]]
    /\ UNCHANGED <<rowVars, envVars, tempVars, storeVars, callVars, chunkPc,
                   completePc, destroyPc>>

ChunkStep(f) == ChunkStart(f) \/ ChunkWrite(f) \/ ChunkRename(f) \/ ChunkAdd(f)

CompleteStep(c) ==
    \/ CompleteStart(c) \/ CompleteList(c) \/ CompleteCreate(c) \/ CompleteFill(c)
    \/ CompleteStoreKey(c) \/ CompleteCleanTemp(c) \/ CompleteMarkReady(c)

DestroyStep(d) == DestroyStart(d) \/ DestroyRemove(d) \/ DestroyMark(d)

SweepStep(s) ==
    \/ SweepExpired(s) \/ SweepRemove(s) \/ SweepMark(s) \/ SweepStuck(s)
    \/ SweepDropTemp(s) \/ SweepDropRow(s) \/ SweepStat(s) \/ SweepPurge(s)

Next ==
    \/ \E f \in Files : ChunkStep(f) \/ ChunkFails(f)
    \/ \E c \in Completers : CompleteStep(c) \/ CompleteFails(c)
    \/ \E d \in Destroyers : DestroyStep(d) \/ DestroyFails(d)
    \/ \E s \in Sweepers : SweepStep(s) \/ SweepFails(s)
    \/ Expire \/ TwelveHoursPass \/ TempDirAges \/ ToggleEncryption
    \/ Crash

\* The cron scheduler runs RunAll at every interval for as long as the server
\* lives; no request is ever obliged to arrive or to be retried.
Spec == Init /\ [][Next]_vars /\ \A s \in Sweepers : WF_vars(SweepStep(s))

(***************************************************************************)
(* Properties.                                                             *)
(***************************************************************************)
TypeOK ==
    /\ status \in {"absent", "processing", "ready", "destroyed"}
    /\ key \in Keys
    /\ fileRows \in SUBSET Files
    /\ encryptFiles \in BOOLEAN /\ expired \in BOOLEAN /\ stale \in BOOLEAN
    /\ part \in SUBSET Files /\ temp \in SUBSET Files /\ tempOld \in BOOLEAN
    /\ dir \in BOOLEAN
    /\ blob \in [Paths -> Blobs]
    /\ chunkPc \in [Files -> {"idle", "done"} \cup ChunkBusy]
    /\ completePc \in [Completers -> {"idle", "done"} \cup CompleteBusy]
    /\ destroyPc \in [Destroyers -> {"idle", "done"} \cup DestroyBusy]
    /\ sweepPc \in [Sweepers -> {"idle"} \cup SweepBusy]
    /\ listed \in [Completers -> SUBSET Files]
    /\ encrypting \in [Completers -> BOOLEAN]
    /\ linked \in [Completers -> BOOLEAN]
    /\ faults \in 0..MaxFaults /\ toggles \in 0..MaxToggles

\* What a download of this upload finds at the path it computes from the files
\* rows is the whole artifact of exactly those files, encrypted with the key in
\* the row, or plain if the row has none (download_handler.go:116-136).
Servable ==
    LET b == blob[FinalPath(fileRows)] IN
    b.state = "whole" /\ b.files = fileRows /\ b.key = key

\* The admin has not flipped encrypt_files, or nothing has failed.
Steady == toggles = 0 \/ faults = 0

\* An upload that is ready, and whose directory no destroy has removed yet,
\* can be served, whatever crashed, failed or was retried before: MarkReady
\* comes after the artifact and its key are stored (upload_service.go:427-446).
ReadyServable == Orderly /\ Steady /\ status = "ready" /\ dir => Servable

\* The same without Steady: "optionally encrypts the final artifact ..., and
\* marks the upload ready" (upload_service.go:366-369), whatever was retried.
ReadyAlwaysServable == Orderly /\ status = "ready" /\ dir => Servable

\* Once an upload is destroyed or deleted and no complete() is being handled,
\* it stays out of circulation: no later request revives it.
Gone == status \in {"absent", "destroyed"} /\ \A c \in Completers : completePc[c] \notin CompleteBusy
GoneForGood == [][Gone => Gone']_vars

\* "The DB status change below still takes the upload out of circulation"
\* (download_service.go:346-347): a destroyed upload is never served again.
DestroyedIsFinal == [][status = "destroyed" => status' \in {"destroyed", "absent"}]_vars

\* The cleanup of stuck uploads never deletes the row of an upload less than
\* twelve hours old, however its steps interleave with the upload's requests.
YoungRowsStay == [][status # "absent" /\ ~stale => status' # "absent"]_vars

\* Nothing destroys a servable upload without cause: while it is neither
\* expired nor stale and nobody has asked for its destruction, it stays
\* ready and servable.
Unasked == ~expired /\ ~stale /\ \A d \in Destroyers : destroyPc[d] = "idle"
KeptWithoutCause ==
    [][Orderly /\ Unasked /\ status = "ready" =>
         status' = "ready" /\ (Steady' => Servable')]_vars

\* To an orderly client, and unless failures and changes of encrypt_files come
\* together, the handlers and jobs of an upload keep UploadContract, however
\* their steps interleave.
Asked == \E d \in Destroyers : destroyPc[d] # "idle"
Contract == INSTANCE UploadContract WITH
    phase    <- status,
    working  <- status = "ready" /\ dir /\ Servable,
    packing  <- \E c \in Completers : completePc[c] \in CompleteBusy,
    unwanted <- expired \/ Asked
ImplementsContract == Contract!Spec

\* As long as nothing fails, a received file waits in temp until complete()
\* has packed it: a processing upload can still be completed.
FilesAwaitComplete ==
    Orderly /\ faults = 0 /\ ~stale /\ status = "processing" =>
        \/ fileRows \subseteq temp
        \/ \E c \in Completers : completePc[c] = "marking"

\* Why an orderly client's upload is servable once it is ready: the steps of
\* complete() build on each other, and on rows, directories and keys that no
\* other handler changes meanwhile except by removing them for good.
Completing(c) == completePc[c] \in CompleteBusy
Packing == {"creating", "filling", "keying", "cleaning", "marking"}
Created == {"filling", "keying", "cleaning", "marking"}
Filled  == {"keying", "cleaning", "marking"}

OneRequest ==
    \A c \in Completers : Completing(c) =>
        /\ \A f \in Files : chunkPc[f] \notin ChunkBusy
        /\ \A d \in Completers : Completing(d) => d = c
QuietWhenReady == status = "ready" => NoUploadRequest
ListsAllRows ==
    \A c \in Completers : completePc[c] \in Packing =>
        listed[c] # {} /\ (status # "absent" => listed[c] = fileRows)
LinkedWhileDir ==
    \A c \in Completers : completePc[c] \in Created => linked[c] = dir
ArtifactFilled ==
    \A c \in Completers : completePc[c] \in Filled /\ dir =>
        blob[FinalPath(listed[c])] = Artifact(c)
KeyStored ==
    \A c \in Completers :
        /\ completePc[c] = "keying" => encrypting[c]
        /\ completePc[c] \in {"cleaning", "marking"} /\ encrypting[c] /\ status # "absent"
             => key = c
CompleteInOrder ==
    Orderly => /\ OneRequest /\ QuietWhenReady /\ ListsAllRows
               /\ LinkedWhileDir /\ ArtifactFilled /\ KeyStored

\* The cron job takes an expired upload out of circulation, and a stuck one.
ExpiredEventuallyGone == (status = "ready" /\ expired) ~> (status # "ready")
StuckEventuallyGone == (status = "processing" /\ stale) ~> (status # "processing")

=============================================================================
