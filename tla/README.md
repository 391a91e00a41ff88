# A formal model of Cloudigo

Cloudigo is a self-hosted file-sharing server: a browser uploads files in
chunks, the server packs them, optionally encrypts them, and serves them to
whoever has a link, until they expire, self-destruct or are deleted. This
directory holds TLA+ specifications of that program, the TLC configurations
that check them, and theorems about them that TLAPS proves.

| File | Contents |
|---|---|
| `UploadLifecycle.tla` | one upload from its session to its destruction: chunks, `complete()`, destroy, cleanup, crashes |
| `UploadContract.tla` | what `UploadLifecycle` promises about an upload, abstractly |
| `UploadLifecycleProofs.tla` | theorems about both |
| `Delivery.tla` | concurrent downloads of one upload, and its self-destruction |
| `DeliveryProofs.tla` | theorems about it |
| `ChunkAssembly.tla` | how one file crosses an unreliable network |
| `FileTransfer.tla` | what `ChunkAssembly` promises, abstractly |
| `ChunkAssemblyProofs.tla` | theorems about both |
| `Sessions.tla`, `SessionsProofs.tla` | accounts, refresh tokens, cookies, password resets |
| `OwnerAccess.tla`, `OwnerAccessProofs.tla` | the owner's settings, the password gate, tickets, expiry |
| `CryptFile.tla` | the encrypted file format and its reader, as operators |
| `Packaging.tla`, `PackagingProofs.tla` | writing the artifact through zip, pipe and encryption, and reading ranges of it |
| `Settings.tla`, `SettingsProofs.tla` | administrators writing the one row of settings |
| `Admission.tla`, `AdmissionProofs.tla` | block list, hourly limit, registration, e-mail verification |
| `MC*.tla`, `*.cfg` | instances for TLC |
| `PROJECT.json` | components, runs, mutants, the map to the source, findings, hazards, theorems |

Run `tlc -config UploadLifecycle.cfg MCUploadLifecycle.tla` (and likewise for
the others), and `tlapm UploadLifecycleProofs.tla` (and likewise for the other
`*Proofs` modules). Paths below are relative to
`src/`; `service/`, `repository/`, ... stand for `backend/internal/service/`, ...

## 1. Inventory

### Components

**Upload lifecycle** (`service/upload_service.go`,
`repository/upload_repository.go`, `repository/file_repository.go`,
`storage/local.go`). State: a row in `uploads` (`status`, `encrypt_key`,
`expires_at`, ...), rows in `files`, the directories `storage/temp/<id>`
(`<file>.part`, `<file>`) and `storage/uploads/<id>` (the artifact: the one file, or
`archive.zip`). Operations: CreateSession, ReceiveChunk, Register, Complete.
No handler holds a lock or a transaction over two statements. Correct if: a
ready upload can be served; what was received is not lost before it is packed;
an interrupted `complete()` can be repeated.

**Chunk protocol** (`frontend/src/lib/upload-client.ts`, `ReceiveChunk`). State:
the client's place in its loop, the partial file, the completed file, the files
row. Correct if: a file counts as received only when all of it is there, a retry
does no harm, and a client that is told so has its file stored.

**Cleanup** (`service/cleanup_service.go`; started by cron in `cmd/api/main.go` and by
hand in `cmd/cleanup`). Destroys expired uploads, deletes uploads stuck for
twelve hours, purges old temp directories, purges old verification codes.
Correct if: what is due goes in the end, and nothing else does, although each
step acts on a list made earlier.

**Download delivery** (`service/download_service.go`,
`handler/download_handler.go`, `repository/download_repository.go`). State: the
download log. Operations: ticket, Authorize, streaming with Range, Destroy.
Correct if: an upload self-destructs when, and only when, everybody it is meant for
has been served, and never takes the file from a response that needs it.

**Destruction on demand**: `DeleteBySecret`, the admin's destroy endpoint. Correct
if destroyed stays destroyed.

**Owner settings and the password gate** (`service/download_service.go`): read-modify-write
of password and expiry by the owner; a visitor shows the password once and gets a signed
ticket that opens every download for its lifetime. Correct if a change of one field leaves
the other alone, and a new password binds everybody soon.

**Accounts and sessions** (`service/auth_service.go`,
`repository/refresh_token_repository.go`, `repository/user_repository.go`,
`handler/auth_handler.go`, `middleware/auth.go`; in the browser `lib/api.ts`). State: users,
rotating refresh tokens, a mailed reset link per user, and a cookie that all tabs of a
browser share. Correct if a refresh token is exchanged once, a reset ends all older
sessions, a link dies with the password it replaces, and no browser is signed out
by its own doing.

**E-mail verification** (`repository/email_verification_repository.go`): codes that are
pending, then verified; windows of one hour (to confirm) and thirty minutes (to count);
the cleanup of old pending ones. Correct if a sender who has proven the address is not
asked again.

**Packaging and encryption** (`writeFinalArtifact`, `buildZip`, `cryptfile/`): a
goroutine and a pipe; a chunked AES-GCM format with random access. Correct if
packing ends, also on errors, and any range decrypts to the right bytes.

**WebSocket hub** (`ws/hub.go`): rooms of clients, broadcasts from handlers.

**Settings, branding, social links, backgrounds**: one settings row, written
whole by the settings page, the import and the branding upload; files next to rows.
Correct if a write changes what its administrator meant to change.

**Admission** (`CreateSession`, `Register`): blocked IPs, hourly limit per IP, the
verification, recipients; size, type and number of files. Correct if the limit
cannot be passed by registering at the same time.

**Not state machines of their own**: e-mail templates and SMTP, audit log, admin
lists and CSV export, pages, contact form, system information, thumbnails,
configuration, migrations, the React views.

### Interactions

The browser calls the HTTP handlers; handlers call services; services share
PostgreSQL, the storage directory and the hub, and call each other's methods
(`expireUploads`, `DeleteBySecret`, the admin and the download handler all end in
`DownloadService.Destroy`). The cron job and the `cleanup` command run beside the
handlers, possibly at the same time. What couples the components is shared state:
the upload row's status, the two directories, the download log.

### Where it is hard

- every handler is a sequence of SQL statements and file operations with no lock
  around them, and updates are by id whatever the row has become meanwhile;
- files and rows change in separate steps, so a crash or an error between two of
  them leaves a state that the next request must cope with;
- the client retries what it cannot know the outcome of;
- the cleanup acts later on what it listed earlier;
- the decision to self-destruct is taken before the transfer, its execution after.

`PROJECT.json` lists each of these at its line, under `hazards`, with the property
that would catch it going wrong or the reason why there is none yet.

## 2. Plan

In this order, the most important behaviour first. 1 to 9 are done.

1. `UploadLifecycle`: the upload's rows and directories under all its handlers.
2. `UploadLifecycleProofs`: type correctness, servability, and the action properties.
3. `Delivery` and `DeliveryProofs`: overlapping downloads and self-destruction.
4. `ChunkAssembly` with the abstract `FileTransfer`, and the proof that one implements
   the other.
5. `Sessions` and `SessionsProofs`: what a rotation, a logout and a reset leave valid.
6. `OwnerAccess` and `OwnerAccessProofs`: `UpdateSettingsBySecret` against itself, the
   tickets and `expireUploads`.
7. `CryptFile` and `Packaging`: goroutine, pipe, errors on either side, and the range
   arithmetic of the reader.
8. `Settings` and `Admission`: the settings row, and the way from a session to a
   registered upload.
9. `UploadContract`: an abstract upload that `UploadLifecycle` implements for an orderly
   client, and the proof that it does.
10. `Hub`: rooms and broadcasts with slow clients.
11. The number of files against `MaxFiles`, with several files of one upload under way.

Theorems to add: what `ExpiredEventuallyGone` and `StuckEventuallyGone` rest on, as is done
for the other three liveness properties (section 6); and those of 10 and 11.

## 3. The modules

### UploadLifecycle

One upload; uploads share nothing but the settings row. Each action is one SQL
statement or one file-system call of a handler (or several adjacent ones of which
only one can be told apart by another handler), and a `...Pc` variable per request
says where it is:

- `chunkPc`: the last chunk of each file, `ReceiveChunk` from the status check to
  `files.Add` (`ChunkStart`, `ChunkWrite`, `ChunkRename`, `ChunkAdd`);
- `completePc`: a call of `Complete` (`CompleteStart`, `List`, `Create`, `Fill`,
  `StoreKey`, `CleanTemp`, `MarkReady`), with its local variables `listed` and
  `encrypting`, and `linked` for the file it holds open;
- `destroyPc`: `Destroy` for an owner, an administrator or a finished download;
- `sweepPc`: `RunAll` of one cleanup job.

`Due` and `Stuck` are the two queries of the cleanup; `FinalPath` is the path rule that
`Complete` and `ResolveFinalPath` share; `blob` tells what a path holds: nothing, a
truncated artifact, or a whole one, of which files and under whose key. `expired`,
`stale` and `tempOld` are the three facts about time that the code asks for. `ChunkFails`,
`CompleteFails`, `DestroyFails`, `SweepFails` are the error paths, and `Crash` restarts
the server.

`Orderly` restricts the client to one upload request at a time, as the page does: it
awaits each (`frontend/src/app/page.tsx`, `startUpload` and `finishRegistration`). The
servability properties are stated for such a client. The proofs and the model also
cover `Orderly = FALSE` for the others.

`UploadContract` says the same to somebody who holds a link and knows nothing of handlers.
Its variables are the phase of the upload, whether a download finds a whole artifact
(`working`), whether a `complete()` is under way (`packing`), whether somebody or its date
wants it gone (`unwanted`), and whether it is stale. `Publish` makes a wanted upload work;
only `TakeFiles` and `Destroy`, of the unwanted, and `Delete`, of the stale, end that; and
only a packing under way may publish what is gone. `ImplementsContract` maps `phase` to the
row's status, `working` to a ready row whose directory and artifact are in order, `packing`
to some call being handled, and `unwanted` to `expired \/ Asked`. It is stated for an
orderly client, and for runs in which failures and flips of `encrypt_files` do not come
together: the finding `stale_key` is what they do together.

### Delivery

Requests of one ready upload, each with a code (a receiver's, or one that is nobody's:
the share code and the owner's code have the same effect here) and with or without a
Range. `Ask` is the status check and `resolveAccess`, `Log` the entry in the download log,
`Decide` the `ShouldDestroy` of the grant, `Open`, `StreamEnds` and `StreamBreaks` the
transfer, `Remove` and `Mark` the two effects of `Destroy`. `OtherRemove` and `OtherMark`
stand for a destruction by anybody else, which `UploadLifecycle` details.

### ChunkAssembly and FileTransfer

The client's loop (`Send`, `ReplyOk`, `ReplyError` for a 5xx, `ReplyRefused` for a 4xx,
`Retry`, `StartOver`), the network (`RequestLost`, `ConnectionBreaks`), and
`ReceiveChunk` for every chunk: `Write`, `Rename`, `Add`. A connection may break at any
moment, and the server then goes on with the request (`Answer`: its reply goes nowhere).
Every step of `ReceiveChunk` may fail with a 500: `WriteFails` with or without the
chunk written, `RenameFails` before the rename or after it (an error of `RandomHex`),
`RenameMisses` because another request has renamed the file, `AddFails` with or without
the row, and `Add` itself for a duplicate id. `Refuse` stands for the checks that answer
4xx. `StartOver` is possible at any time, also after the file has arrived, since another
file may have failed.

A file is the set of its chunks; because each chunk is written to its
own offset, the file's size reaches the total as soon as the last chunk is there
(`FullSize`). `row` is the files row, whose key is the client's id over all uploads.
Two variables are bookkeeping: `failures` counts the attempts of the session that ended
with a broken connection or a 5xx, and `doubt` holds the sessions in which such an
attempt may have renamed `<id>.part`, or is still being handled and may yet rename it.
The chunk of that attempt does not matter: a request for any chunk that finds the file
full renames it.

`FileTransfer` states the contract with three variables: the server stores the file once
and keeps it, and a client that is told so has it stored, as long as it is not `unclear`
what became of an attempt that may have stored it. `ImplementsTransfer` checks
that every step of `ChunkAssembly` is one of `FileTransfer` or changes nothing of it, under
the mapping `stored <- row # 0 /\ temp[row] = Chunks`, `told <- phase`,
`unclear <- doubt # {}`.

### Sessions

A tab sends one request at a time; `pc` and `job` say where it is and what it has in
hand, and each action is one statement: `LoginCheck`, then `Issue`; `RefreshRead`,
`RefreshRevoke`, `Issue`; `ResetRead`, `ResetSet`, `ResetCut`; and `Deliver`, when the reply
sets or clears the cookie that all tabs of the browser share. `Logout`, `LogoutOthers`,
`ForgotPassword`, `UpdateOwnProfile` and the administrator's actions have one write that
counts. `row` is the table of refresh tokens, in the order of their creation. `RequestFails`,
`AnswerLost` and `Crash` are the faults. A password is the number of the change that set it.
`by`, `since`, `late` and `resetTo` are history: they are read by the properties only.

### OwnerAccess

One ready upload. `SettingsRead` and `SettingsWrite` are the two statements of
`UpdateSettingsBySecret`, for any number of requests (`form`); `TicketRead` and `TicketSign`
those of `IssueTicket`; `SweepList` and `SweepDestroy` those of `expireUploads`; `Admitted` is
`checkPasswordGate`. Instants are kept as the time that is left until them, so that `Tick`
needs no clock. `overtaken` and `age` are history.

### CryptFile and Packaging

`CryptFile` holds the format and its reader: a file is a sequence of cells, so that offsets are real
positions, and `readChunk`, `numChunks`, `WriteRange` compute them as `cryptfile.go` does;
`AfterChunk` is the body of `WriteRange`'s loop and `ChunkLoop` the loop, a recursive function
of the chunk it has read last. The
cipher is ideal: a sealed chunk opens only as a whole and under its own nonce, and a
nonce is the chunk's index modulo the counter's width.

`Packaging` is `writeFinalArtifact`: buildZip (or io.Copy) with `zip`, `file`, `unit`,
the pipe with `offer`, Encrypt with `enc`, `buf`, `index`, `total`; `ZipReturns` and
`PipeClose` are the goroutine's last two statements, and `CallerReturns` what the
request does after Encrypt. `ZipFails` and `EncFails` are all their errors; a call that
has failed may be repeated. `Download` answers every Range header from the finished
artifact, plain or encrypted.

### Settings

Each administrator has the page open (`page`) with a form loaded at some time, and at
most one request in the server: the read and the write of `saveSettings` (`SaveRead`,
`SaveWrite`), the social links that follow (`SocialWrite`), an import, or a branding
upload (`BrandRead`, `BrandWrite`). Four columns stand for all: one taken from the form
and normalised, the SMTP password that a blank does not overwrite, and two paths.

### Admission

The pages of one sender behind one address: `CreateCheck` and `CreateInsert`, the steps
of `Register` (`RegisterRead`, `RegisterCount`, `RegisterVerify`, `RegisterWrite`,
`AddReceiver`), `Finish`, and the page's retry after `RequestCode` and `Confirm`. A tick
of the clock is half an hour, the greatest common measure of both windows. What
`Register` reads of the settings is arbitrary, since an administrator may save at any
moment; that is where it meets `Settings`.

`MCAdmission` explores `Settings` and `Admission` in one run, as a sum and not as a
product: `part` chooses which of the two moves, and the other keeps its initial state.

## 4. The runs

| Run | Instance | Shows |
|---|---|---|
| `lifecycle` | 2 files, 2 calls of `complete()`, 1 owner delete, 1 self-destructing download, 1 cleanup job, 1 fault, 1 flip of `encrypt_files`; 1.6 million states | `ReadyServable`, `FilesAwaitComplete`, `CompleteInOrder`, `GoneForGood`, `YoungRowsStay`, `KeptWithoutCause` |
| `cleanup` | 1 file, 1 call, 1 admin destroy, 2 cleanup jobs, 1 fault | `ExpiredEventuallyGone`, `StuckEventuallyGone`, `ImplementsContract` |
| `delivery` | 3 requests, 2 receivers and a link, 1 fault; 2.5 million states | `DestroyedWithCause`, `ServedMeansDestroyed`, `NoOpenAfterDestroyed`, `SelfDestructHappens` |
| `chunks` | 2 chunks, 2 attempts, 2 sessions, any failures; 0.3 million states | `WaitsWhole`, `ToldIsStored`, `ImplementsTransfer`, `RetrySucceeds` |
| `sessions` | 1 user, 1 browser with 2 tabs, 3 tokens, 2 password changes, 1 fault; 3.3 million states | `SingleSuccessor`, `ResetEndsSessions`, `LinkDiesWithPassword`, `CookieUsable` |
| `owner` | 2 settings requests, 1 visitor, tickets and expiries of 2 ticks, 2 passwords; 5.8 million states | `OthersLeftAlone`, `PasswordBindsSoon`, `SweptWhenDue` |
| `packaging` | up to 2 files of up to 4 bytes, chunks of 2, 2 faults, all Range headers; 14 thousand states | `WholeOrError`, `RangesExact`, `CallReturns` |
| `admission` | 2 administrators, 2 edits; 2 pages, 2 codes, 1 recipient, limit 0 or 1; 3.4 million states | `OnlyWhatWasEdited`, `LimitHolds`, `RefusedOnlyUnproven` |
| `revival` | 1 file, 1 call, 1 owner delete | violates `DestroyedIsFinal` |
| `stale_key` | 1 file, 2 calls, 1 fault, 1 flip | violates `ReadyAlwaysServable` |
| `delivery_race` | 2 requests | violates `NeverDeletedUnderResponse` |
| `chunks_damage` | 2 chunks, 2 attempts | violates `ToldIsWhole` |

Bounds. Two files are what tells a zip from a single file, and let a chunk and a list
disagree. Two calls of `complete()` are a failed one and its retry, or two that race. One
owner delete and one download suffice for a removal before, between and after the
steps of another handler; the second destroyer races the first. One fault separates
any two steps; `MaxFaults`, `MaxToggles`, `MaxSessions` and `MaxAttempts` bound nothing
else. The client has `MaxAttempts` = 5 in the code; two are enough for a failure, a retry
and giving up, and two chunks for one that is missing from a file of full size: what a
third attempt or chunk adds is more of the same, and the theorems cover it. Three requests and two receivers give every receiver a request, and
one request more that overlaps. Files are interchangeable in the model, so `lifecycle`
takes their permutations as a symmetry; the liveness run does not. The theorems hold
for all bounds.

In `sessions` two tabs give every pair of overlapping requests of one browser, and three
tokens a login, its refresh and a second refresh of either. A second user would share no
row with the first; a second browser is left to the theorems, which hold for any number.
In `owner` a ticket of two ticks can be young,
old and expired around a change of password; `MaxStay` equals it so that either ends
first. In `packaging` two bytes per chunk and files of zero to four bytes give an empty
file, a partial, a full and a partial second chunk; headers and tags are made small but
kept, because the offsets depend on them; `NonceSpace` is larger than any number of
chunks here, as 2^32 is for files below 256 TiB. In `admission` the limit of one is
passed by two pages; the ages end at `Old`, which is past both windows.

`Delivery.cfg`, `ChunkAssembly.cfg`, `Sessions.cfg` and `OwnerAccess.cfg` do not check
for deadlock: all requests may have been answered, and bounds on tokens and passwords
may be used up. `Packaging.cfg` does not either: after an error of Encrypt the goroutine
may wait in the pipe for ever, which is what the code does (`CallReturns` states where).

### What the properties except

Some properties hold only with an exception that is in the code. Each is written into the
property, because it is what a reader of the code should know:

- `SingleSuccessor`: two refreshes that overlap may both be given a new token, because
  `Refresh` does not look at the number of rows that `Revoke` changed.
- `WaitsWhole`, `ToldIsStored`, `ImplementsTransfer` and `RetrySucceeds`: a session with
  an attempt that failed or was given up when it might have renamed `<id>.part`
  (`doubt`). Its file may be damaged, and the client be told that it has arrived
  (`chunks_damage`).
- `ResetEndsSessions`: a login or a refresh that has passed its check when the reset
  revokes the tokens inserts a live one afterwards (`late`).
- `CookieUsable`: "log out other sessions", sent while another tab refreshes, revokes
  the new token of the same browser (`Alone`); and a lost reply leaves the browser with
  a used one.
- `OthersLeftAlone`, `SweptWhenDue`, `OnlyWhatWasEdited`: a row read before somebody
  else's write is written back, or acted on, afterwards (`overtaken`, `raced`, `stale`).
- `PasswordBindsSoon`: tickets outlive a change of the password by their lifetime, and
  one that was being signed when it changed by a lifetime from then.
- `RefusedOnlyUnproven`: a code may be confirmed for an hour, but counts for half an
  hour from its creation; one confirmed in between proves nothing where the mode is
  "always".
- `RangesExact`: the download of an empty encrypted file does not complete, because
  `WriteRange` refuses the interval 0 to -1.
- `CallReturns`: if Encrypt ends with an error while buildZip has more to write, nobody
  reads the pipe and `writeFinalArtifact` waits for buildZip for ever.

### Findings

- **revival.** An owner may delete an upload that is still processing. If `complete()`
  is being handled, `MarkReady` sets the destroyed row to ready again.
- **stale_key.** `complete()` stores a key but never clears one. A call that ends after
  `StoreEncryptKey`, encryption switched off, and a second call give a ready upload with
  a plain artifact and a key; downloads then fail, because the key decides how the file
  is read. `ReadyServable` therefore assumes `Steady`: no flip, or no failure. The page
  repeats `complete()` for a session only through its verification step; other clients
  are free to.
- **delivery_race.** Of two admitted downloads of a self-destructing link, one may be
  answered 404 because the other has finished first. A download that has opened the file
  is safe, on platforms where an open file outlives its name.
- **chunks_damage.** Once an attempt at the last chunk has renamed `<id>.part`, a further
  attempt at that chunk opens a new one, which has the full size with only this chunk in
  it, and the second rename replaces the whole file. If the first attempt has not added
  the row (in the run the client has given it up while it was handled; a 500 from a
  failing INSERT does as well), the second one does, and the client is told that the file
  has arrived. If it has, and only its reply was lost, the client ends with an error for
  the duplicate id, and the files row refers to a damaged file.

Two more consequences that no document contradicts: a crash between the removal
of the temp files and `MarkReady` loses the upload (`FilesAwaitComplete` is stated for
runs without faults), and a page that starts over uses the same file ids, which the
primary key refuses once a file has been added (`RetrySucceeds` is stated for the
first session).

## 5. Fairness

- `UploadLifecycle`: weak fairness of each cleanup job's next step. `cron.New` with
  `@every` calls `RunAll` for as long as the server lives, and after a restart again; `RunAll`
  reports errors and goes on. No request has to come, so none is fair.
- `Delivery`: weak fairness of the handling of a request that has been accepted: its
  goroutine runs until the stream ends or the connection breaks.
- `ChunkAssembly`: weak fairness of the client's loop and of the server's handlers. The
  network is not fair, no step has to fail, and nobody has to start over. `RetrySucceeds`
  assumes that fewer attempts fail, by a broken connection or a 5xx, than a chunk has,
  and that none is refused.
- `Packaging`: weak fairness of the two goroutines of a call (`ZipStep`, `EncStep`) and of the
  return of the caller: a goroutine that can run is scheduled. Nobody has to begin a call,
  to repeat one, or to download, and no fault has to happen.

`Sessions`, `OwnerAccess`, `Settings` and `Admission` state no fairness, as they state
no liveness.

## 6. Proofs

`UploadLifecycleProofs` proves, for all sets of files, calls, destroyers and jobs, both
values of `Orderly`, and all bounds (from `LifecycleAssumption` only):

- `TypeCorrect`: `Spec => []TypeOK`;
- `CompletesInOrder`, `ReadyUploadsAreServable`: `Spec => []CompleteInOrder` and
  `Spec => []ReadyServable`;
- `GoneStaysGone`, `YoungRowsAreKept`, `NothingLostWithoutCause`: the action properties
  `GoneForGood`, `YoungRowsStay`, `KeptWithoutCause`.

`ReadyServable` is not inductive: that `MarkReady` may set "ready" depends on everything
`complete()` did before. The inductive invariant `UploadInv` says, for an orderly client:
one request is handled at a time and none once the upload is ready; the call's list is the
rows' list, unless they are gone; its open file is reachable exactly as long as the directory
exists; from "keying" on the artifact is whole; from "cleaning" on the key is stored;
and a plain artifact comes with no key, either because all calls read the same setting
(`KeyOfSetting`) or because a call that has stored a key reaches `MarkReady`
(`KeyOfCall`). Chunks preserve it because none is handled during `complete()`, removals
because they take the directory or the row away for good.

The action properties rest on `SweepsWithCause` (a job about to remove has seen the
upload expired, one about to delete has seen it stale, and time does not go back)
and `DirKept` (as long as nobody has a cause to remove it, the directory that
`complete()` created exists).

`FilesWaitForComplete` (`Spec => []FilesAwaitComplete`)
rests on `PurgesWithCause` (an old temp directory is purged only when the upload is
stale) and `AddedFilesWait` (for an orderly client without faults, a file that is about
to get its row is in the directory).

`UploadKeepsContract` (`Spec => ImplementsContract`) is the refinement of `UploadContract`. It
rests on `EffectsHaveCause` (a step that is not of `complete()` takes the directory or the row
away only from an upload that is unwanted or stale, and no cause goes away again), on
`WantedDirKept` (`DirKept` for an upload of any age) and on `ReadyServable`, which under its
condition makes `working` the same as a ready row with a directory; `ContractStep` maps each
action to one of the contract or to a stutter.

`DeliveryProofs` proves, for all sets of requests and receivers and any number of faults
(from `DeliveryAssumption`):

- `DeliveryTypeCorrect`: `Spec => []TypeOK`;
- `DestroysOnlyWithCause`: `Spec => []DestroyedWithCause`, by `CauseInv`: a grant's reason
  still holds when it is used, because the log only grows (`GrantsWithCause`); only a
  request that was granted and served removes and marks (`DestroysWhenServed`); and it
  neither asks nor streams again, so it remains the witness (`ServedIsOver`,
  `DestroyedByGrant`);
- `NothingOpenedAfterDestroyed`: `Spec => NoOpenAfterDestroyed`, by `FilesGoFirst`: without
  faults, the files are gone wherever the status is about to change or has changed;
- `LastServedDestroys`: `Spec => []ServedMeansDestroyed`, if there is a receiver at all
  (`Register` refuses a mail share without one). `LastInv` is about the receiver whose
  entry completes the log (`LastReceiverGrants`): none of its requests has decided before,
  since each decides after its own entry (`DecidesWhenLogged`), so all of them are granted;
  and one that is granted and served removes, then marks (`GrantedDestroys`). With the
  fairness of `Handle`, `SelfDestructHappens` follows.

`ChunkAssemblyProofs` (from `ChunkAssumption`), for any number of chunks, attempts and
sessions and every failure: `ChunkTypeCorrect`, `WaitingFilesAreWhole`,
`ToldFilesAreStored` and `UploadIsATransfer`, the refinement of `FileTransfer`. The
invariant `AssemblyInv` is about the sessions without doubt. In each of them at most one
request is handled, in the current session the one the client waits for
(`OneHandled`). As long as the row does not belong to another session (`Clean`), that
request finds the chunks before its own in the partial file, renames only a file with
all chunks, and adds the row of a whole one (`HandledInOrder`); the files are whole when
they are full, renamed, or have a row (`FilesWhole`), and the client sends in order
(`SentInOrder`). Later sessions are untouched (`Untouched`). In doubt or not, the last
chunk is answered 200 only by the request that adds the row (`LastIsRow`), which is why
a client that is told `done` has the row even in a session in doubt. `ClientStep` and
`ServerStep` carry the invariant over the steps of either side.

Two more are what `RetrySucceeds` rests on:
`FirstTriesAreEnough` (a waiting client waits for a request that is being handled or has
been answered, and no session is given up in which fewer attempts have failed than a
chunk has, unless it is refused), and `SessionsWearOut` (each step of the client and of
the request it waits for lowers the natural number `Work`, and within the session nothing
raises it, so that the number of such steps is bounded).

`SessionsProofs` (from `SessionsAssumption`), for any users, tabs, browsers and faults:
`SessionsTypeCorrect`; `OneSuccessorPerToken`, by `Parents` and `Hands`: a request that
holds a token saw it live, so all its successors are younger than the request;
`ResetEndsOlderSessions`, by `Outlive`: the same bound on a live row and on a request
that may still insert one; `LinksDieWithPasswords`, inductive by itself; and
`QuietCookiesAreUsable`, by `CookieInv`: a token is in the hands of one browser only, a
new one in those of one request, and a cookie whose token is used up has a request that
is about to replace it.

`OwnerAccessProofs` (from `OwnerAccessAssumption`): `OwnerTypeCorrect`,
`OthersAreLeftAlone`, `SweepWaitsForExpiry`, `NewPasswordBinds`. The row is
still what a request read that was not overtaken; and a ticket for another password,
unless it was overtaken, was signed before the change, so that its remaining life and the
password's age add up to no more than one lifetime.

`SettingsProofs` (from `SettingsAssumption`): `SettingsTypeCorrect` and
`WritesOnlyWhatWasEdited`. The invariant: a form that is not stale differs from the row
in the edited columns only, and a request that was not raced differs from it in the
columns it means to change only.

`AdmissionProofs` (from `AdmissionAssumption`): `AdmissionTypeCorrect`;
`ProvenSendersPass`; and `LimitCannotBeRaced`, by `LastSawAll`: in every set of pages
past the count, one (the last to count) has seen them all, because a row is there before
its page counts and ages, but never becomes younger. `LimitHolds` alone is not
inductive, since a row that ages out may be the one that had counted them.

`PackagingProofs` (from `FormatAssumption` and `PackagingAssumption`), for any number and
length of files and any sizes of chunk, tag and header:

- `PackagingTypeCorrect`, with the bounds of pipe and buffer and the size field that is
  written last;
- `ArtefactsAreWhole`: `Spec => []WholeOrError`, copied, zipped, encrypted or both. The
  inductive invariant is `Control` (how zip side, pipe and Encrypt move together) and
  `Written`: what the zip side has put out (`Emitted`) is the text that is sealed already,
  then the buffer, then the write in the pipe, and the first `index` chunks of the artifact
  are the seals of that text (`Sealed`);
- `RangeRoundTrip`: of any file of sealed chunks, `WriteRange` writes exactly the interval
  it is asked for; by a loop invariant over `ChunkLoop` (after each chunk the piece written
  is the interval up to the end of that chunk);
- `RangesAreExact`: `Spec => []RangesExact`, from both and the arithmetic of `Wanted`;
- `CallsGoOn` and `CallsWearOut`, what `CallReturns` rests on: a running call always has a
  step to take, except where Encrypt has failed and buildZip goes on writing; and each step
  lowers the natural number `Work`.

Where such a proof needs induction over data (the offsets of every chunk, the rounds of a
loop), it takes the least counterexample, which exists by the well-foundedness of the
naturals (`Least`), and shows that there is a smaller one; recursive functions are shown to
exist in the same way (`EntriesDef`).

Only model-checked: the liveness properties `SelfDestructHappens`, `ExpiredEventuallyGone`,
`StuckEventuallyGone`, `RetrySucceeds` and `CallReturns`. Fairness and ENABLED are outside the
prover's reach; of three of them, the part that is safety is proved, as said above.

## 7. What the models leave out

- `os.RemoveAll` removes all or nothing; each SQL statement and file call is atomic.
- An error means that the step had no effect, except for a truncated artifact, and
  except in `ChunkAssembly`, where a step may also fail after its effect.
- `ChunkAssembly`: a chunk that is written in part counts as not written, a crash of the
  server is a request that never goes on, and the removal of the temp files by cleanup
  or destroy is left to `UploadLifecycle`, which in turn takes a file in `storage/temp`
  as whole.
- `expires_at` is not extended in `UploadLifecycle`, so `expired` only becomes true;
  that it may be is the subject of `OwnerAccess`.
- Thumbnails, e-mails, broadcasts and audit entries.
- In `UploadLifecycle`, the checks that only refuse a request: size, type and number of
  files, access codes other than the owner's, and what `Admission` and `OwnerAccess`
  model.
- `Delivery` starts from a ready upload with its artifact; that it has one is what
  `UploadLifecycle` shows.
- Open files follow POSIX: they outlive their name. On Windows a removal would fail
  instead.
- `Sessions`: the update of a user's address and role, the rate limiter, and time (a
  token or a link may be found expired at any use; access tokens are taken at their
  word).
- `Settings`: backgrounds, and the columns that behave like one of the four.
- `Admission`: sender and recipients as addresses, blocked addresses of mail senders,
  the checks that only refuse (one failing step, `PageFails`).
- The WebSocket hub: broadcasts are written to each client in turn from within handlers;
  no other state depends on them.
- The components marked `not_modelled` in `PROJECT.json`, each with its reason.
