------------------------------ MODULE Delivery ------------------------------
(***************************************************************************)
(* The downloads of ONE ready upload, GET /api/download/:uploadId/:code/   *)
(* file: DownloadService.Authorize, the streaming of the artifact, and the *)
(* self-destruction that the last bytes of a download may trigger.         *)
(*                                                                         *)
(* A request reads the row, logs itself, decides whether it will destroy,  *)
(* opens the file and streams it; none of these steps excludes another     *)
(* request.  Password and ticket are checked before the log and change     *)
(* nothing.  On the server's platform an open file outlives its name, so   *)
(* a download that has opened the artifact is not disturbed by its removal.*)
(***************************************************************************)
EXTENDS Naturals

CONSTANTS
    Readers,    \* download requests
    Receivers,  \* the receivers' addresses of an upload shared by mail
    Share,      \* a code that is no receiver's: the share code or the owner's
    MaxFaults   \* bound: failed SQL statements and file operations, and crashes

ASSUME DeliveryAssumption ==
    /\ Share \notin Receivers
    /\ MaxFaults \in Nat

VARIABLES
    destruct, byMail,  \* uploads.destruct, share_type = "mail"
    status,            \* uploads.status
    onDisk,            \* storage/uploads/<uploadId> is there
    logged,            \* the addresses in downloads for this upload
    pc,                \* where each request is
    code, full,        \* its code, and whether it has no Range header
    grant,             \* its ShouldDestroy
    sent,              \* how its transfer ended
    otherPc,           \* a Destroy by the owner, an administrator or a sweep
    faults

setup == <<destruct, byMail>>
vars  == <<setup, status, onDisk, logged, pc, code, full, grant, sent, otherPc, faults>>

Codes == {Share} \cup Receivers
Busy  == {"logging", "deciding", "opening", "streaming", "removing", "marking"}

\* resolveAccess.  Every upload has a share code; only a mail share has receivers.
Resolves(x) == x = Share \/ byMail

\* The log entry carries an address only for a receiver.
LogsCode(x) == {x}
Logs(x) == {x} \cap Receivers

\* HasAllReceiversDownloaded.
AnyReceiverDownloaded == logged # {}
HasAllReceiversDownloaded == Receivers \subseteq logged

ShouldDestroy == destruct /\ (byMail => HasAllReceiversDownloaded)

Init ==
    /\ destruct \in BOOLEAN /\ byMail \in BOOLEAN
    /\ status = "ready" /\ onDisk = TRUE /\ logged = {}
    /\ pc = [r \in Readers |-> "idle"]
    /\ code = [r \in Readers |-> Share]
    /\ full = [r \in Readers |-> FALSE]
    /\ grant = [r \in Readers |-> FALSE]
    /\ sent = [r \in Readers |-> "nothing"]
    /\ otherPc = "idle" /\ faults = 0

Goto(r, where) == pc' = [pc EXCEPT ![r] = where]

(* Authorize ***************************************************************)

Ask(r) ==
    /\ pc[r] = "idle" /\ status = "ready"
    /\ \E x \in Codes, whole \in BOOLEAN :
         /\ Resolves(x)
         /\ code' = [code EXCEPT ![r] = x]
         /\ full' = [full EXCEPT ![r] = whole]
    /\ Goto(r, "logging")
    /\ UNCHANGED <<setup, status, onDisk, logged, grant, sent, otherPc, faults>>

Log(r) ==
    /\ pc[r] = "logging"
    /\ logged' = logged \cup Logs(code[r])
    /\ Goto(r, "deciding")
    /\ UNCHANGED <<setup, status, onDisk, code, full, grant, sent, otherPc, faults>>

\* Decides on the log without the request's own entry.
DecideUnlogged(r) ==
    /\ pc[r] = "deciding"
    /\ grant' = [grant EXCEPT ![r] =
                   destruct /\ (byMail => Receivers \subseteq logged \ Logs(code[r]))]
    /\ Goto(r, "opening")
    /\ UNCHANGED <<setup, status, onDisk, logged, code, full, sent, otherPc, faults>>

Decide(r) ==
    /\ pc[r] = "deciding"
    /\ grant' = [grant EXCEPT ![r] = ShouldDestroy]
    /\ Goto(r, "opening")
    /\ UNCHANGED <<setup, status, onDisk, logged, code, full, sent, otherPc, faults>>

(* streamPlainFile, streamEncryptedFile ************************************)

\* Opens the artifact, or answers 404.
Open(r) ==
    /\ pc[r] = "opening"
    /\ Goto(r, IF onDisk THEN "streaming" ELSE "refused")
    /\ UNCHANGED <<setup, status, onDisk, logged, code, full, grant, sent, otherPc, faults>>

\* finalizeDestroy.
Destroys(r) == grant[r] /\ full[r]

\* The client goes away while bytes are copied: an error of CopyN or WriteRange.
StreamBreaks(r) ==
    /\ pc[r] = "streaming"
    /\ sent' = [sent EXCEPT ![r] = "broken"]
    /\ Goto(r, "done")
    /\ UNCHANGED <<setup, status, onDisk, logged, code, full, grant, otherPc, faults>>

\* All bytes are copied; the error of the final Flush is ignored, so the
\* client need not have got the last of them.
StreamEnds(r) ==
    /\ pc[r] = "streaming"
    /\ sent' = [sent EXCEPT ![r] = "copied"]
    /\ Goto(r, IF Destroys(r) THEN "removing" ELSE "done")
    /\ UNCHANGED <<setup, status, onDisk, logged, code, full, grant, otherPc, faults>>

(* Destroy *****************************************************************)

\* The status first, the files later.
MarkFirst(r) ==
    /\ pc[r] = "removing"
    /\ status' = "destroyed"
    /\ Goto(r, "marking")
    /\ UNCHANGED <<setup, onDisk, logged, code, full, grant, sent, otherPc, faults>>

Remove(r) ==
    /\ pc[r] = "removing"
    /\ onDisk' = FALSE
    /\ Goto(r, "marking")
    /\ UNCHANGED <<setup, status, logged, code, full, grant, sent, otherPc, faults>>

Mark(r) ==
    /\ pc[r] = "marking"
    /\ status' = "destroyed"
    /\ Goto(r, "done")
    /\ UNCHANGED <<setup, onDisk, logged, code, full, grant, sent, otherPc, faults>>

\* The same two steps, for the owner, an administrator or the cleanup.
OtherRemove ==
    /\ otherPc = "idle" /\ status = "ready"
    /\ onDisk' = FALSE /\ otherPc' = "marking"
    /\ UNCHANGED <<setup, status, logged, pc, code, full, grant, sent, faults>>

OtherMark ==
    /\ otherPc = "marking"
    /\ status' = "destroyed" /\ otherPc' = "done"
    /\ UNCHANGED <<setup, onDisk, logged, pc, code, full, grant, sent, faults>>

(* Faults ******************************************************************)

Fault == faults < MaxFaults /\ faults' = faults + 1

\* An error before the stream is answered with a 500.
RequestFails(r) ==
    /\ pc[r] \in {"logging", "deciding", "opening"} /\ Fault
    /\ Goto(r, "done")
    /\ UNCHANGED <<setup, status, onDisk, logged, code, full, grant, sent, otherPc>>

\* An error of HasAllReceiversDownloaded counts as "not yet".
CountFails(r) ==
    /\ pc[r] = "deciding" /\ destruct /\ byMail /\ Fault
    /\ Goto(r, "opening")
    /\ UNCHANGED <<setup, status, onDisk, logged, code, full, grant, sent, otherPc>>

\* Destroy ignores both of its errors.
DestroyFails(r) ==
    /\ pc[r] \in {"removing", "marking"} /\ Fault
    /\ Goto(r, IF pc[r] = "removing" THEN "marking" ELSE "done")
    /\ UNCHANGED <<setup, status, onDisk, logged, code, full, grant, sent, otherPc>>

Crash ==
    /\ Fault
    /\ pc' = [r \in Readers |-> IF pc[r] \in Busy THEN "done" ELSE pc[r]]
    /\ sent' = [r \in Readers |-> IF pc[r] = "streaming" THEN "broken" ELSE sent[r]]
    /\ otherPc' = IF otherPc = "marking" THEN "done" ELSE otherPc
    /\ UNCHANGED <<setup, status, onDisk, logged, code, full, grant>>

\* What the server does for a request it has accepted.
Handle(r) ==
    \/ Log(r) \/ Decide(r) \/ Open(r)
    \/ StreamBreaks(r) \/ StreamEnds(r)
    \/ Remove(r) \/ Mark(r)

Next ==
    \/ \E r \in Readers :
         Ask(r) \/ Handle(r) \/ RequestFails(r) \/ CountFails(r) \/ DestroyFails(r)
    \/ OtherRemove \/ OtherMark
    \/ Crash

\* An accepted request is run to its end: its stream ends or its connection
\* breaks.  Nobody has to send one.
Spec == Init /\ [][Next]_vars /\ \A r \in Readers : WF_vars(Handle(r))

(***************************************************************************)
(* Properties.                                                             *)
(***************************************************************************)
TypeOK ==
    /\ destruct \in BOOLEAN /\ byMail \in BOOLEAN
    /\ status \in {"ready", "destroyed"} /\ onDisk \in BOOLEAN
    /\ logged \in SUBSET Receivers
    /\ pc \in [Readers -> {"idle", "refused", "done"} \cup Busy]
    /\ code \in [Readers -> Codes] /\ full \in [Readers -> BOOLEAN]
    /\ grant \in [Readers -> BOOLEAN]
    /\ sent \in [Readers -> {"nothing", "broken", "copied"}]
    /\ otherPc \in {"idle", "marking", "done"}
    /\ faults \in 0..MaxFaults

\* Request r has had all bytes of the artifact copied to its connection.
Served(r) == full[r] /\ sent[r] = "copied"

\* Unless somebody else destroyed it, an upload is gone only because it is a
\* self-destructing one, some request without a Range has been served, and,
\* when it is shared by mail, every receiver is in the log, whichever requests
\* overlapped (download_service.go:254-264, download_handler.go:122-130).
Destroyed == ~onDisk \/ status = "destroyed"
DestroyedWithCause ==
    Destroyed /\ otherPc = "idle" =>
        /\ destruct
        /\ \E r \in Readers : Served(r)
        /\ byMail => Receivers \subseteq logged

\* No request starts to read the artifact of an upload already marked
\* destroyed: Destroy removes the files before it changes the status
\* (download_service.go:345-349).  A failed removal is excluded, see the README.
NoOpenAfterDestroyed ==
    [][\A r \in Readers :
         pc[r] = "opening" /\ pc'[r] = "streaming" /\ faults = 0 => status = "ready"]_vars

\* While the server runs, a self-destructing upload that everybody it is meant
\* for has been served does get destroyed: whichever request is logged last
\* sees all the others, although each decided on its own.
ServedToAll ==
    IF byMail THEN \A x \in Receivers : \E r \in Readers : code[r] = x /\ Served(r)
              ELSE \E r \in Readers : Served(r)
SelfDestructHappens ==
    [](faults = 0) => ((destruct /\ ServedToAll) ~> (~onDisk /\ status = "destroyed"))

\* The same of every moment: a self-destructing upload that everybody has been
\* served, and that no request is about to destroy, is destroyed already.
ServedMeansDestroyed ==
    /\ faults = 0 /\ destruct /\ ServedToAll
    /\ \A r \in Readers : pc[r] \notin {"removing", "marking"}
    => ~onDisk /\ status = "destroyed"

\* "A self-destructing download is never deleted out from under the response
\* that was supposed to serve it" (download_service.go:341-343): a request
\* that Authorize has admitted finds the file, unless the upload was destroyed
\* on somebody's demand.
NeverDeletedUnderResponse ==
    otherPc = "idle" => \A r \in Readers : pc[r] # "refused"

=============================================================================
