------------------------------ MODULE Admission ------------------------------
(***************************************************************************)
(* Who may upload: the page's way from CreateSession through Register to a *)
(* finished upload (app/page.tsx, upload_service.go), with the block list, *)
(* the hourly limit per address, the e-mail verification and its cleanup.  *)
(*                                                                         *)
(* All pages share one address and one sender, so that they share the      *)
(* limit and the verification.  One tick of the clock is thirty minutes:   *)
(* an age is counted in ticks, and Old stands for every later one.  The    *)
(* chunks between CreateSession and Register are left to UploadLifecycle.  *)
(***************************************************************************)
EXTENDS Naturals, FiniteSets

CONSTANTS
    Pages,       \* attempts to upload, each with a session of its own
    Codes,       \* bound: verification codes sent
    Recipients,  \* recipients of a mail upload
    MaxLimit     \* bound: the largest ip_upload_limit

ASSUME AdmissionAssumption ==
    /\ IsFiniteSet(Pages) /\ Recipients \in Nat /\ MaxLimit \in Nat

HalfHour == 1
Hour     == 2
Old      == 3
Ages     == 0 .. Old

VARIABLES
    blocked,  \* is the address on the block list?
    upload,   \* each page's row in uploads
    at,       \* where each page is
    read,     \* what each Register has read of the settings
    mails,    \* the e-mail verification rows
    receivers,\* rows added to receivers for each upload
    proven,   \* the sender has confirmed a code at some time
    fresh     \* pages that have confirmed a code of the last half hour just now

admissionVars == <<blocked, upload, at, read, mails, receivers, proven, fresh>>

Verification == {"false", "once", "always"}
\* What a Register has read; again: it is the retry after a confirmed code.
Reads == [verify : Verification, limit : 0 .. MaxLimit, again : BOOLEAN]
NoRow == [status |-> "none", age |-> 0]

AdmissionInit ==
    /\ blocked = FALSE
    /\ upload = [p \in Pages |-> NoRow] /\ at = [p \in Pages |-> "new"]
    /\ read = [p \in Pages |-> [verify |-> "false", limit |-> 0, again |-> FALSE]]
    /\ mails = [c \in Codes |-> NoRow]
    /\ receivers = [p \in Pages |-> 0]
    /\ proven = FALSE /\ fresh = {}

Goes(p, there) == at' = [at EXCEPT ![p] = there]

(* Sessions ****************************************************************)

\* IsBlocked, and later the insert (a fresh random id, tried five times).
CreateCheck(p) ==
    /\ at[p] = "new" /\ ~blocked
    /\ Goes(p, "creating")
    /\ UNCHANGED <<blocked, upload, read, mails, receivers, proven, fresh>>
CreateInsert(p) ==
    /\ at[p] = "creating"
    /\ upload' = [upload EXCEPT ![p] = [status |-> "processing", age |-> 0]]
    /\ Goes(p, "held")
    /\ UNCHANGED <<blocked, read, mails, receivers, proven, fresh>>

(* Register ****************************************************************)

\* The row must still be processing; the settings are read, any settings, since
\* an administrator may save others at any moment (module Settings).  Also the
\* retry after a confirmed code, which uploads nothing again.
RegisterRead(p) ==
    /\ at[p] \in {"held", "confirmed"} /\ upload[p].status = "processing"
    /\ \E s \in Reads : s.again = (at[p] = "confirmed") /\ read' = [read EXCEPT ![p] = s]
    /\ Goes(p, "counting")
    /\ UNCHANGED <<blocked, upload, mails, receivers, proven, fresh>>
RegisterRefused(p) ==
    /\ at[p] \in {"held", "confirmed"} /\ upload[p].status # "processing"
    /\ Goes(p, "failed")
    /\ UNCHANGED <<blocked, upload, read, mails, receivers, proven, fresh>>

\* CountByIPSince: all rows of the last hour, this one among them.
Exists(p) == upload[p].status # "none"
Registered(p) == upload[p].status \in {"registered", "ready"}
CountFinished == Cardinality({p \in Pages : Registered(p) /\ upload[p].age <= Hour})
CountByIPSince == Cardinality({p \in Pages : Exists(p) /\ upload[p].age <= Hour})

RegisterCount(p) ==
    /\ at[p] = "counting"
    /\ Goes(p, IF read[p].limit > 0 /\ CountByIPSince > read[p].limit
               THEN "failed" ELSE "verifying")
    /\ UNCHANGED <<blocked, upload, read, mails, receivers, proven, fresh>>

\* HasVerified: a code of the last half hour, or for "once" any code.
HasVerified(mode) ==
    \E c \in Codes : mails[c].status = "verified" /\ (mode = "always" => mails[c].age <= HalfHour)

RegisterVerify(p) ==
    /\ at[p] = "verifying"
    /\ Goes(p, IF read[p].verify = "false" \/ HasVerified(read[p].verify)
               THEN "writing" ELSE "unverified")
    /\ UNCHANGED <<blocked, upload, read, mails, receivers, proven, fresh>>

\* UPDATE uploads, without effect on a row that is gone.
RegisterWrite(p) ==
    /\ at[p] = "writing"
    /\ upload' = IF Exists(p) THEN [upload EXCEPT ![p].status = "registered"] ELSE upload
    /\ Goes(p, "adding")
    /\ UNCHANGED <<blocked, read, mails, receivers, proven, fresh>>

\* One insert per recipient, refused by the foreign key when the row is gone.
OneMore(p) == receivers[p] <= Recipients
MoreToAdd(p) == receivers[p] < Recipients
AddReceiver(p) ==
    /\ at[p] = "adding" /\ MoreToAdd(p) /\ Exists(p)
    /\ receivers' = [receivers EXCEPT ![p] = @ + 1]
    /\ UNCHANGED <<blocked, upload, at, read, mails, proven, fresh>>

\* The row read back, then the page's complete, which mails every receiver.
Finish(p) ==
    /\ at[p] = "adding" /\ ~MoreToAdd(p) /\ Exists(p)
    /\ upload' = [upload EXCEPT ![p].status = "ready"]
    /\ Goes(p, "done")
    /\ UNCHANGED <<blocked, read, mails, receivers, proven, fresh>>

\* An answer other than "email address not verified": a statement failed, the
\* sender is blocked, there are too many recipients, the row is gone.  The
\* sender may start a new attempt.
PageFails(p) ==
    /\ at[p] \in {"creating", "counting", "verifying", "writing", "adding"}
    /\ Goes(p, "failed")
    /\ UNCHANGED <<blocked, upload, read, mails, receivers, proven, fresh>>

(* E-mail verification *****************************************************)

\* On "email address not verified" the page asks for a code: a pending row.  It
\* does so once: the same error of the retry is shown as a wrong code, and ends
\* the attempt.
RequestCode(p, c) ==
    /\ at[p] = "unverified" /\ ~read[p].again /\ mails[c].status = "none"
    /\ mails' = [mails EXCEPT ![c] = [status |-> "pending", age |-> 0]]
    /\ Goes(p, "asked")
    /\ UNCHANGED <<blocked, upload, read, receivers, proven, fresh>>

\* ConfirmPending: a pending row of the last hour becomes verified; its
\* created_at stays.  The page registers once more.
Confirmable(c) == mails[c].status = "pending" /\ mails[c].age <= Hour
Confirm(p, c) ==
    /\ at[p] = "asked" /\ Confirmable(c)
    /\ mails' = [mails EXCEPT ![c].status = "verified"]
    /\ proven' = TRUE
    /\ fresh' = IF mails[c].age <= HalfHour THEN fresh \cup {p} ELSE fresh
    /\ Goes(p, "confirmed")
    /\ UNCHANGED <<blocked, upload, read, receivers>>

\* DeleteOldPending, and what it would be without its status.
OldRow(c) == mails[c].status # "none" /\ mails[c].age > Hour
OldPending(c) == mails[c].status = "pending" /\ mails[c].age > Hour
DeleteOldPending ==
    /\ \E c \in Codes : OldPending(c)
    /\ mails' = [c \in Codes |-> IF OldPending(c) THEN NoRow ELSE mails[c]]
    /\ UNCHANGED <<blocked, upload, at, read, receivers, proven, fresh>>

(* Surroundings ************************************************************)

\* An administrator adds the address to the block list (again), or removes it.
BlockIP ==
    /\ blocked' = TRUE
    /\ UNCHANGED <<upload, at, read, mails, receivers, proven, fresh>>
UnblockIP ==
    /\ blocked' = FALSE
    /\ UNCHANGED <<upload, at, read, mails, receivers, proven, fresh>>

\* The cleanup of stuck uploads (UploadLifecycle) deletes a row, with its receivers.
DropStuck(p) ==
    /\ upload[p].status \in {"processing", "registered"} /\ upload[p].age = Old
    /\ upload' = [upload EXCEPT ![p] = NoRow]
    /\ receivers' = [receivers EXCEPT ![p] = 0]
    /\ UNCHANGED <<blocked, at, read, mails, proven, fresh>>

Later(r) == IF r.status # "none" /\ r.age < Old THEN [r EXCEPT !.age = @ + 1] ELSE r
HalfHourPasses ==
    /\ upload' = [p \in Pages |-> Later(upload[p])]
    /\ mails' = [c \in Codes |-> Later(mails[c])]
    /\ fresh' = {}
    /\ UNCHANGED <<blocked, at, read, receivers, proven>>

AdmissionNext ==
    \/ \E p \in Pages :
         \/ CreateCheck(p) \/ CreateInsert(p)
         \/ RegisterRead(p) \/ RegisterRefused(p) \/ RegisterCount(p) \/ RegisterVerify(p)
         \/ RegisterWrite(p) \/ AddReceiver(p) \/ Finish(p) \/ PageFails(p) \/ DropStuck(p)
         \/ \E c \in Codes : RequestCode(p, c) \/ Confirm(p, c)
    \/ DeleteOldPending \/ BlockIP \/ UnblockIP \/ HalfHourPasses

AdmissionSpec == AdmissionInit /\ [][AdmissionNext]_admissionVars

-----------------------------------------------------------------------------
\* Types; receivers are never added twice, though the page may register twice.
Stages == {"new", "creating", "held", "counting", "verifying", "writing", "adding", "done",
           "failed", "unverified", "asked", "confirmed"}
AdmissionTypeOK ==
    /\ blocked \in BOOLEAN
    /\ upload \in [Pages -> [status : {"none", "processing", "registered", "ready"}, age : Ages]]
    /\ at \in [Pages -> Stages] /\ read \in [Pages -> Reads]
    /\ mails \in [Codes -> [status : {"none", "pending", "verified"}, age : Ages]]
    /\ receivers \in [Pages -> 0 .. Recipients]
    /\ proven \in BOOLEAN /\ fresh \subseteq Pages

\* The hourly limit cannot be raced: of the uploads from the address that were
\* created in the last hour and are registered, one was registered under a
\* limit that allows them all.  Every row is there before any of them counts;
\* an upload that counted before creating its row would let two through.
Recent(p) == Registered(p) /\ upload[p].age <= Hour
LimitHolds ==
    LET S == {p \in Pages : Recent(p)}
    IN  S # {} => \E p \in S : read[p].limit = 0 \/ Cardinality(S) <= read[p].limit

\* Register asks a sender for a code only if none is on record: under "once"
\* never again after the first confirmation, whatever the cleanup deletes, and
\* under "always" not when this page has just confirmed a code of the last half
\* hour.  (A code may be confirmed for an hour: one confirmed later than that
\* is accepted and then does not count.)
RefusedOnlyUnproven ==
    [][\A p \in Pages :
         at[p] = "verifying" /\ at'[p] = "unverified" =>
            /\ read[p].verify = "once" => ~proven
            /\ p \notin fresh]_admissionVars
=============================================================================
