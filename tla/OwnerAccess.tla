----------------------------- MODULE OwnerAccess -----------------------------
(***************************************************************************)
(* What the owner of ONE upload may change about it once it is ready, whom *)
(* its password keeps out, and the sweep that reads its expiry:            *)
(* UpdateSettingsBySecret, DeleteBySecret, the download tickets, the gate  *)
(* in front of every download, and expireUploads.                          *)
(*                                                                         *)
(* A password is the number of the request that brought it, 0 if there is  *)
(* none.  An instant is given by the minutes until then, 0 once it is past,*)
(* so that the clock itself is no part of the state.  Codes are left out:  *)
(* every request here carries one that resolveAccess accepts for what it   *)
(* asks, and a ticket is used with the upload and code it was signed for.  *)
(***************************************************************************)
EXTENDS Naturals

CONSTANTS
    Forms,        \* settings requests of the owner, who may have several open
    Visitors,     \* people with a link
    TicketTTL,    \* a ticket's lifetime
    Never,        \* no expiry
    MaxStay,      \* bound: the longest expiry
    MaxPasswords  \* bound: passwords set

ASSUME OwnerAccessAssumption ==
    /\ TicketTTL \in Nat \ {0} /\ MaxStay \in Nat /\ MaxPasswords \in Nat
    /\ Never \notin Nat

VARIABLES
    status, password, expiry,  \* the row
    form,       \* settings requests: what each is about to write
    visit,      \* ticket requests: the password each has shown
    ticket,     \* each visitor's latest ticket
    sweep,      \* expireUploads
    passwords,  \* passwords brought so far
    age         \* how long the password has been as it is, up to TicketTTL

rowVars == <<status, password, expiry>>
vars == <<rowVars, form, visit, ticket, sweep, passwords, age>>

Expiries == {Never} \cup 0..MaxStay

\* overtaken: another settings request was written in between or, for a visit
\* and its ticket, the password was changed.
NoForm   == [at |-> "idle", password |-> 0, expiry |-> Never, setsPassword |-> FALSE,
             setsExpiry |-> FALSE, overtaken |-> FALSE]
NoVisit  == [at |-> "idle", shown |-> 0, overtaken |-> FALSE]
NoTicket == [shown |-> 0, left |-> 0, overtaken |-> FALSE]
NoSweep  == [at |-> "idle", overtaken |-> FALSE]

\* As Register leaves them.
Init ==
    /\ status = "ready" /\ expiry \in Expiries \ {0}
    /\ password = 0 /\ passwords = 0 /\ age = TicketTTL
    /\ form = [f \in Forms |-> NoForm]
    /\ visit = [v \in Visitors |-> NoVisit] /\ ticket = [v \in Visitors |-> NoTicket]
    /\ sweep = NoSweep

(* Time ********************************************************************)

Sooner(n) == IF n \in Nat \ {0} THEN n - 1 ELSE n

Tick ==
    /\ expiry' = Sooner(expiry)
    /\ form' = [f \in Forms |-> [form[f] EXCEPT !.expiry = Sooner(@)]]
    /\ ticket' = [v \in Visitors |-> [ticket[v] EXCEPT !.left = Sooner(@)]]
    /\ age' = IF age < TicketTTL THEN age + 1 ELSE age
    /\ UNCHANGED <<status, password, visit, sweep, passwords>>

(* UpdateSettingsBySecret **************************************************)

\* A field left out of the request is taken for an empty one.
PasswordsOrNone(asked) == IF asked THEN {0, passwords + 1} ELSE {0}

\* What the request makes of what it has read: a field left out keeps it.
NewPasswords(asked) == IF asked THEN {0, passwords + 1} ELSE {password}
NewExpiries(asked)  == IF asked THEN Expiries \ {0} ELSE {expiry}

SettingsRead(f) ==
    /\ form[f].at = "idle" /\ status = "ready"
    /\ \E setsPw, setsExp \in BOOLEAN :
       \E p \in NewPasswords(setsPw), e \in NewExpiries(setsExp) :
         /\ passwords' = IF setsPw /\ p # 0 THEN passwords + 1 ELSE passwords
         /\ passwords' <= MaxPasswords
         /\ form' = [form EXCEPT ![f] =
              [at |-> "writing", password |-> p, expiry |-> e, setsPassword |-> setsPw,
               setsExpiry |-> setsExp, overtaken |-> FALSE]]
    /\ UNCHANGED <<rowVars, visit, ticket, sweep, age>>

Overtake(jobs) == [x \in DOMAIN jobs |-> IF jobs[x].at = "idle" THEN jobs[x]
                                         ELSE [jobs[x] EXCEPT !.overtaken = TRUE]]

\* UpdateOwnerSettings: both columns, whatever the row is by now.
SettingsWrite(f) ==
    /\ form[f].at = "writing"
    /\ password' = form[f].password /\ expiry' = form[f].expiry
    /\ form' = [Overtake(form) EXCEPT ![f] = NoForm]
    /\ sweep' = [sweep EXCEPT !.overtaken = sweep.at = "listed"]
    /\ IF form[f].password # password
       THEN age' = 0 /\ visit' = Overtake(visit)
       ELSE UNCHANGED <<age, visit>>
    /\ UNCHANGED <<status, ticket, passwords>>

\* DeleteBySecret; Destroy's own steps are those of UploadLifecycle.
OwnerDeletes ==
    /\ status # "destroyed"
    /\ status' = "destroyed"
    /\ UNCHANGED <<password, expiry, form, visit, ticket, sweep, passwords, age>>

(* Tickets *****************************************************************)

\* IssueTicket reads the row, whatever its status, and checks the password.
TicketRead(v) ==
    /\ visit[v].at = "idle"
    /\ visit' = [visit EXCEPT ![v] =
                   [at |-> "signing", shown |-> password, overtaken |-> FALSE]]
    /\ UNCHANGED <<rowVars, form, ticket, sweep, passwords, age>>

\* IssueDownloadTicket.
LongLifetime == TicketTTL + 1
Lifetime == TicketTTL

TicketSign(v) ==
    /\ visit[v].at = "signing"
    /\ ticket' = [ticket EXCEPT ![v] = [shown |-> visit[v].shown, left |-> Lifetime,
                                        overtaken |-> visit[v].overtaken]]
    /\ visit' = [visit EXCEPT ![v] = NoVisit]
    /\ UNCHANGED <<rowVars, form, sweep, passwords, age>>

Signed(t) == t # NoTicket

\* ParseDownloadTicket.
TicketValid(t) == t.left > 0

\* checkPasswordGate, for Authorize (a download) and VerifyAccess (a thumbnail).
Admitted(v) ==
    /\ status = "ready"
    /\ password # 0 => TicketValid(ticket[v])

(* expireUploads ***********************************************************)

HasExpiry == status = "ready" /\ expiry # Never

\* GetExpired.
Due == status = "ready" /\ expiry # Never /\ expiry = 0

SweepList ==
    /\ sweep.at = "idle" /\ Due
    /\ sweep' = [at |-> "listed", overtaken |-> FALSE]
    /\ UNCHANGED <<rowVars, form, visit, ticket, passwords, age>>

\* Nothing looks at the row again.
SweepDestroy ==
    /\ sweep.at = "listed"
    /\ status' = "destroyed" /\ sweep' = NoSweep
    /\ UNCHANGED <<password, expiry, form, visit, ticket, passwords, age>>

Next ==
    \/ Tick
    \/ \E f \in Forms : SettingsRead(f) \/ SettingsWrite(f)
    \/ OwnerDeletes
    \/ \E v \in Visitors : TicketRead(v) \/ TicketSign(v)
    \/ SweepList \/ SweepDestroy

Spec == Init /\ [][Next]_vars

(***************************************************************************)
(* Properties.                                                             *)
(***************************************************************************)
FormType == [at : {"idle", "writing"}, password : 0..MaxPasswords, expiry : Expiries,
             setsPassword : BOOLEAN, setsExpiry : BOOLEAN, overtaken : BOOLEAN]
VisitType == [at : {"idle", "signing"}, shown : 0..MaxPasswords, overtaken : BOOLEAN]
TicketType == [shown : 0..MaxPasswords, left : 0..TicketTTL, overtaken : BOOLEAN]
TypeOK ==
    /\ status \in {"ready", "destroyed"}
    /\ password \in 0..MaxPasswords /\ expiry \in Expiries
    /\ form \in [Forms -> FormType]
    /\ visit \in [Visitors -> VisitType] /\ ticket \in [Visitors -> TicketType]
    /\ sweep \in [at : {"idle", "listed"}, overtaken : BOOLEAN]
    /\ passwords \in 0..MaxPasswords /\ age \in 0..TicketTTL

\* "password: nil leaves it unchanged", "expireSeconds: nil leaves expiry
\* unchanged" (download_service.go:290-294): true as long as no other settings
\* request is written between the two statements of this one.
OthersLeftAlone ==
    [][\A f \in Forms :
         form[f].at = "writing" /\ form'[f].at = "idle" /\ ~form[f].overtaken =>
             /\ ~form[f].setsPassword => password' = password
             /\ ~form[f].setsExpiry => expiry' = expiry]_vars

\* A new password binds everybody after the life of a ticket: who gets past it
\* without having shown it holds a ticket that was being signed when the
\* password changed, or one from before, less than a lifetime ago
\* (download_service.go:151-168, auth_service.go:366-378).
PasswordBindsSoon ==
    \A v \in Visitors :
        password # 0 /\ Admitted(v) /\ ticket[v].shown # password =>
            ticket[v].overtaken \/ age < TicketTTL

\* The sweep takes an upload before its time only if the owner has changed the
\* settings since the sweep listed it (cleanup_service.go:59-71).
SweptWhenDue ==
    [][sweep.at = "listed" /\ sweep'.at = "idle" /\ ~sweep.overtaken => expiry = 0]_vars

=============================================================================
