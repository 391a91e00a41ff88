------------------------------ MODULE Sessions ------------------------------
(***************************************************************************)
(* Accounts and sessions: AuthService, its handlers, and the admin's user  *)
(* management.  A browser keeps a refresh token in a cookie that all its   *)
(* tabs share; each use of the token rotates it.  Login, refresh, logout,  *)
(* the mailed password reset and the profile form are sequences of SQL     *)
(* statements of which nothing makes one transaction, so requests overlap  *)
(* between any two of them.                                                *)
(*                                                                         *)
(* A password is the number of the change that set it.  An account is      *)
(* named by its id; e-mail addresses, roles (an administrator is an account *)
(* that never asks for a link) and the mails themselves are left out.      *)
(* Time is left out too: a refresh token may turn out to have expired at   *)
(* any refresh, and a link past its hour is one that nobody uses.          *)
(***************************************************************************)
EXTENDS Naturals

CONSTANTS
    Users, NoUser, \* account ids
    Tabs,          \* pages that send requests, one at a time each
    Browsers,
    BrowserOf,     \* the browser of each tab
    MaxTokens,     \* bound: refresh tokens issued
    MaxPasswords,  \* bound: password changes
    MaxFaults      \* bound: failed statements, lost answers, crashes

ASSUME SessionsAssumption ==
    /\ NoUser \notin Users \cup Browsers
    /\ BrowserOf \in [Tabs -> Browsers]
    /\ MaxTokens \in Nat /\ MaxPasswords \in Nat /\ MaxFaults \in Nat

VARIABLES
    account,    \* users: whether the row is there
    pw,         \* password_hash
    link,       \* reset_token: NoLink, or the password it was to replace
    row,        \* refresh_tokens, by number in the order of their creation
    issued,     \* how many there are
    cookie,     \* each browser's refresh token, 0 when it has none
    pc, job,    \* where each tab's request is, and what it has in hand
    changes,    \* password changes so far
    resetTo,    \* of each account: the latest password set by a finished reset
    faults

users  == <<account, pw, link, changes, resetTo>>
tokens == <<row, issued>>
work   == <<pc, job>>
vars   == <<users, tokens, cookie, work, faults>>

NoLink == MaxPasswords + 1
Token  == 1..MaxTokens

\* "rotated" (by a refresh), "kicked" (by logging out others) and "revoked" are
\* all a row with revoked_at set; by is the browser that kicked it, unless that
\* browser had another request under way.  parent is the token it was
\* exchanged for, gen the password its session was opened with, since the
\* number of tokens when its request began, late whether a reset finished
\* while a request of its session was under way.
NoRow == [state |-> "none", user |-> NoUser, by |-> NoUser,
          parent |-> 0, gen |-> 0, since |-> 0, late |-> FALSE]
NoJob == [user |-> NoUser, tok |-> 0, gen |-> 0, since |-> 0,
          late |-> FALSE, answer |-> "keep"]

Live(t)  == row[t].state = "live"
There(u) == account[u] = "there"
Mine(r)  == cookie[BrowserOf[r]]

Init ==
    /\ account = [u \in Users |-> "new"]
    /\ pw = [u \in Users |-> 0] /\ link = [u \in Users |-> NoLink]
    /\ row = [t \in Token |-> NoRow] /\ issued = 0
    /\ cookie = [b \in Browsers |-> 0]
    /\ pc = [r \in Tabs |-> "idle"] /\ job = [r \in Tabs |-> NoJob]
    /\ changes = 0 /\ faults = 0
    /\ resetTo = [u \in Users |-> 0]

(* The statements of the repositories **************************************)

Dead(t, why, b) ==
    [row[t] EXCEPT !.state = why, !.by = b, !.gen = 0, !.late = FALSE]

Revoke(t, why) ==
    row' = [x \in Token |-> IF Live(x) /\ x = t THEN Dead(x, why, NoUser) ELSE row[x]]

\* For every row of the table; for none; the caller's own token too; and a
\* change of password that forgets the link: what the statements must not be.
RevokeAllRows(u) == row' = [t \in Token |-> Dead(t, "revoked", NoUser)]
RevokeNone(u) == UNCHANGED row
RevokeEvery(u, kept, b) ==
    row' = [t \in Token |-> IF Live(t) /\ row[t].user = u
                            THEN Dead(t, "kicked", b) ELSE row[t]]

RevokeAllForUser(u) ==
    row' = [t \in Token |-> IF Live(t) /\ row[t].user = u
                            THEN Dead(t, "revoked", NoUser) ELSE row[t]]

RevokeAllForUserExcept(u, kept, b) ==
    row' = [t \in Token |-> IF Live(t) /\ row[t].user = u /\ t # kept
                            THEN Dead(t, "kicked", b) ELSE row[t]]

\* By id, whatever the row is by now; no row, no effect.
ChangePasswordOnly(u) ==
    /\ changes < MaxPasswords /\ changes' = changes + 1
    /\ pw' = [pw EXCEPT ![u] = IF There(u) THEN changes + 1 ELSE @]
    /\ UNCHANGED <<account, link>>

UpdatePassword(u) ==
    /\ changes < MaxPasswords /\ changes' = changes + 1
    /\ pw' = [pw EXCEPT ![u] = IF There(u) THEN changes + 1 ELSE @]
    /\ link' = [link EXCEPT ![u] = IF There(u) THEN NoLink ELSE @]
    /\ UNCHANGED <<account>>

SetResetToken(u) ==
    /\ link' = [link EXCEPT ![u] = IF There(u) THEN pw[u] ELSE @]
    /\ UNCHANGED <<account, pw, changes, resetTo>>

(* Requests ****************************************************************)

Begin(r, where, j) ==
    /\ pc[r] = "idle"
    /\ pc' = [pc EXCEPT ![r] = where] /\ job' = [job EXCEPT ![r] = j]

Goto(r, where) == pc' = [pc EXCEPT ![r] = where]

End(r) == pc' = [pc EXCEPT ![r] = "idle"] /\ job' = [job EXCEPT ![r] = NoJob]

\* The reply of login, refresh or logout may set, clear or keep the cookie.
Answer(r, how) ==
    /\ pc' = [pc EXCEPT ![r] = "answering"]
    /\ job' = [job EXCEPT ![r].answer = how]

For(u) == [NoJob EXCEPT !.user = u]
Opening(u, gen) == [For(u) EXCEPT !.gen = gen]
Exchanging(t) ==
    [Opening(row[t].user, row[t].gen) EXCEPT !.tok = t, !.late = row[t].late, !.since = issued]

\* Login: the account by its address, and its password.
LoginCheck(r, u) ==
    /\ There(u)
    /\ Begin(r, "issuing", Opening(u, pw[u]))
    /\ UNCHANGED <<users, tokens, cookie, faults>>

\* The access token is signed, the refresh token inserted: its foreign key
\* fails if the account is gone.
Issue(r) ==
    /\ pc[r] = "issuing"
    /\ LET j == job[r] IN
       IF There(j.user)
       THEN /\ issued < MaxTokens /\ issued' = issued + 1
            /\ row' = [row EXCEPT ![issued + 1] =
                        [state |-> "live", user |-> j.user, by |-> NoUser, parent |-> j.tok,
                         gen |-> j.gen, since |-> j.since,
                         late |-> j.late]]
            /\ pc' = [pc EXCEPT ![r] = "answering"]
            /\ job' = [job EXCEPT ![r].answer = "set", ![r].tok = issued + 1]
       ELSE /\ Answer(r, IF j.tok = 0 THEN "keep" ELSE "clear")
            /\ UNCHANGED tokens
    /\ UNCHANGED <<users, cookie, faults>>

\* A refresh that does not look at the row.
RefreshReadAny(r) ==
    LET t == Mine(r) IN
    /\ t # 0
    /\ \/ Begin(r, "revoking", Exchanging(t))
       \/ Begin(r, "answering", [NoJob EXCEPT !.answer = "clear"])
    /\ UNCHANGED <<users, tokens, cookie, faults>>

\* Refresh: GetByHash, the test of revoked_at and expires_at, and GetByID (if
\* the account goes away in between, Issue ends in the same reply).
RefreshRead(r) ==
    LET t == Mine(r) IN
    /\ t # 0
    /\ \/ Live(t) /\ Begin(r, "revoking", Exchanging(t))
       \/ Begin(r, "answering", [NoJob EXCEPT !.answer = "clear"])
    /\ UNCHANGED <<users, tokens, cookie, faults>>

\* The number of rows that Revoke updated is not looked at.
RefreshRevoke(r) ==
    /\ pc[r] = "revoking"
    /\ Revoke(job[r].tok, "rotated")
    /\ Goto(r, "issuing")
    /\ UNCHANGED <<users, issued, cookie, job, faults>>

Logout(r) ==
    /\ Mine(r) # 0
    /\ Revoke(Mine(r), "revoked")
    /\ Begin(r, "answering", [NoJob EXCEPT !.answer = "clear"])
    /\ UNCHANGED <<users, issued, cookie, faults>>

\* RequireAuth: an access token is its bearer's word for a quarter of an hour,
\* whatever has become of the account and of its sessions.
Authenticated(u) == account[u] # "new"

Alone(r) == \A x \in Tabs \ {r} : BrowserOf[x] = BrowserOf[r] => pc[x] = "idle"

LogoutOthers(r, u) ==
    /\ pc[r] = "idle" /\ Authenticated(u) /\ Mine(r) # 0
    /\ RevokeAllForUserExcept(u, Mine(r), IF Alone(r) THEN BrowserOf[r] ELSE NoUser)
    /\ UNCHANGED <<users, issued, cookie, work, faults>>

\* ResetPassword: GetByResetToken, by the holder of the latest link.
ResetRead(r, u) ==
    /\ There(u) /\ link[u] # NoLink
    /\ Begin(r, "setting", For(u))
    /\ UNCHANGED <<users, tokens, cookie, faults>>

ResetSet(r) ==
    /\ pc[r] = "setting"
    /\ UpdatePassword(job[r].user)
    /\ pc' = [pc EXCEPT ![r] = "cutting"]
    /\ job' = [job EXCEPT ![r].gen = changes + 1]
    /\ UNCHANGED <<resetTo, tokens, cookie, faults>>

ResetCut(r) ==
    /\ pc[r] = "cutting"
    /\ LET u == job[r].user IN
       /\ RevokeAllForUser(u)
       /\ resetTo' = [resetTo EXCEPT ![u] = IF job[r].gen > @ THEN job[r].gen ELSE @]
       /\ job' = [x \in Tabs |-> CASE x = r -> NoJob
                                   [] pc[x] \in {"revoking", "issuing"} /\ job[x].user = u
                                        -> [job[x] EXCEPT !.late = TRUE]
                                   [] OTHER -> job[x]]
    /\ Goto(r, "idle")
    /\ UNCHANGED <<account, pw, link, changes, issued, cookie, faults>>

\* The reply reaches the tab; it and the next request of any tab see the
\* new cookie.
Deliver(r) ==
    /\ pc[r] = "answering"
    /\ cookie' = [cookie EXCEPT ![BrowserOf[r]] =
         CASE job[r].answer = "set" -> job[r].tok
           [] job[r].answer = "clear" -> 0
           [] OTHER -> @]
    /\ End(r)
    /\ UNCHANGED <<users, tokens, faults>>

(* Single changes of an account ********************************************)

\* ForgotPassword reads the account and then writes the link, UpdateOwnProfile
\* checks the current password and then writes the new one, both by id: only
\* the write counts.
ForgotPassword(u) ==
    /\ There(u)
    /\ SetResetToken(u)
    /\ UNCHANGED <<tokens, cookie, work, faults>>

\* Sessions are kept, on purpose.
UpdateOwnProfile(u) ==
    /\ Authenticated(u)
    /\ UpdatePassword(u)
    /\ UNCHANGED <<resetTo, tokens, cookie, work, faults>>

AdminCreate(u) ==
    /\ account[u] = "new"
    /\ account' = [account EXCEPT ![u] = "there"]
    /\ UNCHANGED <<pw, link, changes, resetTo, tokens, cookie, work, faults>>

AdminSetPassword(u) ==
    /\ UpdatePassword(u)
    /\ UNCHANGED <<resetTo, tokens, cookie, work, faults>>

\* The schema deletes the account's refresh tokens with it.
AdminDelete(u) ==
    /\ There(u)
    /\ account' = [account EXCEPT ![u] = "deleted"]
    /\ link' = [link EXCEPT ![u] = NoLink]
    /\ row' = [t \in Token |-> IF row[t].user = u THEN Dead(t, "revoked", NoUser)
                               ELSE row[t]]
    /\ UNCHANGED <<pw, changes, resetTo, issued, cookie, work, faults>>

(* Faults ******************************************************************)

Fault == faults < MaxFaults /\ faults' = faults + 1

\* A statement fails.  The handler of refresh clears the cookie on any error.
RequestFails(r) ==
    /\ pc[r] \notin {"idle", "answering"} /\ Fault
    /\ Answer(r, IF job[r].tok # 0 THEN "clear" ELSE "keep")
    /\ UNCHANGED <<users, tokens, cookie>>

\* The reply is lost: the server has done its work, the browser sees none of it.
AnswerLost(r) ==
    /\ pc[r] = "answering" /\ Fault
    /\ End(r)
    /\ UNCHANGED <<users, tokens, cookie>>

Crash ==
    /\ Fault
    /\ pc' = [r \in Tabs |-> "idle"] /\ job' = [r \in Tabs |-> NoJob]
    /\ UNCHANGED <<users, tokens, cookie>>

Next ==
    \/ \E r \in Tabs :
         \/ \E u \in Users : LoginCheck(r, u) \/ LogoutOthers(r, u) \/ ResetRead(r, u)
         \/ RefreshRead(r) \/ RefreshRevoke(r) \/ Issue(r) \/ Logout(r)
         \/ ResetSet(r) \/ ResetCut(r)
         \/ Deliver(r) \/ RequestFails(r) \/ AnswerLost(r)
    \/ \E u \in Users : \/ ForgotPassword(u) \/ UpdateOwnProfile(u)
                       \/ AdminCreate(u) \/ AdminSetPassword(u) \/ AdminDelete(u)
    \/ Crash

Spec == Init /\ [][Next]_vars

(***************************************************************************)
(* Properties.                                                             *)
(***************************************************************************)
RowType == [state : {"none", "live", "rotated", "kicked", "revoked"},
            user : Users \cup {NoUser}, by : Browsers \cup {NoUser}, parent : 0..MaxTokens,
            gen : 0..MaxPasswords, since : 0..MaxTokens, late : BOOLEAN]
JobType == [user : Users \cup {NoUser}, tok : 0..MaxTokens, gen : 0..MaxPasswords,
            since : 0..MaxTokens, late : BOOLEAN, answer : {"keep", "set", "clear"}]
TypeOK ==
    /\ account \in [Users -> {"new", "there", "deleted"}]
    /\ pw \in [Users -> 0..MaxPasswords] /\ link \in [Users -> 0..MaxPasswords + 1]
    /\ row \in [Token -> RowType] /\ issued \in 0..MaxTokens
    /\ cookie \in [Browsers -> 0..MaxTokens]
    /\ pc \in [Tabs -> {"idle", "issuing", "revoking", "setting", "cutting", "answering"}]
    /\ job \in [Tabs -> JobType]
    /\ changes \in 0..MaxPasswords /\ faults \in 0..MaxFaults
    /\ resetTo \in [Users -> 0..MaxPasswords]
    /\ \A t \in Token : t > issued <=> row[t].state = "none"

\* A refresh token is exchanged twice only by requests that overlap: whoever
\* begins after its successor exists is refused (auth_service.go:192, 201).
SingleSuccessor ==
    \A s, t \in 1..issued :
        s < t /\ row[s].parent = row[t].parent /\ row[t].parent # 0 => row[t].since < s

\* "Reset invalidates all existing sessions" (auth_service.go:303): once a
\* reset by mail has finished, a live session was opened with its password or
\* a later one, or belongs to a request that was under way when it finished.
ResetEndsSessions ==
    \A t \in 1..issued :
        Live(t) => row[t].gen >= resetTo[row[t].user] \/ row[t].late

\* A link mailed by ForgotPassword dies with the password it was to replace,
\* whoever changes that and in whatever order (user_repository.go:71-79).
LinkDiesWithPassword ==
    \A u \in Users : link[u] # NoLink => There(u) /\ link[u] = pw[u]

\* While no answer is lost, a browser between two requests never holds a
\* token that its own refresh has used up; and it has never signed itself out
\* with "log out other sessions", which leaves "exceptTokenHash's session (the
\* caller's own) logged in" (refresh_token_repository.go:65-67), unless it did
\* so with a refresh under way, whose new token that then takes for another's.
Quiet(b) == \A r \in Tabs : BrowserOf[r] = b => pc[r] = "idle"
CookieUsable ==
    \A b \in Browsers :
        Quiet(b) /\ cookie[b] # 0 /\ faults = 0 =>
            row[cookie[b]].state # "rotated" /\ row[cookie[b]].by # b

=============================================================================
