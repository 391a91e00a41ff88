---------------------------- MODULE SessionsProofs ----------------------------
(***************************************************************************)
(* Theorems about Sessions, for every set of users, tabs and browsers, any *)
(* number of tokens, password changes and faults.                          *)
(***************************************************************************)
EXTENDS Sessions, TLAPS

(***************************************************************************)
(* What becomes of the rows of refresh_tokens: a refresh or a login adds   *)
(* one, every other step only lets rows die, and a dead row stays dead.    *)
(***************************************************************************)
Gone == {"rotated", "kicked", "revoked"}
Fades(t) ==
    \/ row'[t] = row[t]
    \/ /\ row[t].state # "none" /\ row'[t].state \in Gone
       /\ row'[t].user = row[t].user /\ row'[t].parent = row[t].parent
       /\ row'[t].since = row[t].since
RowsFade == row' \in [Token -> RowType] /\ \A t \in Token : Fades(t)

\* No token that has not been issued belongs to anybody.
Unissued == \A t \in Token : t > issued => row[t] = NoRow
Owned    == \A t \in Token : t <= issued => row[t].user \in Users

LEMMA DeadFades ==
  ASSUME TypeOK, NEW t \in Token, NEW why \in Gone, NEW b \in Browsers \cup {NoUser}
  PROVE  /\ Dead(t, why, b) \in RowType
         /\ Dead(t, why, b).state = why /\ Dead(t, why, b).user = row[t].user
         /\ Dead(t, why, b).parent = row[t].parent /\ Dead(t, why, b).since = row[t].since
<1>1. row[t] \in RowType
  BY DEF TypeOK
<1>2. 0 \in 0 .. MaxPasswords
  BY SessionsAssumption
<1>3. why \in {"none", "live", "rotated", "kicked", "revoked"}
  BY DEF Gone
<1> QED
  BY <1>1, <1>2, <1>3 DEF Dead, RowType

LEMMA RevokeFades ==
  ASSUME TypeOK, NEW t, Revoke(t, "rotated") \/ Revoke(t, "revoked") PROVE RowsFade
<1>1. PICK why \in Gone : Revoke(t, why)
  BY DEF Gone
<1> QED
  BY <1>1, DeadFades DEF Revoke, RowsFade, Fades, Live, TypeOK, Token

LEMMA RevokeAllFades ==
  ASSUME TypeOK, NEW u, RevokeAllForUser(u) PROVE RowsFade
<1>1. "revoked" \in Gone
  BY DEF Gone
<1> QED
  BY <1>1, DeadFades DEF RevokeAllForUser, RowsFade, Fades, Live, TypeOK, Token

LEMMA RevokeExceptFades ==
  ASSUME TypeOK, NEW u, NEW k, NEW b \in Browsers \cup {NoUser},
         RevokeAllForUserExcept(u, k, b)
  PROVE RowsFade
<1>1. "kicked" \in Gone
  BY DEF Gone
<1> QED
  BY <1>1, DeadFades DEF RevokeAllForUserExcept, RowsFade, Fades, Live, TypeOK, Token

LEMMA DeleteFades ==
  ASSUME TypeOK, Unissued, NEW u \in Users, AdminDelete(u) PROVE RowsFade
<1>1. "revoked" \in Gone
  BY DEF Gone
<1>2. row' = [t \in Token |-> IF row[t].user = u THEN Dead(t, "revoked", NoUser) ELSE row[t]]
  BY DEF AdminDelete
<1>3. \A t \in Token : row[t].user = u => row[t].state # "none"
  <2> SUFFICES ASSUME NEW t \in Token, row[t].user = u, row[t].state = "none" PROVE FALSE
    OBVIOUS
  <2>1. t > issued
    BY DEF TypeOK
  <2> QED
    BY <2>1, SessionsAssumption DEF Unissued, NoRow
<1> QED
  BY <1>1, <1>2, <1>3, DeadFades DEF RowsFade, Fades, TypeOK

LEMMA FadedRows ==
  ASSUME TypeOK, Unissued, Owned, RowsFade, issued' = issued
  PROVE  /\ \A t \in Token : t > issued' <=> row'[t].state = "none"
         /\ Unissued' /\ Owned'
  BY DEF TypeOK, Unissued, Owned, RowsFade, Fades, Gone, Token, NoRow

LEMMA NoJobTyped == NoJob \in JobType
  BY SessionsAssumption DEF NoJob, JobType

LEMMA NewJobTyped ==
  ASSUME TypeOK, NEW u \in Users PROVE For(u) \in JobType /\ Opening(u, pw[u]) \in JobType
<1>1. For(u) \in JobType
  BY NoJobTyped DEF For, JobType
<1> QED
  BY <1>1 DEF Opening, JobType, TypeOK

LEMMA ExchangingTyped ==
  ASSUME TypeOK, NEW t \in Token
  PROVE  /\ Exchanging(t) \in JobType
         /\ Exchanging(t).user = row[t].user /\ Exchanging(t).tok = t
         /\ Exchanging(t).gen = row[t].gen /\ Exchanging(t).late = row[t].late
         /\ Exchanging(t).since = issued
<1>1. row[t] \in RowType /\ issued \in 0 .. MaxTokens /\ t \in 0 .. MaxTokens
  BY SessionsAssumption DEF TypeOK, Token
<1>2. Opening(row[t].user, row[t].gen) \in JobType
  BY <1>1, NoJobTyped DEF Opening, For, JobType, RowType
<1>3. row[t].late \in BOOLEAN /\ row[t].user \in Users \cup {NoUser} /\ row[t].gen \in 0 .. MaxPasswords
  BY <1>1 DEF RowType
<1>4. Opening(row[t].user, row[t].gen).user = row[t].user /\ Opening(row[t].user, row[t].gen).gen = row[t].gen
  BY NoJobTyped DEF Opening, For, JobType
<1>5. Exchanging(t) \in JobType
  BY <1>1, <1>2, <1>3 DEF Exchanging, JobType
<1> QED
  BY <1>1, <1>2, <1>3, <1>4, <1>5 DEF Exchanging, JobType


(***************************************************************************)
(* Types.                                                                  *)
(***************************************************************************)
Works == {"issuing", "revoking", "setting", "cutting"}
JobsOfUsers == \A r \in Tabs : pc[r] \in Works => job[r].user \in Users
Typed == TypeOK /\ Unissued /\ Owned /\ JobsOfUsers

LEMMA BeginTyped ==
  ASSUME Typed, NEW r \in Tabs, NEW j \in JobType, j.user \in Users,
         Begin(r, "issuing", j) \/ Begin(r, "revoking", j) \/ Begin(r, "setting", j)
  PROVE  /\ pc' \in [Tabs -> {"idle", "issuing", "revoking", "setting", "cutting", "answering"}]
         /\ job' \in [Tabs -> JobType] /\ JobsOfUsers'
  BY DEF Typed, TypeOK, JobsOfUsers, Begin

LEMMA AnswerTyped ==
  ASSUME Typed, NEW r \in Tabs,
         \/ Answer(r, "set") \/ Answer(r, "keep") \/ Answer(r, "clear")
         \/ Begin(r, "answering", [NoJob EXCEPT !.answer = "clear"])
         \/ End(r)
  PROVE  /\ pc' \in [Tabs -> {"idle", "issuing", "revoking", "setting", "cutting", "answering"}]
         /\ job' \in [Tabs -> JobType] /\ JobsOfUsers'
<1>1. \A how \in {"set", "keep", "clear"} :
        [job EXCEPT ![r].answer = how] \in [Tabs -> JobType]
  BY DEF Typed, TypeOK, JobType
<1>2. NoJob \in JobType /\ [NoJob EXCEPT !.answer = "clear"] \in JobType
  BY NoJobTyped DEF JobType
<1> QED
  BY <1>1, <1>2 DEF Typed, TypeOK, JobsOfUsers, Answer, Begin, End, Works

LEMMA PasswordTyped ==
  ASSUME Typed, NEW u \in Users, UpdatePassword(u)
  PROVE  /\ account' = account /\ pw' \in [Users -> 0..MaxPasswords]
         /\ link' \in [Users -> 0..MaxPasswords + 1] /\ changes' \in 0..MaxPasswords
  BY SessionsAssumption DEF Typed, TypeOK, UpdatePassword, NoLink

LEMMA IssueTyped ==
  ASSUME Typed, NEW r \in Tabs, Issue(r), There(job[r].user)
  PROVE  /\ issued' = issued + 1 /\ issued' \in Token /\ issued \in Nat
         /\ row'[issued'].user = job[r].user /\ row'[issued'].parent = job[r].tok
         /\ row'[issued'].gen = job[r].gen /\ row'[issued'].since = job[r].since
         /\ row'[issued'].late = job[r].late /\ row'[issued'].state = "live"
         /\ \A t \in Token : t # issued' => row'[t] = row[t]
         /\ row' \in [Token -> RowType] /\ job[r].user \in Users
         /\ \A x \in Tabs : x # r => pc'[x] = pc[x] /\ job'[x] = job[x]
         /\ pc'[r] = "answering"
         /\ pc' \in [Tabs -> {"idle", "issuing", "revoking", "setting", "cutting", "answering"}]
         /\ job' \in [Tabs -> JobType] /\ JobsOfUsers'
<1>1. job[r] \in JobType /\ job[r].user \in Users
  BY DEF Typed, TypeOK, Issue, JobsOfUsers, Works
<1>2. issued' = issued + 1 /\ issued' \in Token /\ issued \in Nat /\ issued + 1 \in 0 .. MaxTokens
  BY SessionsAssumption DEF Issue, Typed, TypeOK, Token
<1> DEFINE new == [state |-> "live", user |-> job[r].user, by |-> NoUser,
                   parent |-> job[r].tok, gen |-> job[r].gen, since |-> job[r].since,
                   late |-> job[r].late]
<1>3. new \in RowType
  BY <1>1 DEF JobType, RowType
<1>4. /\ row' = [row EXCEPT ![issued + 1] = new]
      /\ pc' = [pc EXCEPT ![r] = "answering"]
      /\ job' = [job EXCEPT ![r].answer = "set", ![r].tok = issued + 1]
  BY DEF Issue
<1>5. row'[issued'] = new /\ row' \in [Token -> RowType]
      /\ \A t \in Token : t # issued' => row'[t] = row[t]
  BY <1>2, <1>3, <1>4 DEF Typed, TypeOK
<1>6. job' \in [Tabs -> JobType]
  BY <1>1, <1>2, <1>4 DEF Typed, TypeOK, JobType
<1> QED
  BY <1>1, <1>2, <1>4, <1>5, <1>6 DEF Typed, TypeOK, JobsOfUsers, Works

LEMMA CutTyped ==
  ASSUME Typed, NEW r \in Tabs, ResetCut(r)
  PROVE  /\ job'[r] = NoJob /\ pc' = [pc EXCEPT ![r] = "idle"]
         /\ \A x \in Tabs : x # r =>
              \/ job'[x] = job[x]
                 /\ ~(pc[x] \in {"revoking", "issuing"} /\ job[x].user = job[r].user)
              \/ job'[x] = [job[x] EXCEPT !.late = TRUE]
         /\ job' \in [Tabs -> JobType]
         /\ pc' \in [Tabs -> {"idle", "issuing", "revoking", "setting", "cutting", "answering"}]
         /\ JobsOfUsers'
         /\ resetTo' \in [Users -> 0..MaxPasswords] /\ RowsFade
<1>1. /\ job'[r] = NoJob /\ pc' = [pc EXCEPT ![r] = "idle"]
      /\ \A x \in Tabs : x # r =>
           job'[x] = IF pc[x] \in {"revoking", "issuing"} /\ job[x].user = job[r].user
                     THEN [job[x] EXCEPT !.late = TRUE] ELSE job[x]
      /\ job' = [x \in Tabs |-> job'[x]]
  BY DEF ResetCut, Goto
<1>2. \A x \in Tabs : [job[x] EXCEPT !.late = TRUE] \in JobType
  BY DEF Typed, TypeOK, JobType
<1>3. job' \in [Tabs -> JobType]
  <2>1. \A x \in Tabs : job'[x] \in JobType
    BY <1>1, <1>2, NoJobTyped DEF Typed, TypeOK
  <2> QED
    BY <1>1, <2>1
<1>4. pc' \in [Tabs -> {"idle", "issuing", "revoking", "setting", "cutting", "answering"}]
  BY <1>1 DEF Typed, TypeOK
<1>5. JobsOfUsers'
  <2> SUFFICES ASSUME NEW x \in Tabs, pc'[x] \in Works PROVE job'[x].user \in Users
    BY DEF JobsOfUsers
  <2>1. x # r /\ pc'[x] = pc[x]
    BY <1>1 DEF Typed, TypeOK, Works
  <2>2. job[x].user \in Users /\ job[x] \in JobType
    BY <2>1 DEF Typed, TypeOK, JobsOfUsers
  <2> QED
    BY <1>1, <2>1, <2>2 DEF JobType
<1>6. resetTo' \in [Users -> 0..MaxPasswords]
  <2>1. job[r].gen \in 0..MaxPasswords
    BY DEF Typed, TypeOK, JobType
  <2> QED
    BY <2>1 DEF ResetCut, Typed, TypeOK
<1>7. RowsFade
  BY RevokeAllFades DEF ResetCut, Typed
<1> QED
  BY <1>1, <1>3, <1>4, <1>5, <1>6, <1>7

LEMMA TypedInit == Init => Typed
  BY SessionsAssumption, NoJobTyped
  DEF Init, Typed, TypeOK, Unissued, Owned, JobsOfUsers, Works, NoRow, NoLink, RowType, Token

LEMMA TypedStep == Typed /\ [Next]_vars => Typed'
<1> SUFFICES ASSUME Typed, [Next]_vars PROVE Typed'
  OBVIOUS
<1> USE SessionsAssumption DEF users, tokens, work
<1>0. TypeOK /\ Unissued /\ Owned
  BY DEF Typed
<1>1. ASSUME NEW r \in Tabs, NEW u \in Users,
             LoginCheck(r, u) \/ LogoutOthers(r, u) \/ ResetRead(r, u)
      PROVE  Typed'
  <2>1. CASE LoginCheck(r, u) \/ ResetRead(r, u)
    <3>1. For(u).user = u /\ Opening(u, pw[u]).user = u
      BY NoJobTyped DEF For, Opening, NoJob
    <3>2. /\ pc' \in [Tabs -> {"idle", "issuing", "revoking", "setting", "cutting", "answering"}]
          /\ job' \in [Tabs -> JobType] /\ JobsOfUsers'
      BY <1>0, <2>1, <3>1, NewJobTyped, BeginTyped DEF LoginCheck, ResetRead
    <3> QED
      BY <2>1, <3>2 DEF LoginCheck, ResetRead, Typed, TypeOK, Unissued, Owned
  <2>2. CASE LogoutOthers(r, u)
    <3>1. RowsFade /\ issued' = issued
      <4>1. BrowserOf[r] \in Browsers
        OBVIOUS
      <4> QED
        BY <1>0, <2>2, <4>1, RevokeExceptFades DEF LogoutOthers
    <3>2. /\ \A t \in Token : t > issued' <=> row'[t].state = "none"
          /\ Unissued' /\ Owned'
      BY <1>0, <3>1, FadedRows
    <3> QED
      BY <2>2, <3>1, <3>2 DEF LogoutOthers, Typed, TypeOK, JobsOfUsers, RowsFade
  <2> QED
    BY <1>1, <2>1, <2>2
<1>2. ASSUME NEW r \in Tabs, RefreshRead(r) PROVE Typed'
  <2>1. Mine(r) \in Token
    BY <1>2 DEF RefreshRead, Mine, Typed, TypeOK, Token
  <2>2. CASE Live(Mine(r)) /\ Begin(r, "revoking", Exchanging(Mine(r)))
    <3>1. Mine(r) <= issued
      BY <2>1, <2>2 DEF Live, Typed, TypeOK, Token
    <3>2. Exchanging(Mine(r)) \in JobType /\ Exchanging(Mine(r)).user \in Users
      BY <1>0, <2>1, <3>1, ExchangingTyped DEF Owned
    <3>3. /\ pc' \in [Tabs -> {"idle", "issuing", "revoking", "setting", "cutting", "answering"}]
          /\ job' \in [Tabs -> JobType] /\ JobsOfUsers'
      BY <2>2, <3>2, BeginTyped
    <3> QED
      BY <1>2, <3>3 DEF RefreshRead, Typed, TypeOK, Unissued, Owned
  <2>3. CASE Begin(r, "answering", [NoJob EXCEPT !.answer = "clear"])
    <3>1. /\ pc' \in [Tabs -> {"idle", "issuing", "revoking", "setting", "cutting", "answering"}]
          /\ job' \in [Tabs -> JobType] /\ JobsOfUsers'
      BY <2>3, AnswerTyped
    <3> QED
      BY <1>2, <3>1 DEF RefreshRead, Typed, TypeOK, Unissued, Owned
  <2> QED
    BY <1>2, <2>2, <2>3 DEF RefreshRead
<1>3. ASSUME NEW r \in Tabs, RefreshRevoke(r) PROVE Typed'
  <2>1. RowsFade /\ issued' = issued
    BY <1>0, <1>3, RevokeFades DEF RefreshRevoke
  <2>2. /\ \A t \in Token : t > issued' <=> row'[t].state = "none"
        /\ Unissued' /\ Owned'
    BY <1>0, <2>1, FadedRows
  <2>3. JobsOfUsers'
    BY <1>3 DEF RefreshRevoke, Goto, JobsOfUsers, Typed, TypeOK, Works
  <2> QED
    BY <1>3, <2>1, <2>2, <2>3 DEF RefreshRevoke, Goto, Typed, TypeOK, RowsFade
<1>4. ASSUME NEW r \in Tabs, Issue(r) PROVE Typed'
  <2>1. CASE There(job[r].user)
    <3>0. /\ issued' = issued + 1 /\ issued' \in Token /\ issued \in Nat
          /\ row'[issued'].user \in Users /\ row'[issued'].state = "live"
          /\ \A t \in Token : t # issued' => row'[t] = row[t]
      BY <1>4, <2>1, IssueTyped
    <3>1. Unissued' /\ Owned'
      <4>1. \A t \in Token : t > issued' => t # issued' /\ t > issued
        BY <3>0 DEF Token
      <4>2. \A t \in Token : t <= issued' => t = issued' \/ t <= issued
        BY <3>0 DEF Token
      <4>3. Owned'
        BY <1>0, <3>0, <4>2 DEF Owned
      <4>4. Unissued'
        BY <1>0, <3>0, <4>1 DEF Unissued
      <4> QED
        BY <4>3, <4>4
    <3>2. \A t \in Token : t > issued' <=> row'[t].state = "none"
      <4>1. \A t \in Token : t > issued <=> row[t].state = "none"
        BY <1>0 DEF TypeOK
      <4> QED
        BY <3>0, <4>1 DEF Token
    <3>3. issued' \in 0 .. MaxTokens /\ UNCHANGED <<users, cookie, faults>>
      BY <1>4, <2>1, IssueTyped DEF Issue, Token
    <3> QED
      BY <1>4, <2>1, <3>1, <3>2, <3>3, IssueTyped DEF Typed, TypeOK
  <2>2. CASE ~There(job[r].user)
    <3>1. Answer(r, "keep") \/ Answer(r, "clear")
      BY <1>4, <2>2 DEF Issue
    <3>2. /\ pc' \in [Tabs -> {"idle", "issuing", "revoking", "setting", "cutting", "answering"}]
          /\ job' \in [Tabs -> JobType] /\ JobsOfUsers'
      BY <3>1, AnswerTyped
    <3> QED
      BY <1>4, <2>2, <3>2 DEF Issue, Typed, TypeOK, Unissued, Owned
  <2> QED
    BY <2>1, <2>2
<1>5. ASSUME NEW r \in Tabs, Logout(r) PROVE Typed'
  <2>1. RowsFade /\ issued' = issued
    BY <1>0, <1>5, RevokeFades DEF Logout
  <2>2. /\ \A t \in Token : t > issued' <=> row'[t].state = "none"
        /\ Unissued' /\ Owned'
    BY <1>0, <2>1, FadedRows
  <2>3. /\ pc' \in [Tabs -> {"idle", "issuing", "revoking", "setting", "cutting", "answering"}]
        /\ job' \in [Tabs -> JobType] /\ JobsOfUsers'
    BY <1>5, AnswerTyped DEF Logout
  <2> QED
    BY <1>5, <2>1, <2>2, <2>3 DEF Logout, Typed, TypeOK, RowsFade
<1>6. ASSUME NEW r \in Tabs, ResetSet(r) PROVE Typed'
  <2>1. job[r].user \in Users
    BY <1>6 DEF ResetSet, Typed, JobsOfUsers, Works
  <2>2. /\ account' = account /\ pw' \in [Users -> 0..MaxPasswords]
        /\ link' \in [Users -> 0..MaxPasswords + 1] /\ changes' \in 0..MaxPasswords
    BY <1>6, <2>1, PasswordTyped DEF ResetSet
  <2>3. job' \in [Tabs -> JobType]
    <3>1. changes' = changes + 1 /\ job' = [job EXCEPT ![r].gen = changes + 1]
      BY <1>6 DEF ResetSet, UpdatePassword
    <3>2. job \in [Tabs -> JobType] /\ changes + 1 \in 0..MaxPasswords
      BY <2>2, <3>1 DEF Typed, TypeOK
    <3> QED
      BY <3>1, <3>2 DEF JobType
  <2>4. JobsOfUsers'
    BY <1>6, <2>1 DEF ResetSet, JobsOfUsers, Typed, TypeOK, Works
  <2> QED
    BY <1>6, <2>2, <2>3, <2>4 DEF ResetSet, Typed, TypeOK, Unissued, Owned
<1>7. ASSUME NEW r \in Tabs, ResetCut(r) PROVE Typed'
  <2>1. RowsFade /\ issued' = issued
    BY <1>7, CutTyped DEF ResetCut
  <2>2. /\ \A t \in Token : t > issued' <=> row'[t].state = "none"
        /\ Unissued' /\ Owned'
    BY <1>0, <2>1, FadedRows
  <2>3. UNCHANGED <<account, pw, link, changes, issued, cookie, faults>>
    BY <1>7 DEF ResetCut
  <2> QED
    BY <1>7, <2>1, <2>2, <2>3, CutTyped DEF Typed, TypeOK, RowsFade
<1>8. ASSUME NEW r \in Tabs, Deliver(r) \/ RequestFails(r) \/ AnswerLost(r) PROVE Typed'
  <2>1. /\ pc' \in [Tabs -> {"idle", "issuing", "revoking", "setting", "cutting", "answering"}]
        /\ job' \in [Tabs -> JobType] /\ JobsOfUsers'
    <3>1. End(r) \/ Answer(r, "clear") \/ Answer(r, "keep")
      BY <1>8 DEF Deliver, RequestFails, AnswerLost
    <3> QED
      BY <3>1, AnswerTyped
  <2>2. cookie' \in [Browsers -> 0..MaxTokens]
    <3>1. job[r] \in JobType
      BY DEF Typed, TypeOK
    <3> QED
      BY <1>8, <3>1 DEF Deliver, RequestFails, AnswerLost, Typed, TypeOK, JobType
  <2>3. faults' \in 0..MaxFaults
    BY <1>8 DEF Deliver, RequestFails, AnswerLost, Fault, Typed, TypeOK
  <2> QED
    BY <1>8, <2>1, <2>2, <2>3
    DEF Deliver, RequestFails, AnswerLost, Typed, TypeOK, Unissued, Owned
<1>9. ASSUME NEW u \in Users, ForgotPassword(u) \/ UpdateOwnProfile(u) \/ AdminSetPassword(u)
      PROVE  Typed'
  <2>1. CASE ForgotPassword(u)
    BY <2>1 DEF ForgotPassword, SetResetToken, Typed, TypeOK, Unissued, Owned, JobsOfUsers
  <2>2. CASE UpdateOwnProfile(u) \/ AdminSetPassword(u)
    BY <2>2, PasswordTyped
    DEF UpdateOwnProfile, AdminSetPassword, Typed, TypeOK, Unissued, Owned, JobsOfUsers
  <2> QED
    BY <1>9, <2>1, <2>2
<1>10. ASSUME NEW u \in Users, AdminCreate(u) PROVE Typed'
  BY <1>10 DEF AdminCreate, Typed, TypeOK, Unissued, Owned, JobsOfUsers
<1>11. ASSUME NEW u \in Users, AdminDelete(u) PROVE Typed'
  <2>1. RowsFade /\ issued' = issued
    BY <1>0, <1>11, DeleteFades DEF AdminDelete
  <2>2. /\ \A t \in Token : t > issued' <=> row'[t].state = "none"
        /\ Unissued' /\ Owned'
    BY <1>0, <2>1, FadedRows
  <2> QED
    BY <1>11, <2>1, <2>2 DEF AdminDelete, Typed, TypeOK, RowsFade, JobsOfUsers, NoLink
<1>12. CASE Crash
  <2>1. /\ pc' \in [Tabs -> {"idle", "issuing", "revoking", "setting", "cutting", "answering"}]
        /\ job' \in [Tabs -> JobType] /\ JobsOfUsers'
    BY <1>12, NoJobTyped DEF Crash, JobsOfUsers, Works
  <2>2. faults' \in 0..MaxFaults
    BY <1>12 DEF Crash, Fault, Typed, TypeOK
  <2> QED
    BY <1>12, <2>1, <2>2 DEF Crash, Typed, TypeOK, Unissued, Owned
<1>13. CASE UNCHANGED vars
  BY <1>13 DEF vars, Typed, TypeOK, Unissued, Owned, JobsOfUsers, NoRow
<1> QED
  BY <1>1, <1>2, <1>3, <1>4, <1>5, <1>6, <1>7, <1>8, <1>9, <1>10, <1>11, <1>12, <1>13 DEF Next

\* Every row, cookie and request keeps its type, and exactly the tokens that
\* have been issued have a row, whatever requests overlap, fail or are lost.
THEOREM SessionsTypeCorrect == Spec => []TypeOK
<1>1. Typed => TypeOK
  BY DEF Typed
<1> QED
  BY <1>1, TypedInit, TypedStep, PTL DEF Spec

LEMMA AlwaysTyped == Spec => []Typed
  BY TypedInit, TypedStep, PTL DEF Spec

(***************************************************************************)
(* What each kind of step does to the rows and to the requests in hand.    *)
(***************************************************************************)
Handing(r) == pc[r] \in {"revoking", "issuing"}

\* r goes on with what it had in hand, or ends; or it has just read a live token
\* or the account; the late mark aside.
SameJob(r) ==
    /\ pc'[r] = pc[r]
    /\ job'[r] = job[r] \/ job'[r] = [job[r] EXCEPT !.late = TRUE]
Revokes(r) ==
    /\ pc[r] = "revoking" /\ pc'[r] = "issuing" /\ job'[r] = job[r]
    /\ Revoke(job[r].tok, "rotated")
ReadsToken(r) ==
    \E t \in Token : /\ Live(t) /\ row' = row /\ resetTo' = resetTo
                     /\ pc'[r] = "revoking" /\ job'[r] = Exchanging(t)
Opens(r) ==
    \E u \in Users : /\ row' = row /\ resetTo' = resetTo /\ There(u)
                     /\ pc'[r] = "issuing" /\ job'[r] = Opening(u, pw[u])
HandsOn(r) == ~Handing(r)' \/ SameJob(r) \/ Revokes(r) \/ ReadsToken(r) \/ Opens(r)
Inserts == \E r \in Tabs : Issue(r) /\ There(job[r].user)

LEMMA RowsAndJobs ==
  ASSUME Typed, [Next]_vars
  PROVE  /\ \A x \in Tabs : HandsOn(x)
         /\ (RowsFade /\ issued' = issued) \/ Inserts
<1> USE SessionsAssumption DEF users, tokens, work
<1>0. row' = row => RowsFade
  BY DEF Typed, TypeOK, RowsFade, Fades
<1>t. TypeOK /\ Unissued
  BY DEF Typed
<1>w. pc \in [Tabs -> {"idle", "issuing", "revoking", "setting", "cutting", "answering"}]
      /\ job \in [Tabs -> JobType]
  BY DEF Typed, TypeOK
<1>s. UNCHANGED <<pc, job>> => \A x \in Tabs : HandsOn(x)
  BY DEF HandsOn, SameJob
<1>1. ASSUME NEW r \in Tabs, NEW u \in Users,
             LoginCheck(r, u) \/ LogoutOthers(r, u) \/ ResetRead(r, u)
      PROVE  (\A x \in Tabs : HandsOn(x)) /\ RowsFade /\ issued' = issued
  <2>1. CASE LoginCheck(r, u)
    <3>1. HandsOn(r)
      BY <1>w, <2>1 DEF LoginCheck, Begin, HandsOn, Opens
    <3>2. \A x \in Tabs : x # r => HandsOn(x)
      BY <1>w, <2>1 DEF LoginCheck, Begin, HandsOn, SameJob
    <3> QED
      BY <1>0, <2>1, <3>1, <3>2 DEF LoginCheck
  <2>2. CASE LogoutOthers(r, u)
    <3>1. BrowserOf[r] \in Browsers
      OBVIOUS
    <3> QED
      BY <1>s, <1>t, <2>2, <3>1, RevokeExceptFades DEF LogoutOthers
  <2>3. CASE ResetRead(r, u)
    <3>1. \A x \in Tabs : HandsOn(x)
      BY <1>w, <2>3 DEF ResetRead, Begin, HandsOn, SameJob, Handing
    <3> QED
      BY <1>0, <2>3, <3>1 DEF ResetRead
  <2> QED
    BY <1>1, <2>1, <2>2, <2>3
<1>2. ASSUME NEW r \in Tabs, RefreshRead(r)
      PROVE  (\A x \in Tabs : HandsOn(x)) /\ RowsFade /\ issued' = issued
  <2>1. Mine(r) \in Token
    BY <1>2 DEF RefreshRead, Mine, Typed, TypeOK, Token
  <2>2. \A x \in Tabs : x # r => HandsOn(x)
    BY <1>w, <1>2 DEF RefreshRead, Begin, HandsOn, SameJob
  <2>3. HandsOn(r)
    BY <1>w, <1>2, <2>1 DEF RefreshRead, Begin, HandsOn, ReadsToken, Handing
  <2> QED
    BY <1>0, <1>2, <2>2, <2>3 DEF RefreshRead
<1>3. ASSUME NEW r \in Tabs, RefreshRevoke(r)
      PROVE  (\A x \in Tabs : HandsOn(x)) /\ RowsFade /\ issued' = issued
  <2>1. \A x \in Tabs : x # r => HandsOn(x)
    BY <1>w, <1>3 DEF RefreshRevoke, Goto, HandsOn, SameJob
  <2>2. HandsOn(r)
    BY <1>w, <1>3 DEF RefreshRevoke, Goto, HandsOn, Revokes
  <2> QED
    BY <1>t, <1>3, <2>1, <2>2, RevokeFades DEF RefreshRevoke
<1>4. ASSUME NEW r \in Tabs, Issue(r)
      PROVE  (\A x \in Tabs : HandsOn(x)) /\ ((RowsFade /\ issued' = issued) \/ Inserts)
  <2>1. CASE There(job[r].user)
    BY <1>4, <2>1, IssueTyped DEF HandsOn, SameJob, Handing, Inserts
  <2>2. CASE ~There(job[r].user)
    <3>1. (Answer(r, "keep") \/ Answer(r, "clear")) /\ UNCHANGED tokens
      BY <1>4, <2>2 DEF Issue
    <3>2. \A x \in Tabs : HandsOn(x)
      BY <1>w, <3>1 DEF Answer, HandsOn, SameJob, Handing
    <3> QED
      BY <1>0, <3>1, <3>2
  <2> QED
    BY <2>1, <2>2
<1>5. ASSUME NEW r \in Tabs, Logout(r)
      PROVE  (\A x \in Tabs : HandsOn(x)) /\ RowsFade /\ issued' = issued
  <2>1. \A x \in Tabs : HandsOn(x)
    BY <1>w, <1>5 DEF Logout, Begin, HandsOn, SameJob, Handing
  <2> QED
    BY <1>t, <1>5, <2>1, RevokeFades DEF Logout
<1>6. ASSUME NEW r \in Tabs, ResetSet(r)
      PROVE  (\A x \in Tabs : HandsOn(x)) /\ RowsFade /\ issued' = issued
  BY <1>0, <1>w, <1>6 DEF ResetSet, HandsOn, SameJob, Handing
<1>7. ASSUME NEW r \in Tabs, ResetCut(r)
      PROVE  (\A x \in Tabs : HandsOn(x)) /\ RowsFade /\ issued' = issued
  <2>1. \A x \in Tabs : HandsOn(x)
    BY <1>w, <1>7, CutTyped DEF HandsOn, SameJob, Handing
  <2> QED
    BY <1>7, <2>1, CutTyped DEF ResetCut
<1>8. ASSUME NEW r \in Tabs, Deliver(r) \/ RequestFails(r) \/ AnswerLost(r)
      PROVE  (\A x \in Tabs : HandsOn(x)) /\ RowsFade /\ issued' = issued
  <2>1. (End(r) \/ Answer(r, "clear") \/ Answer(r, "keep")) /\ UNCHANGED tokens
    BY <1>8 DEF Deliver, RequestFails, AnswerLost
  <2>2. \A x \in Tabs : HandsOn(x)
    BY <1>w, <2>1 DEF End, Answer, HandsOn, SameJob, Handing
  <2> QED
    BY <1>0, <2>1, <2>2
<1>9. ASSUME NEW u \in Users,
             \/ ForgotPassword(u) \/ UpdateOwnProfile(u)
             \/ AdminCreate(u) \/ AdminSetPassword(u)
      PROVE  (\A x \in Tabs : HandsOn(x)) /\ RowsFade /\ issued' = issued
  BY <1>0, <1>s, <1>9 DEF ForgotPassword, UpdateOwnProfile, AdminCreate, AdminSetPassword
<1>10. ASSUME NEW u \in Users, AdminDelete(u)
       PROVE  (\A x \in Tabs : HandsOn(x)) /\ RowsFade /\ issued' = issued
  BY <1>s, <1>t, <1>10, DeleteFades DEF AdminDelete
<1>11. CASE Crash
  BY <1>0, <1>11 DEF Crash, HandsOn, Handing
<1>12. CASE UNCHANGED vars
  BY <1>0, <1>12, <1>s DEF vars
<1> QED
  BY <1>1, <1>2, <1>3, <1>4, <1>5, <1>6, <1>7, <1>8, <1>9, <1>10, <1>11, <1>12 DEF Next

(***************************************************************************)
(* One successor.  A token in hand was live when its request began, so no  *)
(* row had it for a parent then.                                           *)
(***************************************************************************)
Parents ==
    \A s \in Token : row[s].parent # 0 =>
        row[s].parent \in Token /\ row[s].parent <= issued /\ ~Live(row[s].parent)
Hand(r) ==
    Handing(r) /\ job[r].tok # 0 =>
        /\ job[r].tok \in Token /\ job[r].tok <= issued /\ job[r].since <= issued
        /\ pc[r] = "issuing" => ~Live(job[r].tok)
        /\ \A s \in Token : row[s].parent = job[r].tok => job[r].since < s
Hands == \A r \in Tabs : Hand(r)
SuccessorInv == Parents /\ Hands /\ SingleSuccessor

LEMMA SuccessorInit == Init => SuccessorInv
  BY SessionsAssumption
  DEF Init, SuccessorInv, Parents, Hands, Hand, Handing, SingleSuccessor, NoRow, Token

\* Rows die but are not born.
LEMMA FadingKeepsParents ==
  ASSUME Typed, SuccessorInv, RowsFade, issued' = issued
  PROVE  Parents' /\ SingleSuccessor'
<1>1. \A t \in Token : row'[t].parent = row[t].parent /\ row'[t].since = row[t].since
                       /\ (~Live(t) => ~Live(t)')
  BY DEF RowsFade, Fades, Gone, Live
<1>2. \A t \in 1 .. issued : t \in Token
  BY SessionsAssumption DEF Typed, TypeOK, Token
<1> QED
  BY <1>1, <1>2 DEF SuccessorInv, Parents, SingleSuccessor, Live

LEMMA HandStays ==
  ASSUME Typed, SuccessorInv, NEW r \in Tabs, HandsOn(r), RowsFade, issued' = issued
  PROVE  Hand(r)'
<1> SUFFICES ASSUME Handing(r)', job'[r].tok # 0 PROVE Hand(r)'
  BY DEF Hand
<1>1. \A t \in Token : row'[t].parent = row[t].parent /\ (~Live(t) => ~Live(t)')
  BY DEF RowsFade, Fades, Gone, Live
<1>2. job[r] \in JobType /\ Hand(r)
  BY DEF Typed, TypeOK, SuccessorInv, Hands
<1>3. CASE SameJob(r)
  BY <1>1, <1>2, <1>3 DEF SameJob, Hand, Handing, JobType
<1>4. CASE Revokes(r)
  <2>1. job[r].tok \in Token => ~Live(job[r].tok)'
    BY <1>4, DeadFades DEF Revokes, Revoke, Live, Gone, Typed
  <2> QED
    BY <1>1, <1>2, <1>4, <2>1 DEF Revokes, Hand, Handing
<1>5. CASE ReadsToken(r)
  <2>1. PICK t \in Token : Live(t) /\ row' = row /\ pc'[r] = "revoking" /\ job'[r] = Exchanging(t)
    BY <1>5 DEF ReadsToken
  <2>2. job'[r].tok = t /\ job'[r].since = issued
    BY <2>1, ExchangingTyped DEF Typed
  <2>3. t <= issued /\ issued \in Nat
    BY <2>1, SessionsAssumption DEF Typed, TypeOK, Live, Token
  <2>4. \A s \in Token : row[s].parent # t
    BY <2>1 DEF SuccessorInv, Parents, Token
  <2> QED
    BY <2>1, <2>2, <2>3, <2>4 DEF Hand
<1>6. CASE Opens(r)
  <2>1. \A u \in Users : Opening(u, pw[u]).tok = 0
    BY NoJobTyped DEF Opening, For, NoJob
  <2> QED
    BY <1>6, <2>1 DEF Opens
<1> QED
  BY <1>3, <1>4, <1>5, <1>6 DEF HandsOn

LEMMA IssueKeepsSuccessors ==
  ASSUME Typed, SuccessorInv, NEW r \in Tabs, Issue(r), There(job[r].user)
  PROVE  SuccessorInv'
<1> DEFINE n == issued'
<1>1. /\ n = issued + 1 /\ n \in Token /\ issued \in Nat
      /\ row'[n].parent = job[r].tok /\ row'[n].since = job[r].since
      /\ \A t \in Token : t # n => row'[t] = row[t]
      /\ \A x \in Tabs : x # r => pc'[x] = pc[x] /\ job'[x] = job[x]
      /\ pc'[r] = "answering"
  BY IssueTyped
<1>2. Hand(r) /\ pc[r] = "issuing" /\ job[r] \in JobType
  BY DEF SuccessorInv, Hands, Issue, Typed, TypeOK
<1>3. \A t \in Token : t <= issued => row'[t] = row[t] /\ t # n
  BY <1>1 DEF Token
<1>4. Parents'
  <2> SUFFICES ASSUME NEW s \in Token, row'[s].parent # 0
               PROVE  /\ row'[s].parent \in Token /\ row'[s].parent <= n
                      /\ row'[row'[s].parent].state # "live"
    BY DEF Parents, Live
  <2> DEFINE p == row'[s].parent
  <2>1. p \in Token /\ p <= issued /\ ~Live(p)
    <3>1. CASE s = n
      BY <1>1, <1>2, <3>1 DEF Hand, Handing
    <3>2. CASE s # n
      BY <1>1, <3>2 DEF SuccessorInv, Parents
    <3> QED
      BY <3>1, <3>2
  <2>2. row'[p] = row[p]
    BY <1>3, <2>1
  <2> QED
    BY <1>1, <2>1, <2>2 DEF Live, Token
<1>5. Hands'
  <2> SUFFICES ASSUME NEW x \in Tabs, Handing(x)', job'[x].tok # 0 PROVE Hand(x)'
    BY DEF Hands, Hand
  <2>1. x # r /\ pc'[x] = pc[x] /\ job'[x] = job[x] /\ Hand(x) /\ Handing(x)
    BY <1>1 DEF Handing, SuccessorInv, Hands
  <2>2. /\ job[x].tok \in Token /\ job[x].tok <= issued /\ job[x].since <= issued
        /\ pc[x] = "issuing" => ~Live(job[x].tok)
        /\ \A s \in Token : row[s].parent = job[x].tok => job[x].since < s
    BY <2>1 DEF Hand
  <2>3. job[x] \in JobType
    BY DEF Typed, TypeOK
  <2>4. \A s \in Token : row'[s].parent = job[x].tok => job[x].since < s
    <3> SUFFICES ASSUME NEW s \in Token, row'[s].parent = job[x].tok PROVE job[x].since < s
      OBVIOUS
    <3>1. CASE s = n
      BY <1>1, <2>2, <2>3, <3>1, SessionsAssumption DEF JobType
    <3>2. CASE s # n
      BY <1>1, <2>2, <3>2
    <3> QED
      BY <3>1, <3>2
  <2>5. row'[job[x].tok] = row[job[x].tok]
    BY <1>3, <2>2
  <2> QED
    BY <1>1, <2>1, <2>2, <2>3, <2>4, <2>5, SessionsAssumption DEF Hand, Live, Token, JobType
<1>6. SingleSuccessor'
  <2> SUFFICES ASSUME NEW s \in 1 .. n, NEW t \in 1 .. n,
                      s < t, row'[s].parent = row'[t].parent, row'[t].parent # 0
               PROVE  row'[t].since < s
    BY DEF SingleSuccessor
  <2>1. s \in Token /\ s <= issued /\ s # n /\ row'[s] = row[s] /\ t \in Token
    BY <1>1, <1>3, SessionsAssumption DEF Token
  <2>2. CASE t = n
    BY <1>1, <1>2, <2>1, <2>2 DEF Hand, Handing
  <2>3. CASE t # n
    <3>1. t \in 1 .. issued /\ s \in 1 .. issued /\ row'[t] = row[t]
      BY <1>1, <2>1, <2>3
    <3> QED
      BY <2>1, <3>1 DEF SuccessorInv, SingleSuccessor
  <2> QED
    BY <2>2, <2>3
<1> QED
  BY <1>4, <1>5, <1>6 DEF SuccessorInv

LEMMA SuccessorStep == Typed /\ SuccessorInv /\ [Next]_vars => SuccessorInv'
<1> SUFFICES ASSUME Typed, SuccessorInv, [Next]_vars PROVE SuccessorInv'
  OBVIOUS
<1>1. CASE RowsFade /\ issued' = issued
  <2>1. Hands'
    BY <1>1, HandStays, RowsAndJobs DEF Hands
  <2> QED
    BY <1>1, <2>1, FadingKeepsParents DEF SuccessorInv
<1>2. CASE Inserts
  BY <1>2, IssueKeepsSuccessors DEF Inserts
<1> QED
  BY <1>1, <1>2, RowsAndJobs

\* However refreshes, resets, sign-outs and failures overlap, a refresh token
\* has two successors only if the second refresh had begun before the first had
\* inserted its own.
THEOREM OneSuccessorPerToken == Spec => []SingleSuccessor
<1>1. Typed /\ SuccessorInv /\ [Next]_vars => SuccessorInv'
  BY SuccessorStep
<1>2. SuccessorInv => SingleSuccessor
  BY DEF SuccessorInv
<1> QED
  BY <1>1, <1>2, SuccessorInit, AlwaysTyped, PTL DEF Spec

(***************************************************************************)
(* Resets.  Passwords are numbered in the order they are set, so a login   *)
(* after a reset opens its session with the reset's password or a later    *)
(* one.                                                                    *)
(***************************************************************************)
Newest(u) ==
    /\ resetTo[u] <= changes
    /\ account[u] = "new" => resetTo[u] = 0
    /\ There(u) => resetTo[u] <= pw[u]
Resetting(r) ==
    /\ pc[r] \in {"setting", "cutting"} => account[job[r].user] # "new"
    /\ pc[r] = "cutting" => job[r].gen <= changes
    /\ pc[r] = "cutting" /\ There(job[r].user) => job[r].gen <= pw[job[r].user]
Passwords == (\A u \in Users : Newest(u)) /\ (\A r \in Tabs : Resetting(r))

RowOutlives(t) == Live(t) => resetTo[row[t].user] <= row[t].gen \/ row[t].late
JobOutlives(r) == Handing(r) => resetTo[job[r].user] <= job[r].gen \/ job[r].late
Outlive == (\A t \in Token : RowOutlives(t)) /\ (\A r \in Tabs : JobOutlives(r))
ResetInv == Passwords /\ Outlive

LEMMA ResetInit == Init => ResetInv
  BY SessionsAssumption
  DEF Init, ResetInv, Passwords, Newest, Resetting, Outlive, RowOutlives, JobOutlives,
      Handing, Live, There, NoRow, Token

LEMMA PasswordSet ==
  ASSUME Typed, NEW u \in Users, UpdatePassword(u)
  PROVE  /\ changes' = changes + 1 /\ account' = account
         /\ \A v \in Users : v # u => pw'[v] = pw[v]
         /\ There(u) => pw'[u] = changes'
         /\ ~There(u) => pw'[u] = pw[u]
  BY DEF UpdatePassword, Typed, TypeOK

LEMMA PasswordKeeps ==
  ASSUME Typed, Passwords, NEW u \in Users, UpdatePassword(u), resetTo' = resetTo
  PROVE  /\ \A v \in Users : Newest(v)'
         /\ \A r \in Tabs : pc'[r] = pc[r] /\ job'[r] = job[r] => Resetting(r)'
<1>1. /\ changes' = changes + 1 /\ account' = account
      /\ \A v \in Users : v # u => pw'[v] = pw[v]
      /\ There(u) => pw'[u] = changes'
      /\ ~There(u) => pw'[u] = pw[u]
  BY PasswordSet
<1>2. /\ changes \in Nat
      /\ \A v \in Users : pw[v] \in Nat /\ resetTo[v] \in Nat
      /\ \A r \in Tabs : job[r].gen \in Nat
  BY SessionsAssumption DEF Typed, TypeOK, JobType
<1>3. \A v \in Users : Newest(v)'
  BY <1>1, <1>2 DEF Passwords, Newest, There
<1>4. ASSUME NEW r \in Tabs, pc'[r] = pc[r], job'[r] = job[r] PROVE Resetting(r)'
  <2>1. pc[r] = "cutting" => job[r].user \in Users
    BY DEF Typed, JobsOfUsers, Works
  <2> QED
    BY <1>1, <1>2, <1>4, <2>1 DEF Passwords, Resetting, There
<1> QED
  BY <1>3, <1>4

LEMMA PasswordsStep == Typed /\ Passwords /\ [Next]_vars => Passwords'
<1> SUFFICES ASSUME Typed, Passwords, [Next]_vars PROVE Passwords'
  OBVIOUS
<1> USE SessionsAssumption DEF users, tokens, work
<1>w. /\ pc \in [Tabs -> {"idle", "issuing", "revoking", "setting", "cutting", "answering"}]
      /\ job \in [Tabs -> JobType] /\ resetTo \in [Users -> 0..MaxPasswords]
      /\ account \in [Users -> {"new", "there", "deleted"}]
      /\ changes \in 0..MaxPasswords
  BY DEF Typed, TypeOK
<1>u. ASSUME UNCHANGED <<account, pw, changes, resetTo>> PROVE \A u \in Users : Newest(u)'
  BY <1>u DEF Passwords, Newest, There
<1>k. ASSUME UNCHANGED <<account, pw, changes>>, NEW r \in Tabs,
             \/ pc'[r] \notin {"setting", "cutting"}
             \/ pc'[r] = pc[r] /\ job'[r] = job[r]
      PROVE  Resetting(r)'
  BY <1>k DEF Passwords, Resetting, There
<1>1. ASSUME NEW r \in Tabs, NEW u \in Users,
             LoginCheck(r, u) \/ LogoutOthers(r, u) \/ ResetRead(r, u)
      PROVE  Passwords'
  <2>1. UNCHANGED <<account, pw, changes, resetTo>>
    BY <1>1 DEF LoginCheck, LogoutOthers, ResetRead
  <2>2. CASE LoginCheck(r, u) \/ LogoutOthers(r, u)
    BY <1>u, <1>k, <1>w, <2>1, <2>2 DEF LoginCheck, LogoutOthers, Begin, Passwords
  <2>3. CASE ResetRead(r, u)
    <3>1. For(u).user = u
      BY NoJobTyped DEF For, NoJob
    <3>2. Resetting(r)'
      BY <1>w, <2>1, <2>3, <3>1 DEF ResetRead, Begin, Resetting, There
    <3>3. \A x \in Tabs : x # r => pc'[x] = pc[x] /\ job'[x] = job[x]
      BY <1>w, <2>3 DEF ResetRead, Begin
    <3> QED
      BY <1>u, <1>k, <2>1, <3>2, <3>3 DEF Passwords
  <2> QED
    BY <1>1, <2>2, <2>3
<1>2. ASSUME NEW r \in Tabs,
             \/ RefreshRead(r) \/ RefreshRevoke(r) \/ Issue(r) \/ Logout(r)
             \/ Deliver(r) \/ RequestFails(r) \/ AnswerLost(r)
      PROVE  Passwords'
  <2>1. UNCHANGED <<account, pw, changes, resetTo>>
    BY <1>2 DEF RefreshRead, RefreshRevoke, Issue, Logout, Deliver, RequestFails, AnswerLost
  <2>2. /\ pc'[r] \notin {"setting", "cutting"}
        /\ \A x \in Tabs : x # r => pc'[x] = pc[x] /\ job'[x] = job[x]
    <3>1. CASE RefreshRead(r) \/ Logout(r)
      BY <1>w, <3>1 DEF RefreshRead, Logout, Begin
    <3>2. CASE RefreshRevoke(r)
      BY <1>w, <3>2 DEF RefreshRevoke, Goto
    <3>3. CASE Issue(r) /\ There(job[r].user)
      BY <3>3, IssueTyped
    <3>4. CASE Issue(r) /\ ~There(job[r].user)
      BY <1>w, <3>4 DEF Issue, Answer
    <3>5. CASE Deliver(r) \/ RequestFails(r) \/ AnswerLost(r)
      BY <1>w, <3>5 DEF Deliver, RequestFails, AnswerLost, End, Answer
    <3> QED
      BY <1>2, <3>1, <3>2, <3>3, <3>4, <3>5
  <2> QED
    BY <1>u, <1>k, <2>1, <2>2 DEF Passwords
<1>3. ASSUME NEW r \in Tabs, ResetSet(r) PROVE Passwords'
  <2>1. job[r].user \in Users /\ pc[r] = "setting" /\ resetTo' = resetTo
    BY <1>3 DEF ResetSet, Typed, JobsOfUsers, Works
  <2>2. /\ job'[r] = [job[r] EXCEPT !.gen = changes + 1] /\ pc'[r] = "cutting"
        /\ \A x \in Tabs : x # r => pc'[x] = pc[x] /\ job'[x] = job[x]
    BY <1>3, <1>w DEF ResetSet
  <2>3. job'[r].gen = changes + 1 /\ job'[r].user = job[r].user
    BY <1>w, <2>2 DEF JobType
  <2>4. /\ \A v \in Users : Newest(v)'
        /\ \A x \in Tabs : x # r => Resetting(x)'
    BY <1>3, <2>1, <2>2, PasswordKeeps DEF ResetSet
  <2>5. Resetting(r)'
    <3>1. /\ changes' = changes + 1 /\ account' = account
          /\ There(job[r].user) => pw'[job[r].user] = changes'
      BY <1>3, <2>1, PasswordSet DEF ResetSet
    <3>2. account[job[r].user] # "new"
      BY <2>1 DEF Passwords, Resetting
    <3> QED
      BY <1>w, <2>3, <3>1, <3>2 DEF Resetting, There
  <2> QED
    BY <2>4, <2>5 DEF Passwords
<1>4. ASSUME NEW r \in Tabs, ResetCut(r) PROVE Passwords'
  <2>1. /\ UNCHANGED <<account, pw, changes>> /\ pc[r] = "cutting" /\ job[r].user \in Users
        /\ resetTo' = [resetTo EXCEPT ![job[r].user] = IF job[r].gen > @ THEN job[r].gen ELSE @]
    BY <1>4 DEF ResetCut, Typed, JobsOfUsers, Works
  <2>2. \A u \in Users : Newest(u)'
    <3>1. /\ job[r].gen <= changes /\ account[job[r].user] # "new"
          /\ There(job[r].user) => job[r].gen <= pw[job[r].user]
      BY <2>1 DEF Passwords, Resetting
    <3>2. \A u \in Users : 
           resetTo'[u] = resetTo[u] \/ (u = job[r].user /\ resetTo'[u] = job[r].gen)
      BY <1>w, <2>1
    <3> QED
      BY <2>1, <3>1, <3>2 DEF Passwords, Newest, There
  <2>3. \A x \in Tabs : Resetting(x)'
    <3> SUFFICES ASSUME NEW x \in Tabs, x # r PROVE Resetting(x)'
      BY <1>k, <1>w, <1>4, <2>1, CutTyped
    <3>1. pc'[x] = pc[x] /\ job'[x].gen = job[x].gen /\ job'[x].user = job[x].user
      <4>1. job'[x] = job[x] \/ job'[x] = [job[x] EXCEPT !.late = TRUE]
        BY <1>4, CutTyped
      <4>2. job[x] \in JobType
        BY <1>w
      <4>3. pc'[x] = pc[x]
        BY <1>4, <1>w, CutTyped
      <4> QED
        BY <4>1, <4>2, <4>3 DEF JobType
    <3> QED
      BY <2>1, <3>1 DEF Passwords, Resetting, There
  <2> QED
    BY <2>2, <2>3 DEF Passwords
<1>5. ASSUME NEW u \in Users, ForgotPassword(u) PROVE Passwords'
  BY <1>5, <1>u, <1>k DEF ForgotPassword, SetResetToken, Passwords
<1>6. ASSUME NEW u \in Users, UpdateOwnProfile(u) \/ AdminSetPassword(u) PROVE Passwords'
  BY <1>6, PasswordKeeps DEF UpdateOwnProfile, AdminSetPassword, Passwords
<1>7. ASSUME NEW u \in Users, AdminCreate(u) \/ AdminDelete(u) PROVE Passwords'
  <2>1. /\ UNCHANGED <<pw, changes, resetTo, pc, job>>
        /\ \A v \in Users : v # u => account'[v] = account[v]
        /\ (account[u] = "new" /\ account'[u] = "there") \/ account'[u] = "deleted"
    BY <1>w, <1>7 DEF AdminCreate, AdminDelete
  <2>2. \A v \in Users : Newest(v)'
    <3> SUFFICES ASSUME NEW v \in Users PROVE Newest(v)'
      OBVIOUS
    <3>1. CASE v # u
      BY <2>1, <3>1 DEF Passwords, Newest, There
    <3>2. CASE v = u
      <4>1. pw[u] \in Nat
        BY DEF Typed, TypeOK
      <4> QED
        BY <1>w, <2>1, <3>2, <4>1 DEF Passwords, Newest, There
    <3> QED
      BY <3>1, <3>2
  <2>3. \A x \in Tabs : Resetting(x)'
    <3> SUFFICES ASSUME NEW x \in Tabs, pc[x] \in {"setting", "cutting"} PROVE Resetting(x)'
      BY <2>1 DEF Resetting
    <3>1. job[x].user \in Users /\ account[job[x].user] # "new"
      BY DEF Typed, JobsOfUsers, Works, Passwords, Resetting
    <3> QED
      BY <2>1, <3>1 DEF Passwords, Resetting, There
  <2> QED
    BY <2>2, <2>3 DEF Passwords
<1>8. CASE Crash
  BY <1>8, <1>u DEF Crash, Passwords, Resetting
<1>9. CASE UNCHANGED vars
  BY <1>9, <1>u, <1>k DEF vars, Passwords
<1> QED
  BY <1>1, <1>2, <1>3, <1>4, <1>5, <1>6, <1>7, <1>8, <1>9 DEF Next

\* Only ResetCut says that a reset has finished.
LEMMA ResetsFinish ==
  ASSUME [Next]_vars PROVE (\E r \in Tabs : ResetCut(r)) \/ resetTo' = resetTo
  BY DEF Next, vars, users, LoginCheck, LogoutOthers, ResetRead, RefreshRead, RefreshRevoke,
         Issue, Logout, ResetSet, Deliver, RequestFails, AnswerLost, ForgotPassword,
         SetResetToken, UpdateOwnProfile, AdminCreate, AdminSetPassword, AdminDelete, Crash

LEMMA JobStillOutlives ==
  ASSUME Typed, ResetInv, NEW r \in Tabs, HandsOn(r), resetTo' = resetTo
  PROVE  JobOutlives(r)'
<1>1. job[r] \in JobType /\ JobOutlives(r)
  BY DEF Typed, TypeOK, ResetInv, Outlive
<1>2. CASE SameJob(r)
  <2>1. CASE job'[r] = job[r]
    BY <1>1, <1>2, <2>1 DEF SameJob, JobOutlives, Handing
  <2>2. CASE job'[r] = [job[r] EXCEPT !.late = TRUE]
    <3>1. job'[r].late
      BY <1>1, <2>2 DEF JobType
    <3> QED
      BY <3>1 DEF JobOutlives
  <2> QED
    BY <1>2, <2>1, <2>2 DEF SameJob
<1>3. CASE Revokes(r)
  BY <1>1, <1>3 DEF Revokes, JobOutlives, Handing
<1>4. CASE ReadsToken(r)
  <2>1. PICK t \in Token : Live(t) /\ job'[r] = Exchanging(t)
    BY <1>4 DEF ReadsToken
  <2>2. RowOutlives(t)
    BY DEF ResetInv, Outlive
  <2>3. /\ job'[r].user = row[t].user /\ job'[r].gen = row[t].gen
        /\ job'[r].late = row[t].late
    BY <2>1, ExchangingTyped DEF Typed
  <2> QED
    BY <2>1, <2>2, <2>3 DEF RowOutlives, JobOutlives
<1>5. CASE Opens(r)
  <2>1. PICK u \in Users : There(u) /\ job'[r] = Opening(u, pw[u])
    BY <1>5 DEF Opens
  <2>2. job'[r].user = u /\ job'[r].gen = pw[u]
    BY <2>1, NoJobTyped DEF Opening, For, JobType
  <2>3. resetTo[u] <= pw[u]
    BY <2>1 DEF ResetInv, Passwords, Newest
  <2> QED
    BY <2>2, <2>3 DEF JobOutlives
<1> QED
  BY <1>2, <1>3, <1>4, <1>5 DEF HandsOn, JobOutlives

LEMMA CutOutlives ==
  ASSUME Typed, ResetInv, NEW r \in Tabs, ResetCut(r) PROVE Outlive'
<1> DEFINE u == job[r].user
<1>1. /\ pc[r] = "cutting" /\ RevokeAllForUser(u) /\ u \in Users
      /\ \A v \in Users : v # u => resetTo'[v] = resetTo[v]
  BY DEF ResetCut, Typed, TypeOK, JobsOfUsers, Works
<1>2. ASSUME NEW t \in Token PROVE RowOutlives(t)'
  <2>1. RowOutlives(t)
    BY DEF ResetInv, Outlive
  <2>2. Live(t)' => Live(t) /\ row[t].user # u /\ row'[t] = row[t]
    <3>1. "revoked" \in Gone
      BY DEF Gone
    <3> QED
      BY <1>1, <3>1, DeadFades DEF RevokeAllForUser, Live, Typed
  <2>3. Live(t) => row[t].user \in Users
    BY SessionsAssumption DEF Live, Typed, TypeOK, Owned, Token
  <2> QED
    BY <1>1, <2>1, <2>2, <2>3 DEF RowOutlives, Live
<1>3. ASSUME NEW x \in Tabs PROVE JobOutlives(x)'
  <2> SUFFICES ASSUME Handing(x)' PROVE JobOutlives(x)'
    BY DEF JobOutlives
  <2>1. /\ x # r /\ Handing(x) /\ JobOutlives(x) /\ job[x] \in JobType
        /\ job[x].user \in Users
    BY CutTyped DEF Handing, Typed, TypeOK, JobsOfUsers, Works, ResetInv, Outlive
  <2>2. CASE job'[x] = job[x] /\ job[x].user # u
    BY <1>1, <2>1, <2>2 DEF JobOutlives
  <2>3. CASE job'[x] = [job[x] EXCEPT !.late = TRUE]
    <3>1. job'[x].late
      BY <2>1, <2>3 DEF JobType
    <3> QED
      BY <3>1 DEF JobOutlives
  <2> QED
    BY <2>1, <2>2, <2>3, CutTyped DEF Handing
<1> QED
  BY <1>2, <1>3 DEF Outlive

LEMMA IssueOutlives ==
  ASSUME Typed, ResetInv, NEW r \in Tabs, Issue(r), There(job[r].user)
  PROVE  \A t \in Token : RowOutlives(t)'
<1> SUFFICES ASSUME NEW t \in Token PROVE RowOutlives(t)'
  OBVIOUS
<1>1. resetTo' = resetTo
  BY DEF Issue, users
<1>2. RowOutlives(t)
  BY DEF ResetInv, Outlive
<1>3. CASE t = issued'
  <2>1. /\ row'[t].user = job[r].user /\ row'[t].gen = job[r].gen
        /\ row'[t].late = job[r].late
    BY <1>3, IssueTyped
  <2>2. JobOutlives(r) /\ Handing(r)
    BY DEF ResetInv, Outlive, Issue, Handing
  <2> QED
    BY <1>1, <2>1, <2>2 DEF RowOutlives, JobOutlives
<1>4. CASE t # issued'
  <2>1. row'[t] = row[t]
    BY <1>4, IssueTyped
  <2> QED
    BY <1>1, <1>2, <2>1 DEF RowOutlives, Live
<1> QED
  BY <1>3, <1>4

LEMMA ResetStep == Typed /\ ResetInv /\ [Next]_vars => ResetInv'
<1> SUFFICES ASSUME Typed, ResetInv, [Next]_vars PROVE ResetInv'
  OBVIOUS
<1>1. Passwords'
  BY PasswordsStep DEF ResetInv
<1>2. CASE \E r \in Tabs : ResetCut(r)
  BY <1>1, <1>2, CutOutlives DEF ResetInv
<1>3. CASE resetTo' = resetTo
  <2>1. \A r \in Tabs : JobOutlives(r)'
    BY <1>3, RowsAndJobs, JobStillOutlives
  <2>2. CASE RowsFade
    <3>1. ASSUME NEW t \in Token PROVE RowOutlives(t)'
      <4>1. RowOutlives(t) /\ Fades(t)
        BY <2>2 DEF ResetInv, Outlive, RowsFade
      <4> QED
        BY <1>3, <4>1 DEF RowOutlives, Fades, Gone, Live
    <3> QED
      BY <1>1, <2>1, <3>1 DEF ResetInv, Outlive
  <2>3. CASE Inserts
    BY <1>1, <2>1, <2>3, IssueOutlives DEF Inserts, ResetInv, Outlive
  <2> QED
    BY <2>2, <2>3, RowsAndJobs
<1> QED
  BY <1>2, <1>3, ResetsFinish

\* Once a reset by mail has finished, every live session of the account was
\* opened with the password it set or a later one, or comes from a request that
\* was under way when it finished.
THEOREM ResetEndsOlderSessions == Spec => []ResetEndsSessions
<1>1. Typed /\ ResetInv /\ [Next]_vars => ResetInv'
  BY ResetStep
<1>2. Typed /\ ResetInv => ResetEndsSessions
  <2> SUFFICES ASSUME Typed, ResetInv, NEW t \in 1 .. issued, Live(t)
               PROVE  row[t].gen >= resetTo[row[t].user] \/ row[t].late
    BY DEF ResetEndsSessions
  <2>1. t \in Token /\ row[t].user \in Users
    BY SessionsAssumption DEF Typed, TypeOK, Owned, Token
  <2>2. RowOutlives(t) /\ resetTo[row[t].user] \in Nat /\ row[t].gen \in Nat
    BY <2>1, SessionsAssumption DEF ResetInv, Outlive, Typed, TypeOK, RowType
  <2> QED
    BY <2>2 DEF RowOutlives
<1> QED
  BY <1>1, <1>2, ResetInit, AlwaysTyped, PTL DEF Spec

(***************************************************************************)
(* Links.                                                                  *)
(***************************************************************************)
LEMMA UnusedLinkStep == Typed /\ LinkDiesWithPassword /\ [Next]_vars => LinkDiesWithPassword'
<1> SUFFICES ASSUME Typed, LinkDiesWithPassword, [Next]_vars PROVE LinkDiesWithPassword'
  OBVIOUS
<1> USE SessionsAssumption DEF users, LinkDiesWithPassword
<1>1. CASE UNCHANGED <<account, pw, link>>
  BY <1>1 DEF There
<1>2. ASSUME NEW u \in Users, UpdatePassword(u) PROVE LinkDiesWithPassword'
  BY <1>2 DEF UpdatePassword, There, Typed, TypeOK
<1>3. ASSUME NEW r \in Tabs, ResetSet(r) PROVE LinkDiesWithPassword'
  <2>1. job[r].user \in Users
    BY <1>3 DEF ResetSet, Typed, JobsOfUsers, Works
  <2> QED
    BY <1>2, <1>3, <2>1 DEF ResetSet
<1>4. ASSUME NEW u \in Users, ForgotPassword(u) PROVE LinkDiesWithPassword'
  BY <1>4 DEF ForgotPassword, SetResetToken, There, Typed, TypeOK
<1>5. ASSUME NEW u \in Users, AdminCreate(u) \/ AdminDelete(u) PROVE LinkDiesWithPassword'
  BY <1>5 DEF AdminCreate, AdminDelete, There, Typed, TypeOK
<1>6. \/ UNCHANGED <<account, pw, link>>
      \/ \E r \in Tabs : ResetSet(r)
      \/ \E u \in Users : \/ UpdatePassword(u) \/ ForgotPassword(u)
                         \/ AdminCreate(u) \/ AdminDelete(u)
  BY DEF Next, vars, users, LoginCheck, LogoutOthers, ResetRead, RefreshRead, RefreshRevoke,
         Issue, Logout, ResetCut, Deliver, RequestFails, AnswerLost, UpdateOwnProfile,
         AdminSetPassword, Crash
<1> QED
  BY <1>1, <1>2, <1>3, <1>4, <1>5, <1>6

\* A link for resetting a password dies with the password it was to replace,
\* in whatever order links are mailed and passwords are changed.
THEOREM LinksDieWithPasswords == Spec => []LinkDiesWithPassword
<1>1. Init => LinkDiesWithPassword
  BY DEF Init, LinkDiesWithPassword
<1>2. Typed /\ LinkDiesWithPassword /\ [Next]_vars => LinkDiesWithPassword'
  BY UnusedLinkStep
<1> QED
  BY <1>1, <1>2, AlwaysTyped, PTL DEF Spec

(***************************************************************************)
(* Cookies.  A token is only ever in the hands of one browser; a request   *)
(* that answers with a new token is alone in having it; and a cookie whose *)
(* token is used up is about to be replaced by the request that did it.    *)
(***************************************************************************)
Renewing(r) ==
    \/ pc[r] = "issuing" /\ job[r].tok # 0
    \/ pc[r] = "answering" /\ job[r].answer \in {"set", "clear"}
Answering(r) == pc[r] = "answering" /\ job[r].answer = "set"

OneBrowser ==
    /\ \A r, x \in Tabs : job[r].tok = job[x].tok /\ job[r].tok # 0 => BrowserOf[r] = BrowserOf[x]
    /\ \A r \in Tabs, b \in Browsers : job[r].tok = cookie[b] /\ job[r].tok # 0 => BrowserOf[r] = b
    /\ \A b, d \in Browsers : cookie[b] = cookie[d] /\ cookie[b] # 0 => b = d
HeldAreIssued ==
    /\ \A r \in Tabs : job[r].tok <= issued
    /\ \A b \in Browsers : cookie[b] <= issued
    /\ \A r \in Tabs : pc[r] = "revoking" => job[r].tok # 0
Fresh(r) ==
    Answering(r) =>
        /\ job[r].tok # 0
        /\ row[job[r].tok].state # "rotated" /\ row[job[r].tok].by # BrowserOf[r]
        /\ \A b \in Browsers : cookie[b] # job[r].tok
        /\ \A x \in Tabs : x # r => job[x].tok # job[r].tok
UsedUpRenewed(b) ==
    cookie[b] # 0 /\ row[cookie[b]].state = "rotated" =>
        \E r \in Tabs : BrowserOf[r] = b /\ Renewing(r)
NotKickedByItself(b) == cookie[b] # 0 => row[cookie[b]].by # b

CookieInv ==
    /\ OneBrowser /\ HeldAreIssued /\ \A r \in Tabs : Fresh(r)
    /\ \A b \in Browsers : UsedUpRenewed(b) /\ NotKickedByItself(b)

LEMMA CookieInit == Init => CookieInv
  BY SessionsAssumption DEF Init, CookieInv, OneBrowser, HeldAreIssued, Fresh, Answering,
     UsedUpRenewed, NotKickedByItself, NoJob

LEMMA CookieTypes ==
  ASSUME Typed
  PROVE  /\ \A r \in Tabs : /\ BrowserOf[r] \in Browsers /\ job[r].tok \in Nat
                            /\ job[r].tok # 0 /\ job[r].tok <= issued => job[r].tok \in Token
         /\ \A b \in Browsers : /\ cookie[b] \in Nat
                                /\ cookie[b] # 0 => cookie[b] \in Token
         /\ issued \in Nat
  BY SessionsAssumption DEF Typed, TypeOK, JobType, Token

\* Steps that leave the cookies alone, use up no token and hand out none.
RowsHarmless ==
    \A t \in Token : row'[t] = row[t] \/ (row'[t].state = "revoked" /\ row'[t].by = NoUser)
JobHarmless(x) ==
    \/ pc'[x] = pc[x] /\ job'[x].tok = job[x].tok /\ job'[x].answer = job[x].answer
    \/ ~Renewing(x) /\ pc'[x] # "revoking" /\ job'[x].tok = 0 /\ ~Answering(x)'
    \/ /\ pc'[x] = "answering" /\ job'[x].answer = "clear"
       /\ job'[x].tok = job[x].tok \/ job'[x].tok = 0

LEMMA HarmlessSteps ==
  ASSUME Typed, CookieInv, RowsHarmless, \A x \in Tabs : JobHarmless(x),
         cookie' = cookie, issued' = issued
  PROVE  CookieInv'
<1> USE CookieTypes
<1>1. \A x \in Tabs : /\ job'[x].tok = job[x].tok \/ job'[x].tok = 0
                      /\ Renewing(x) => Renewing(x)'
                      /\ Answering(x)' => Answering(x) /\ job'[x].tok = job[x].tok
                      /\ pc'[x] = "revoking" => job'[x].tok = job[x].tok /\ pc[x] = "revoking"
  BY DEF JobHarmless, Renewing, Answering
<1>2. OneBrowser'
  BY <1>1 DEF CookieInv, OneBrowser
<1>3. HeldAreIssued'
  BY <1>1 DEF CookieInv, HeldAreIssued
<1>4. ASSUME NEW r \in Tabs PROVE Fresh(r)'
  <2> SUFFICES ASSUME Answering(r)' PROVE Fresh(r)'
    BY DEF Fresh
  <2>1. Answering(r) /\ job'[r].tok = job[r].tok /\ Fresh(r)
    BY <1>1 DEF CookieInv
  <2>2. job[r].tok \in Token
    BY <2>1 DEF Fresh, CookieInv, HeldAreIssued
  <2>3. NoUser # BrowserOf[r]
    BY SessionsAssumption
  <2> QED
    BY <1>1, <2>1, <2>2, <2>3 DEF Fresh, RowsHarmless
<1>5. ASSUME NEW b \in Browsers PROVE UsedUpRenewed(b)' /\ NotKickedByItself(b)'
  <2>1. UsedUpRenewed(b) /\ NotKickedByItself(b) /\ b # NoUser
    BY SessionsAssumption DEF CookieInv
  <2>2. cookie[b] # 0 => cookie[b] \in Token
    OBVIOUS
  <2> QED
    BY <1>1, <2>1, <2>2 DEF UsedUpRenewed, NotKickedByItself, RowsHarmless
<1> QED
  BY <1>2, <1>3, <1>4, <1>5 DEF CookieInv

LEMMA RevokedIsHarmless ==
  ASSUME Typed,
         \/ \E t \in Token : Revoke(t, "revoked")
         \/ \E u \in Users : RevokeAllForUser(u) \/ AdminDelete(u)
  PROVE  RowsHarmless
<1>1. \A t \in Token : /\ Dead(t, "revoked", NoUser).state = "revoked"
                       /\ Dead(t, "revoked", NoUser).by = NoUser
  BY DEF Dead, Typed, TypeOK, RowType
<1> QED
  BY <1>1 DEF RowsHarmless, Revoke, RevokeAllForUser, AdminDelete, Typed, TypeOK

LEMMA NothingInHand ==
  /\ NoJob.tok = 0 /\ NoJob.answer = "keep"
  /\ [NoJob EXCEPT !.answer = "clear"].tok = 0 /\ [NoJob EXCEPT !.answer = "clear"].answer = "clear"
  /\ \A u : For(u).tok = 0 /\ For(u).answer = "keep"
  /\ \A u, g : Opening(u, g).tok = 0 /\ Opening(u, g).answer = "keep"
  BY DEF NoJob, For, Opening

\* A request that ends or begins with no token in hand.
LEMMA EmptyHanded ==
  ASSUME Typed, NEW r \in Tabs, NEW where, NEW j \in JobType,
         pc[r] = "idle" \/ ~Renewing(r), where # "revoking",
         j.tok = 0, j.answer # "set",
         pc' = [pc EXCEPT ![r] = where], job' = [job EXCEPT ![r] = j]
  PROVE  \A x \in Tabs : JobHarmless(x)
<1>1. pc'[r] = where /\ job'[r] = j /\ ~Renewing(r)
  BY DEF Typed, TypeOK, Renewing
<1>2. \A x \in Tabs : x # r => pc'[x] = pc[x] /\ job'[x] = job[x]
  BY DEF Typed, TypeOK
<1> QED
  BY <1>1, <1>2 DEF JobHarmless, Answering

LEMMA SameHands ==
  ASSUME UNCHANGED work PROVE \A x \in Tabs : JobHarmless(x)
  BY DEF work, JobHarmless

LEMMA CookieLogoutOthers ==
  ASSUME Typed, CookieInv, NEW r \in Tabs, NEW u \in Users, LogoutOthers(r, u)
  PROVE  CookieInv'
<1> USE CookieTypes
<1>1. UNCHANGED <<issued, cookie, pc, job>>
  BY DEF LogoutOthers, work
<1> DEFINE who == IF Alone(r) THEN BrowserOf[r] ELSE NoUser
<1>2. \A t \in Token : \/ row'[t] = row[t]
                       \/ t # Mine(r) /\ row'[t].state = "kicked" /\ row'[t].by = who
  <2>1. \A t \in Token : Dead(t, "kicked", who).state = "kicked" /\ Dead(t, "kicked", who).by = who
    BY DEF Dead, Typed, TypeOK, RowType
  <2> QED
    BY <2>1 DEF LogoutOthers, RevokeAllForUserExcept, Typed, TypeOK
<1>3. OneBrowser' /\ HeldAreIssued'
  BY <1>1 DEF CookieInv, OneBrowser, HeldAreIssued
<1>4. ASSUME NEW x \in Tabs PROVE Fresh(x)'
  <2> SUFFICES ASSUME Answering(x) PROVE Fresh(x)'
    BY <1>1 DEF Fresh, Answering
  <2>1. Fresh(x) /\ job[x].tok \in Token
    BY DEF CookieInv, Fresh, HeldAreIssued
  <2>2. pc[x] # "idle" /\ pc[r] = "idle"
    BY DEF Answering, LogoutOthers
  <2>3. who # BrowserOf[x]
    BY <2>2, SessionsAssumption DEF Alone
  <2> QED
    BY <1>1, <1>2, <2>1, <2>3 DEF Fresh, Answering
<1>5. ASSUME NEW b \in Browsers PROVE UsedUpRenewed(b)' /\ NotKickedByItself(b)'
  <2>1. UsedUpRenewed(b) /\ NotKickedByItself(b) /\ b # NoUser
    BY SessionsAssumption DEF CookieInv
  <2>2. cookie[b] # 0 => cookie[b] \in Token
    OBVIOUS
  <2>3. cookie[b] # 0 /\ cookie[b] # Mine(r) => who # b
    BY <2>1 DEF Mine
  <2> QED
    BY <1>1, <1>2, <2>1, <2>2, <2>3 DEF UsedUpRenewed, NotKickedByItself, Renewing
<1> QED
  BY <1>3, <1>4, <1>5 DEF CookieInv

LEMMA CookieRefreshRead ==
  ASSUME Typed, CookieInv, NEW r \in Tabs, Live(Mine(r)), Mine(r) # 0,
         Begin(r, "revoking", Exchanging(Mine(r))), UNCHANGED <<row, issued, cookie>>
  PROVE  CookieInv'
<1> USE CookieTypes
<1> DEFINE b == BrowserOf[r]
<1>1. /\ pc[r] = "idle" /\ pc'[r] = "revoking" /\ job'[r].tok = cookie[b]
      /\ cookie[b] # 0 /\ cookie[b] \in Token /\ cookie[b] <= issued
      /\ \A x \in Tabs : x # r => pc'[x] = pc[x] /\ job'[x] = job[x]
  <2>1. Mine(r) \in Token
    BY DEF Mine
  <2>2. Exchanging(Mine(r)).tok = Mine(r)
    BY <2>1, ExchangingTyped DEF Typed
  <2> QED
    BY <2>1, <2>2 DEF Begin, Mine, Typed, TypeOK, CookieInv, HeldAreIssued
<1>2. OneBrowser'
  BY <1>1 DEF CookieInv, OneBrowser
<1>3. HeldAreIssued'
  BY <1>1 DEF CookieInv, HeldAreIssued
<1>4. ASSUME NEW x \in Tabs PROVE Fresh(x)'
  <2> SUFFICES ASSUME Answering(x)' PROVE Fresh(x)'
    BY DEF Fresh
  <2>1. x # r /\ Answering(x) /\ Fresh(x)
    BY <1>1 DEF Answering, CookieInv
  <2> QED
    BY <1>1, <2>1 DEF Fresh
<1>5. ASSUME NEW d \in Browsers PROVE UsedUpRenewed(d)' /\ NotKickedByItself(d)'
  <2>1. \A x \in Tabs : Renewing(x) => Renewing(x)'
    BY <1>1 DEF Renewing
  <2> QED
    BY <1>1, <2>1 DEF CookieInv, UsedUpRenewed, NotKickedByItself
<1> QED
  BY <1>2, <1>3, <1>4, <1>5 DEF CookieInv

LEMMA CookieRefreshRevoke ==
  ASSUME Typed, CookieInv, NEW r \in Tabs, RefreshRevoke(r)
  PROVE  CookieInv'
<1> USE CookieTypes
<1>1. /\ UNCHANGED <<issued, cookie, job>>
      /\ pc[r] = "revoking" /\ pc'[r] = "issuing" /\ job[r].tok # 0
      /\ \A x \in Tabs : x # r => pc'[x] = pc[x]
  BY DEF RefreshRevoke, Goto, Typed, TypeOK, CookieInv, HeldAreIssued
<1>2. \A t \in Token : \/ row'[t] = row[t]
                       \/ t = job[r].tok /\ row'[t].by = NoUser
  <2>1. \A t \in Token : Dead(t, "rotated", NoUser).by = NoUser
    BY DEF Dead, Typed, TypeOK, RowType
  <2> QED
    BY <2>1 DEF RefreshRevoke, Revoke, Typed, TypeOK
<1>3. OneBrowser'
  BY <1>1 DEF CookieInv, OneBrowser
<1>4. HeldAreIssued'
  BY <1>1 DEF CookieInv, HeldAreIssued
<1>5. Renewing(r)' /\ \A x \in Tabs : Renewing(x) => Renewing(x)'
  BY <1>1 DEF Renewing
<1>6. ASSUME NEW x \in Tabs PROVE Fresh(x)'
  <2> SUFFICES ASSUME Answering(x)' PROVE Fresh(x)'
    BY DEF Fresh
  <2>1. x # r /\ Answering(x) /\ Fresh(x)
    BY <1>1 DEF Answering, CookieInv
  <2>2. job[x].tok \in Token /\ job[x].tok # job[r].tok
    BY <2>1 DEF Fresh, CookieInv, HeldAreIssued
  <2> QED
    BY <1>1, <1>2, <2>1, <2>2 DEF Fresh
<1>7. ASSUME NEW b \in Browsers PROVE UsedUpRenewed(b)' /\ NotKickedByItself(b)'
  <2>1. UsedUpRenewed(b) /\ NotKickedByItself(b) /\ b # NoUser
    BY SessionsAssumption DEF CookieInv
  <2>2. CASE cookie[b] = job[r].tok
    <3>1. BrowserOf[r] = b
      BY <1>1, <2>2 DEF CookieInv, OneBrowser
    <3>2. cookie[b] \in Token
      BY <1>1, <2>2
    <3> QED
      BY <1>1, <1>2, <1>5, <2>1, <3>1, <3>2 DEF UsedUpRenewed, NotKickedByItself
  <2>3. CASE cookie[b] # job[r].tok
    <3>1. cookie[b] # 0 => cookie[b] \in Token
      OBVIOUS
    <3> QED
      BY <1>1, <1>2, <1>5, <2>1, <2>3, <3>1 DEF UsedUpRenewed, NotKickedByItself
  <2> QED
    BY <2>2, <2>3
<1> QED
  BY <1>3, <1>4, <1>6, <1>7 DEF CookieInv

LEMMA CookieIssue ==
  ASSUME Typed, CookieInv, NEW r \in Tabs, Issue(r), There(job[r].user)
  PROVE  CookieInv'
<1> USE CookieTypes
<1>1. /\ issued' = issued + 1 /\ issued' \in Token /\ cookie' = cookie
      /\ row'[issued'].state = "live" /\ row'[issued'].by = NoUser
      /\ \A t \in Token : t # issued' => row'[t] = row[t]
      /\ \A x \in Tabs : x # r => pc'[x] = pc[x] /\ job'[x] = job[x]
      /\ pc[r] = "issuing" /\ pc'[r] = "answering"
      /\ job'[r].tok = issued' /\ job'[r].answer = "set"
  <2>1. row'[issued + 1].by = NoUser /\ job'[r].tok = issued + 1 /\ job'[r].answer = "set"
    BY IssueTyped DEF Issue, Typed, TypeOK, JobType
  <2> QED
    BY <2>1, IssueTyped DEF Issue
<1>2. /\ \A x \in Tabs : x # r => job'[x].tok # issued' /\ job'[x].tok <= issued
      /\ \A b \in Browsers : cookie[b] # issued' /\ cookie[b] <= issued
      /\ issued' # 0
  BY <1>1 DEF CookieInv, HeldAreIssued
<1>3. OneBrowser'
  <2>1. OneBrowser
    BY DEF CookieInv
  <2> QED
    BY <1>1, <1>2, <2>1 DEF OneBrowser
<1>4. HeldAreIssued'
  BY <1>1, <1>2 DEF CookieInv, HeldAreIssued
<1>5. ASSUME NEW x \in Tabs PROVE Fresh(x)'
  <2> SUFFICES ASSUME Answering(x)' PROVE Fresh(x)'
    BY DEF Fresh
  <2>1. CASE x = r
    BY <1>1, <1>2, <2>1, SessionsAssumption DEF Fresh
  <2>2. CASE x # r
    <3>1. Answering(x) /\ Fresh(x)
      BY <1>1, <2>2 DEF Answering, CookieInv
    <3>2. job[x].tok \in Token /\ job[x].tok # issued'
      BY <1>1, <1>2, <2>2, <3>1 DEF Fresh, CookieInv, HeldAreIssued
    <3> QED
      BY <1>1, <1>2, <2>2, <3>1, <3>2 DEF Fresh
  <2> QED
    BY <2>1, <2>2
<1>6. ASSUME NEW b \in Browsers PROVE UsedUpRenewed(b)' /\ NotKickedByItself(b)'
  <2>1. UsedUpRenewed(b) /\ NotKickedByItself(b)
    BY DEF CookieInv
  <2>2. cookie[b] # 0 => row'[cookie[b]] = row[cookie[b]]
    BY <1>1, <1>2
  <2>3. \A x \in Tabs : Renewing(x) => Renewing(x)'
    BY <1>1 DEF Renewing
  <2> QED
    BY <1>1, <2>1, <2>2, <2>3 DEF UsedUpRenewed, NotKickedByItself
<1> QED
  BY <1>3, <1>4, <1>5, <1>6 DEF CookieInv

LEMMA CookieDeliver ==
  ASSUME Typed, CookieInv, NEW r \in Tabs, Deliver(r)
  PROVE  CookieInv'
<1> USE CookieTypes
<1> DEFINE b == BrowserOf[r]
<1>1. /\ UNCHANGED <<row, issued>> /\ pc[r] = "answering" /\ pc'[r] = "idle"
      /\ job'[r].tok = 0
      /\ \A x \in Tabs : x # r => pc'[x] = pc[x] /\ job'[x] = job[x]
      /\ \A d \in Browsers : d # b => cookie'[d] = cookie[d]
  BY NothingInHand DEF Deliver, End, tokens, Typed, TypeOK
<1>2. /\ job[r].answer = "set" => cookie'[b] = job[r].tok
      /\ job[r].answer = "clear" => cookie'[b] = 0
      /\ job[r].answer = "keep" => cookie'[b] = cookie[b]
      /\ job[r].answer \in {"keep", "set", "clear"}
  BY DEF Deliver, Typed, TypeOK, JobType
<1>3. CASE job[r].answer = "keep"
  <2>1. cookie' = cookie
    BY <1>3 DEF Deliver, Typed, TypeOK
  <2>2. \A x \in Tabs : JobHarmless(x)
    BY <1>1, <1>3 DEF JobHarmless, Renewing, Answering
  <2>3. RowsHarmless
    BY <1>1 DEF RowsHarmless
  <2> QED
    BY <1>1, <2>1, <2>2, <2>3, HarmlessSteps
<1>4. CASE job[r].answer \in {"set", "clear"}
  <2>1. (Answering(r) /\ Fresh(r)) \/ cookie'[b] = 0
    BY <1>1, <1>2, <1>4 DEF Answering, CookieInv
  <2>2. /\ \A x \in Tabs : x # r /\ cookie'[b] # 0 => job[x].tok # cookie'[b]
        /\ \A d \in Browsers : d # b /\ cookie'[b] # 0 => cookie[d] # cookie'[b]
        /\ cookie'[b] # 0 => row[cookie'[b]].state # "rotated" /\ row[cookie'[b]].by # b
        /\ cookie'[b] <= issued
    BY <1>2, <1>4, <2>1 DEF Fresh, Answering, CookieInv, HeldAreIssued
  <2>3. OneBrowser'
    <3>1. OneBrowser
      BY DEF CookieInv
    <3> QED
      BY <1>1, <2>2, <3>1 DEF OneBrowser
  <2>4. HeldAreIssued'
    BY <1>1, <2>2 DEF CookieInv, HeldAreIssued
  <2>5. ASSUME NEW x \in Tabs PROVE Fresh(x)'
    <3> SUFFICES ASSUME Answering(x)' PROVE Fresh(x)'
      BY DEF Fresh
    <3>1. x # r /\ Answering(x) /\ Fresh(x)
      BY <1>1 DEF Answering, CookieInv
    <3>2. \A d \in Browsers : cookie'[d] # job[x].tok
      BY <1>1, <2>2, <3>1 DEF Fresh
    <3> QED
      BY <1>1, <3>1, <3>2 DEF Fresh
  <2>6. ASSUME NEW d \in Browsers PROVE UsedUpRenewed(d)' /\ NotKickedByItself(d)'
    <3>1. CASE d = b
      BY <1>1, <2>2, <3>1 DEF UsedUpRenewed, NotKickedByItself
    <3>2. CASE d # b
      <4>1. \A x \in Tabs : BrowserOf[x] = d /\ Renewing(x) => Renewing(x)'
        BY <1>1, <3>2 DEF Renewing
      <4>2. cookie'[d] = cookie[d] /\ UsedUpRenewed(d) /\ NotKickedByItself(d)
        BY <1>1, <3>2 DEF CookieInv
      <4> QED
        BY <1>1, <4>1, <4>2 DEF UsedUpRenewed, NotKickedByItself
    <3> QED
      BY <3>1, <3>2
  <2> QED
    BY <2>3, <2>4, <2>5, <2>6 DEF CookieInv
<1> QED
  BY <1>2, <1>3, <1>4

LEMMA CookieOtherSteps ==
  ASSUME Typed, CookieInv, NEW r \in Tabs,
         \/ \E u \in Users : LoginCheck(r, u) \/ ResetRead(r, u)
         \/ RefreshRead(r) \/ Issue(r) \/ Logout(r) \/ ResetSet(r) \/ ResetCut(r)
  PROVE  CookieInv'
<1> USE DEF work, users, tokens
<1>1. ASSUME NEW u \in Users, LoginCheck(r, u) \/ ResetRead(r, u) PROVE CookieInv'
  <2>1. For(u) \in JobType /\ Opening(u, pw[u]) \in JobType
    BY NewJobTyped DEF Typed
  <2>2. \A x \in Tabs : JobHarmless(x)
    BY <1>1, <2>1, NothingInHand, EmptyHanded DEF LoginCheck, ResetRead, Begin
  <2>3. UNCHANGED <<row, issued, cookie>>
    BY <1>1 DEF LoginCheck, ResetRead
  <2> QED
    BY <2>2, <2>3, HarmlessSteps DEF RowsHarmless
<1>2. CASE RefreshRead(r)
  <2>1. UNCHANGED <<row, issued, cookie>> /\ Mine(r) # 0
    BY <1>2 DEF RefreshRead
  <2>2. CASE Live(Mine(r)) /\ Begin(r, "revoking", Exchanging(Mine(r)))
    BY <2>1, <2>2, CookieRefreshRead
  <2>3. CASE Begin(r, "answering", [NoJob EXCEPT !.answer = "clear"])
    <3>1. [NoJob EXCEPT !.answer = "clear"] \in JobType
      BY NoJobTyped DEF JobType
    <3>2. \A x \in Tabs : JobHarmless(x)
      BY <2>3, <3>1, NothingInHand, EmptyHanded DEF Begin
    <3> QED
      BY <2>1, <3>2, HarmlessSteps DEF RowsHarmless
  <2> QED
    BY <1>2, <2>2, <2>3 DEF RefreshRead
<1>3. CASE Issue(r)
  <2>1. CASE There(job[r].user)
    BY <1>3, <2>1, CookieIssue
  <2>2. CASE ~There(job[r].user)
    <3>1. /\ UNCHANGED <<row, issued, cookie>> /\ pc[r] = "issuing" /\ pc'[r] = "answering"
          /\ job'[r].tok = job[r].tok
          /\ job'[r].answer = IF job[r].tok = 0 THEN "keep" ELSE "clear"
          /\ \A x \in Tabs : x # r => pc'[x] = pc[x] /\ job'[x] = job[x]
      BY <1>3, <2>2 DEF Issue, Answer, Typed, TypeOK, JobType
    <3>2. \A x \in Tabs : JobHarmless(x)
      BY <3>1 DEF JobHarmless, Renewing, Answering
    <3> QED
      BY <3>1, <3>2, HarmlessSteps DEF RowsHarmless
  <2> QED
    BY <2>1, <2>2
<1>4. CASE Logout(r)
  <2>1. RowsHarmless
    <3>1. Mine(r) \in Token
      BY <1>4, CookieTypes DEF Logout, Mine
    <3> QED
      BY <1>4, <3>1, RevokedIsHarmless DEF Logout
  <2>2. [NoJob EXCEPT !.answer = "clear"] \in JobType
    BY NoJobTyped DEF JobType
  <2>3. \A x \in Tabs : JobHarmless(x)
    BY <1>4, <2>2, NothingInHand, EmptyHanded DEF Logout, Begin
  <2> QED
    BY <1>4, <2>1, <2>3, HarmlessSteps DEF Logout
<1>5. CASE ResetSet(r)
  <2>1. /\ UNCHANGED <<row, issued, cookie>> /\ pc[r] = "setting" /\ pc'[r] = "cutting"
        /\ job'[r].tok = job[r].tok /\ job'[r].answer = job[r].answer
        /\ \A x \in Tabs : x # r => pc'[x] = pc[x] /\ job'[x] = job[x]
    BY <1>5 DEF ResetSet, Typed, TypeOK, JobType
  <2>2. CookieInv'
    <3>1. \A x \in Tabs : /\ job'[x].tok = job[x].tok
                          /\ Renewing(x)' <=> Renewing(x)
                          /\ Answering(x)' <=> Answering(x)
                          /\ pc'[x] = "revoking" <=> pc[x] = "revoking"
      BY <2>1 DEF Renewing, Answering
    <3>2. OneBrowser' /\ HeldAreIssued'
      BY <2>1, <3>1 DEF CookieInv, OneBrowser, HeldAreIssued
    <3>3. \A x \in Tabs : Fresh(x)'
      BY <2>1, <3>1 DEF CookieInv, Fresh
    <3>4. \A b \in Browsers : UsedUpRenewed(b)' /\ NotKickedByItself(b)'
      BY <2>1, <3>1 DEF CookieInv, UsedUpRenewed, NotKickedByItself
    <3> QED
      BY <3>2, <3>3, <3>4 DEF CookieInv
  <2> QED
    BY <2>2
<1>6. CASE ResetCut(r)
  <2>1. /\ issued' = issued /\ cookie' = cookie /\ pc[r] = "cutting"
        /\ job[r].user \in Users /\ RevokeAllForUser(job[r].user)
    BY <1>6 DEF ResetCut, Typed, JobsOfUsers, Works
  <2>2. RowsHarmless
    BY <2>1, RevokedIsHarmless
  <2>3. ASSUME NEW x \in Tabs PROVE JobHarmless(x)
    <3>1. CASE x = r
      <4>1. job'[r] = NoJob /\ pc'[r] = "idle"
        BY <1>6, CutTyped DEF Typed, TypeOK
      <4> QED
        BY <2>1, <3>1, <4>1, NothingInHand DEF JobHarmless, Renewing, Answering
    <3>2. CASE x # r
      <4>1. pc'[x] = pc[x] /\ (job'[x] = job[x] \/ job'[x] = [job[x] EXCEPT !.late = TRUE])
        BY <1>6, <3>2, CutTyped DEF Typed, TypeOK
      <4>2. job[x] \in JobType
        BY DEF Typed, TypeOK
      <4> QED
        BY <4>1, <4>2 DEF JobHarmless, JobType
    <3> QED
      BY <3>1, <3>2
  <2> QED
    BY <2>1, <2>2, <2>3, HarmlessSteps
<1> QED
  BY <1>1, <1>2, <1>3, <1>4, <1>5, <1>6

LEMMA CookieStep ==
  Typed /\ (faults = 0 => CookieInv) /\ [Next]_vars => (faults = 0 => CookieInv)'
<1> SUFFICES ASSUME Typed, faults = 0 => CookieInv, [Next]_vars, faults' = 0
             PROVE  CookieInv'
  OBVIOUS
<1>a. faults \in Nat /\ (Fault => faults' = faults + 1)
  BY SessionsAssumption DEF Typed, TypeOK, Fault
<1>0. faults = 0 /\ CookieInv /\ ~Fault
  <2>1. ~Fault
    BY <1>a
  <2>2. faults' = faults
    BY <2>1
    DEF Next, vars, work, users, tokens, LoginCheck, LogoutOthers, ResetRead, RefreshRead,
        RefreshRevoke, Issue, Logout, ResetSet, ResetCut, Deliver, RequestFails, AnswerLost,
        ForgotPassword, UpdateOwnProfile, AdminCreate, AdminSetPassword, AdminDelete, Crash
  <2> QED
    BY <2>1, <2>2
<1>1. ASSUME NEW r \in Tabs, NEW u \in Users,
             LoginCheck(r, u) \/ LogoutOthers(r, u) \/ ResetRead(r, u)
      PROVE  CookieInv'
  BY <1>0, <1>1, CookieOtherSteps, CookieLogoutOthers
<1>2. ASSUME NEW r \in Tabs,
             \/ RefreshRead(r) \/ Issue(r) \/ Logout(r) \/ ResetSet(r) \/ ResetCut(r)
      PROVE  CookieInv'
  BY <1>0, <1>2, CookieOtherSteps
<1>3. ASSUME NEW r \in Tabs, RefreshRevoke(r) \/ Deliver(r) PROVE CookieInv'
  BY <1>0, <1>3, CookieRefreshRevoke, CookieDeliver
<1>4. ASSUME NEW u \in Users, \/ ForgotPassword(u) \/ UpdateOwnProfile(u)
                              \/ AdminCreate(u) \/ AdminSetPassword(u) \/ AdminDelete(u)
      PROVE  CookieInv'
  <2>1. UNCHANGED work /\ cookie' = cookie /\ issued' = issued
    BY <1>4 DEF tokens, ForgotPassword, UpdateOwnProfile, AdminCreate, AdminSetPassword, AdminDelete
  <2>2. RowsHarmless
    <3>1. row' = row \/ AdminDelete(u)
      BY <1>4 DEF tokens, ForgotPassword, UpdateOwnProfile, AdminCreate, AdminSetPassword
    <3> QED
      BY <3>1, RevokedIsHarmless DEF RowsHarmless
  <2> QED
    BY <1>0, <2>1, <2>2, SameHands, HarmlessSteps
<1>5. ASSUME NEW r \in Tabs, RequestFails(r) \/ AnswerLost(r) PROVE CookieInv'
  BY <1>0, <1>5 DEF RequestFails, AnswerLost
<1>6. CASE Crash
  BY <1>0, <1>6 DEF Crash
<1>7. CASE UNCHANGED vars
  <2>1. UNCHANGED <<row, issued, cookie, work>>
    BY <1>7 DEF vars, tokens
  <2> QED
    BY <1>0, <2>1, SameHands, HarmlessSteps DEF RowsHarmless
<1> QED
  BY <1>1, <1>2, <1>3, <1>4, <1>5, <1>6, <1>7 DEF Next

\* While no answer is lost and no statement fails, a browser between two
\* requests never holds a token that its own refresh has used up, nor one that
\* its own "log out other sessions" has revoked, however its tabs' requests
\* overlap.
THEOREM QuietCookiesAreUsable == Spec => []CookieUsable
<1>1. Init => (faults = 0 => CookieInv)
  BY CookieInit
<1>2. Typed /\ (faults = 0 => CookieInv) /\ [Next]_vars => (faults = 0 => CookieInv)'
  BY CookieStep
<1>3. (faults = 0 => CookieInv) => CookieUsable
  BY DEF CookieInv, CookieUsable, Quiet, UsedUpRenewed, NotKickedByItself, Renewing
<1> QED
  BY <1>1, <1>2, <1>3, AlwaysTyped, PTL DEF Spec
=============================================================================
