--------------------------- MODULE OwnerAccessProofs ---------------------------
(***************************************************************************)
(* Theorems about OwnerAccess, for every set of forms and of visitors,     *)
(* every lifetime of a ticket, every longest stay and number of passwords. *)
(***************************************************************************)
EXTENDS OwnerAccess, TLAPS

\* The clock moves an expiry and a ticket's time left within their ranges.
LEMMA SoonerExpiry == ASSUME NEW e \in Expiries PROVE Sooner(e) \in Expiries
  BY OwnerAccessAssumption DEF Sooner, Expiries

LEMMA SoonerLeft == ASSUME NEW n \in 0..TicketTTL PROVE Sooner(n) \in 0..TicketTTL
  BY OwnerAccessAssumption DEF Sooner

\* The row and every form, visit and ticket keep their types; above all a ticket
\* never lives longer than TicketTTL.
THEOREM OwnerTypeCorrect == Spec => []TypeOK
<1> USE OwnerAccessAssumption DEF rowVars
<1>1. Init => TypeOK
  BY DEF Init, TypeOK, Expiries, NoForm, NoVisit, NoTicket, NoSweep, FormType, VisitType,
         TicketType
<1>2. TypeOK /\ [Next]_vars => TypeOK'
  <2> SUFFICES ASSUME TypeOK, [Next]_vars PROVE TypeOK'
    OBVIOUS
  <2> USE DEF TypeOK
  <2>1. CASE Tick
    <3>1. expiry' \in Expiries /\ age' \in 0..TicketTTL
      BY <2>1, SoonerExpiry DEF Tick
    <3>2. form' \in [Forms -> FormType]
      BY <2>1, SoonerExpiry DEF Tick, FormType
    <3>3. ticket' \in [Visitors -> TicketType]
      BY <2>1, SoonerLeft DEF Tick, TicketType
    <3> QED
      BY <2>1, <3>1, <3>2, <3>3 DEF Tick
  <2>2. ASSUME NEW f \in Forms, SettingsRead(f) PROVE TypeOK'
    <3>1. PICK setsPw \in BOOLEAN, setsExp \in BOOLEAN :
            \E p \in NewPasswords(setsPw), e \in NewExpiries(setsExp) :
              /\ passwords' = IF setsPw /\ p # 0 THEN passwords + 1 ELSE passwords
              /\ passwords' <= MaxPasswords
              /\ form' = [form EXCEPT ![f] =
                   [at |-> "writing", password |-> p, expiry |-> e, setsPassword |-> setsPw,
                    setsExpiry |-> setsExp, overtaken |-> FALSE]]
      BY <2>2 DEF SettingsRead
    <3>2. PICK p \in NewPasswords(setsPw), e \in NewExpiries(setsExp) :
              /\ passwords' = IF setsPw /\ p # 0 THEN passwords + 1 ELSE passwords
              /\ passwords' <= MaxPasswords
              /\ form' = [form EXCEPT ![f] =
                   [at |-> "writing", password |-> p, expiry |-> e, setsPassword |-> setsPw,
                    setsExpiry |-> setsExp, overtaken |-> FALSE]]
      BY <3>1
    <3>3. p \in 0..MaxPasswords /\ e \in Expiries /\ passwords' \in 0..MaxPasswords
      BY <3>2 DEF NewPasswords, NewExpiries
    <3>4. form' \in [Forms -> FormType]
      BY <3>2, <3>3 DEF FormType
    <3> QED
      BY <2>2, <3>3, <3>4 DEF SettingsRead
  <2>3. ASSUME NEW f \in Forms, SettingsWrite(f) PROVE TypeOK'
    <3>1. /\ password' = form[f].password /\ expiry' = form[f].expiry
          /\ form' = [Overtake(form) EXCEPT ![f] = NoForm]
          /\ UNCHANGED <<status, ticket, passwords>>
      BY <2>3 DEF SettingsWrite
    <3>2. Overtake(form) \in [Forms -> FormType]
      BY DEF Overtake, FormType
    <3>3. NoForm \in FormType
      BY DEF NoForm, Expiries, FormType
    <3>4. form' \in [Forms -> FormType]
      BY <3>1, <3>2, <3>3
    <3>6. sweep' \in [at : {"idle", "listed"}, overtaken : BOOLEAN]
      BY <2>3 DEF SettingsWrite
    <3>7. password' \in 0..MaxPasswords /\ expiry' \in Expiries
      BY <3>1 DEF FormType
    <3>8. CASE form[f].password = password
      <4>1. UNCHANGED <<age, visit>>
        BY <2>3, <3>8 DEF SettingsWrite
      <4> QED
        BY <3>1, <3>4, <3>6, <3>7, <4>1
    <3>9. CASE form[f].password # password
      <4>1. age' = 0 /\ visit' = Overtake(visit)
        BY <2>3, <3>9 DEF SettingsWrite
      <4>2. visit' \in [Visitors -> VisitType]
        BY <4>1 DEF Overtake, VisitType
      <4> QED
        BY <3>1, <3>4, <3>6, <3>7, <4>1, <4>2
    <3> QED
      BY <3>8, <3>9
  <2>4. CASE OwnerDeletes
    BY <2>4 DEF OwnerDeletes
  <2>5. ASSUME NEW v \in Visitors, TicketRead(v) \/ TicketSign(v) PROVE TypeOK'
    <3>1. CASE TicketRead(v)
      <4>1. visit' \in [Visitors -> VisitType]
        BY <3>1 DEF TicketRead, VisitType
      <4> QED
        BY <3>1, <4>1 DEF TicketRead
    <3>2. CASE TicketSign(v)
      <4>1. visit' \in [Visitors -> VisitType]
        BY <3>2 DEF TicketSign, VisitType, NoVisit
      <4>2. ticket' \in [Visitors -> TicketType]
        BY <3>2 DEF TicketSign, VisitType, TicketType, Lifetime
      <4> QED
        BY <3>2, <4>1, <4>2 DEF TicketSign
    <3> QED
      BY <2>5, <3>1, <3>2
  <2>6. CASE SweepList
    BY <2>6 DEF SweepList
  <2>7. CASE SweepDestroy
    BY <2>7 DEF SweepDestroy, NoSweep
  <2>8. CASE UNCHANGED vars
    BY <2>8 DEF vars
  <2> QED
    BY <2>1, <2>2, <2>3, <2>4, <2>5, <2>6, <2>7, <2>8 DEF Next
<1> QED
  BY <1>1, <1>2, PTL DEF Spec

(***************************************************************************)
(* Read, and written a statement later.                                    *)
(***************************************************************************)
\* What a settings request has read, or a sweep has listed, still holds until
\* another request is written.
FormCurrent(f) ==
    form[f].at = "writing" /\ ~form[f].overtaken =>
        /\ ~form[f].setsPassword => form[f].password = password
        /\ ~form[f].setsExpiry => form[f].expiry = expiry
FormsCurrent == \A f \in Forms : FormCurrent(f)
SweepCurrent == sweep.at = "listed" /\ ~sweep.overtaken => expiry = 0

LEMMA FormsStayCurrent == TypeOK /\ FormsCurrent /\ [Next]_vars => FormsCurrent'
<1> SUFFICES ASSUME TypeOK, FormsCurrent, [Next]_vars, NEW f \in Forms PROVE FormCurrent(f)'
  BY DEF FormsCurrent
<1> USE DEF rowVars, FormCurrent
<1>0. FormCurrent(f) /\ form \in [Forms -> FormType]
  BY DEF FormsCurrent, TypeOK
<1>1. CASE Tick
  BY <1>0, <1>1 DEF Tick, FormType
<1>2. ASSUME NEW g \in Forms, SettingsRead(g) PROVE FormCurrent(f)'
  <2>1. PICK setsPw \in BOOLEAN, setsExp \in BOOLEAN :
          \E p \in NewPasswords(setsPw), e \in NewExpiries(setsExp) :
            form' = [form EXCEPT ![g] =
                 [at |-> "writing", password |-> p, expiry |-> e, setsPassword |-> setsPw,
                  setsExpiry |-> setsExp, overtaken |-> FALSE]]
    BY <1>2 DEF SettingsRead
  <2>2. PICK p \in NewPasswords(setsPw), e \in NewExpiries(setsExp) :
            form' = [form EXCEPT ![g] =
                 [at |-> "writing", password |-> p, expiry |-> e, setsPassword |-> setsPw,
                  setsExpiry |-> setsExp, overtaken |-> FALSE]]
    BY <2>1
  <2>3. (~setsPw => p = password) /\ (~setsExp => e = expiry)
    BY <2>2 DEF NewPasswords, NewExpiries
  <2>4. UNCHANGED <<password, expiry>>
    BY <1>2 DEF SettingsRead
  <2> QED
    BY <1>0, <2>2, <2>3, <2>4
<1>3. ASSUME NEW g \in Forms, SettingsWrite(g) PROVE FormCurrent(f)'
  <2>1. form' = [Overtake(form) EXCEPT ![g] = NoForm]
    BY <1>3 DEF SettingsWrite
  <2>2. Overtake(form)[f].at = "idle" \/ Overtake(form)[f].overtaken
    BY <1>0 DEF Overtake, FormType
  <2>3. Overtake(form) = [x \in Forms |-> Overtake(form)[x]]
    BY <1>0 DEF Overtake
  <2>4. form'[f].at = "idle" \/ form'[f].overtaken
    BY <2>1, <2>2, <2>3 DEF NoForm
  <2> QED
    BY <2>4
<1>4. CASE OwnerDeletes \/ SweepList \/ SweepDestroy \/ UNCHANGED vars
  BY <1>0, <1>4 DEF OwnerDeletes, SweepList, SweepDestroy, vars
<1>5. ASSUME NEW v \in Visitors, TicketRead(v) \/ TicketSign(v) PROVE FormCurrent(f)'
  BY <1>0, <1>5 DEF TicketRead, TicketSign
<1> QED
  BY <1>1, <1>2, <1>3, <1>4, <1>5 DEF Next

\* A settings request leaves alone what it was not asked to set, unless another
\* was written between its read and its write.
THEOREM OthersAreLeftAlone == Spec => OthersLeftAlone
<1>1. Init => FormsCurrent
  BY DEF Init, FormsCurrent, FormCurrent, NoForm
<1>2. TypeOK /\ FormsCurrent /\ [Next]_vars =>
        [\A f \in Forms :
           form[f].at = "writing" /\ form'[f].at = "idle" /\ ~form[f].overtaken =>
             /\ ~form[f].setsPassword => password' = password
             /\ ~form[f].setsExpiry => expiry' = expiry]_vars
  <2> SUFFICES ASSUME TypeOK, FormsCurrent, [Next]_vars, NEW f \in Forms,
                      form[f].at = "writing", form'[f].at = "idle", ~form[f].overtaken
               PROVE  /\ ~form[f].setsPassword => password' = password
                      /\ ~form[f].setsExpiry => expiry' = expiry
    OBVIOUS
  <2>0. FormCurrent(f) /\ form \in [Forms -> FormType]
    BY DEF FormsCurrent, TypeOK
  <2> USE DEF rowVars
  <2>1. CASE Tick
    BY <2>0, <2>1 DEF Tick, FormType
  <2>2. ASSUME NEW g \in Forms, SettingsRead(g)
        PROVE  password' = password /\ expiry' = expiry
    BY <2>2 DEF SettingsRead
  <2>3. ASSUME NEW g \in Forms, SettingsWrite(g), g # f PROVE FALSE
    <3>1. Overtake(form)[f].at = "writing" /\ f \in DOMAIN Overtake(form)
      BY <2>0 DEF Overtake, FormType
    <3>2. form'[f].at = "writing"
      BY <2>3, <3>1 DEF SettingsWrite
    <3> QED
      BY <3>2
  <2>4. CASE SettingsWrite(f)
    BY <2>0, <2>4 DEF SettingsWrite, FormCurrent
  <2>5. CASE OwnerDeletes \/ SweepList \/ SweepDestroy \/ UNCHANGED vars
    BY <2>5 DEF OwnerDeletes, SweepList, SweepDestroy, vars
  <2>6. ASSUME NEW v \in Visitors, TicketRead(v) \/ TicketSign(v)
        PROVE  password' = password /\ expiry' = expiry
    BY <2>6 DEF TicketRead, TicketSign
  <2> QED
    BY <2>1, <2>2, <2>3, <2>4, <2>5, <2>6 DEF Next
<1> QED
  BY <1>1, <1>2, OwnerTypeCorrect, FormsStayCurrent, PTL DEF Spec, OthersLeftAlone

LEMMA SweepStaysCurrent == TypeOK /\ SweepCurrent /\ [Next]_vars => SweepCurrent'
<1> SUFFICES ASSUME TypeOK, SweepCurrent, [Next]_vars PROVE SweepCurrent'
  OBVIOUS
<1> USE DEF rowVars, SweepCurrent
<1>1. CASE Tick
  BY <1>1 DEF Tick, Sooner
<1>2. ASSUME NEW f \in Forms, SettingsRead(f) PROVE SweepCurrent'
  BY <1>2 DEF SettingsRead
<1>3. ASSUME NEW f \in Forms, SettingsWrite(f) PROVE SweepCurrent'
  <2>1. sweep' = [sweep EXCEPT !.overtaken = sweep.at = "listed"]
    BY <1>3 DEF SettingsWrite
  <2>2. sweep \in [at : {"idle", "listed"}, overtaken : BOOLEAN]
    BY DEF TypeOK
  <2>3. sweep'.at = sweep.at /\ (sweep'.overtaken <=> sweep.at = "listed")
    BY <2>1, <2>2
  <2> QED
    BY <2>3
<1>4. CASE OwnerDeletes \/ UNCHANGED vars
  BY <1>4 DEF OwnerDeletes, vars
<1>5. CASE SweepList
  BY <1>5 DEF SweepList, Due
<1>6. CASE SweepDestroy
  BY <1>6 DEF SweepDestroy, NoSweep
<1>7. ASSUME NEW v \in Visitors, TicketRead(v) \/ TicketSign(v) PROVE SweepCurrent'
  BY <1>7 DEF TicketRead, TicketSign
<1> QED
  BY <1>1, <1>2, <1>3, <1>4, <1>5, <1>6, <1>7 DEF Next

\* The sweep destroys an upload that has expired, or whose owner has changed the
\* settings after the sweep listed it.
THEOREM SweepWaitsForExpiry == Spec => SweptWhenDue
<1>1. Init => SweepCurrent
  BY DEF Init, SweepCurrent, NoSweep
<1>2. SweepCurrent => [sweep.at = "listed" /\ sweep'.at = "idle" /\ ~sweep.overtaken => expiry = 0]_vars
  BY DEF SweepCurrent
<1> QED
  BY <1>1, <1>2, OwnerTypeCorrect, SweepStaysCurrent, PTL DEF Spec, SweptWhenDue

(***************************************************************************)
(* How long a new password fails to bind.                                  *)
(***************************************************************************)
\* A ticket request that was not overtaken has been shown the password in force;
\* a ticket signed for another one has at most the rest of a lifetime left,
\* counted from the change of the password.
VisitCurrent(v) == visit[v].at = "signing" /\ ~visit[v].overtaken => visit[v].shown = password
TicketFades(v) ==
    TicketValid(ticket[v]) /\ ~ticket[v].overtaken /\ ticket[v].shown # password =>
        age + ticket[v].left <= TicketTTL
TicketsFade == \A v \in Visitors : VisitCurrent(v) /\ TicketFades(v)

LEMMA TicketsKeepFading == TypeOK /\ TicketsFade /\ [Next]_vars => TicketsFade'
<1> SUFFICES ASSUME TypeOK, TicketsFade, [Next]_vars, NEW v \in Visitors
             PROVE  VisitCurrent(v)' /\ TicketFades(v)'
  BY DEF TicketsFade
<1> USE OwnerAccessAssumption DEF rowVars, VisitCurrent, TicketFades, TicketValid
<1>0. /\ VisitCurrent(v) /\ TicketFades(v) /\ age \in 0..TicketTTL
      /\ visit \in [Visitors -> VisitType] /\ ticket \in [Visitors -> TicketType]
      /\ ticket[v].left \in 0..TicketTTL
  BY DEF TicketsFade, TypeOK, TicketType
<1>1. CASE Tick
  <2>1. /\ UNCHANGED <<password, visit>>
        /\ age' = IF age < TicketTTL THEN age + 1 ELSE age
        /\ ticket'[v].shown = ticket[v].shown /\ ticket'[v].overtaken = ticket[v].overtaken
        /\ ticket'[v].left = Sooner(ticket[v].left)
    BY <1>0, <1>1 DEF Tick, TicketType
  <2>2. ticket[v].left = 0 => ticket'[v].left = 0
    BY <2>1 DEF Sooner
  <2>3. ticket[v].left # 0 => ticket'[v].left = ticket[v].left - 1
    BY <1>0, <2>1 DEF Sooner
  <2> QED
    BY <1>0, <2>1, <2>2, <2>3
<1>2. ASSUME NEW f \in Forms, SettingsRead(f) PROVE VisitCurrent(v)' /\ TicketFades(v)'
  BY <1>0, <1>2 DEF SettingsRead
<1>3. ASSUME NEW f \in Forms, SettingsWrite(f) PROVE VisitCurrent(v)' /\ TicketFades(v)'
  <2>1. CASE form[f].password = password
    <3>1. UNCHANGED <<password, age, visit, ticket>>
      BY <1>3, <2>1 DEF SettingsWrite
    <3> QED
      BY <1>0, <3>1
  <2>2. CASE form[f].password # password
    <3>1. age' = 0 /\ visit' = Overtake(visit) /\ ticket' = ticket
      BY <1>3, <2>2 DEF SettingsWrite
    <3>2. visit'[v].at = "idle" \/ visit'[v].overtaken
      BY <1>0, <3>1 DEF Overtake, VisitType
    <3> QED
      BY <1>0, <3>1, <3>2
  <2> QED
    BY <2>1, <2>2
<1>4. CASE OwnerDeletes \/ SweepList \/ SweepDestroy \/ UNCHANGED vars
  BY <1>0, <1>4 DEF OwnerDeletes, SweepList, SweepDestroy, vars
<1>5. ASSUME NEW w \in Visitors, TicketRead(w) PROVE VisitCurrent(v)' /\ TicketFades(v)'
  BY <1>0, <1>5 DEF TicketRead
<1>6. ASSUME NEW w \in Visitors, TicketSign(w) PROVE VisitCurrent(v)' /\ TicketFades(v)'
  <2>1. /\ ticket' = [ticket EXCEPT ![w] = [shown |-> visit[w].shown, left |-> Lifetime,
                                             overtaken |-> visit[w].overtaken]]
        /\ visit' = [visit EXCEPT ![w] = NoVisit]
        /\ UNCHANGED <<password, age>> /\ visit[w].at = "signing"
    BY <1>6 DEF TicketSign
  <2>2. CASE w = v
    <3>1. ticket'[v].shown = visit[v].shown /\ ticket'[v].overtaken = visit[v].overtaken
      BY <1>0, <2>1, <2>2
    <3>2. visit'[v].at = "idle"
      BY <1>0, <2>1, <2>2 DEF NoVisit
    <3> QED
      BY <1>0, <2>1, <2>2, <3>1, <3>2
  <2>3. CASE w # v
    <3>1. ticket'[v] = ticket[v] /\ visit'[v] = visit[v]
      BY <1>0, <2>1, <2>3
    <3> QED
      BY <1>0, <2>1, <3>1
  <2> QED
    BY <2>2, <2>3
<1> QED
  BY <1>1, <1>2, <1>3, <1>4, <1>5, <1>6 DEF Next

\* Once a ticket's lifetime has passed since the password changed, only those who
\* showed it get in, apart from tickets that were being signed at the change.
THEOREM NewPasswordBinds == Spec => []PasswordBindsSoon
<1>1. Init => TicketsFade
  BY DEF Init, TicketsFade, VisitCurrent, TicketFades, TicketValid, NoVisit, NoTicket
<1>2. TypeOK /\ TicketsFade => PasswordBindsSoon
  <2> SUFFICES ASSUME TypeOK, TicketsFade, NEW v \in Visitors,
                      password # 0, Admitted(v), ticket[v].shown # password,
                      ~ticket[v].overtaken
               PROVE  age < TicketTTL
    BY DEF PasswordBindsSoon
  <2>1. TicketValid(ticket[v]) /\ TicketFades(v)
    BY DEF Admitted, TicketsFade
  <2>2. ticket[v].left \in Nat /\ age \in Nat
    BY OwnerAccessAssumption DEF TypeOK, TicketType
  <2> QED
    BY <2>1, <2>2, OwnerAccessAssumption DEF TicketFades, TicketValid
<1> QED
  BY <1>1, <1>2, OwnerTypeCorrect, TicketsKeepFading, PTL DEF Spec
=============================================================================
