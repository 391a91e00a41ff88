---------------------------- MODULE DeliveryProofs ----------------------------
(***************************************************************************)
(* Theorems about Delivery, for every set of requests and of receivers,    *)
(* and every number of faults.                                             *)
(***************************************************************************)
EXTENDS Delivery, TLAPS

USE DEF setup

\* Every request and the destruction by others keep their types, the download
\* log holds receivers only, and the upload is ready or destroyed.
THEOREM DeliveryTypeCorrect == Spec => []TypeOK
<1>1. Init => TypeOK
  BY DeliveryAssumption DEF Init, TypeOK, Codes
<1>2. TypeOK /\ [Next]_vars => TypeOK'
  <2> SUFFICES ASSUME TypeOK, [Next]_vars PROVE TypeOK'
    OBVIOUS
  <2> USE DEF TypeOK, Busy, Goto
  <2>1. ASSUME NEW r \in Readers, Ask(r) PROVE TypeOK'
    BY <2>1 DEF Ask
  <2>2. ASSUME NEW r \in Readers, Log(r) PROVE TypeOK'
    BY <2>2 DEF Log, Logs
  <2>3. ASSUME NEW r \in Readers, Decide(r) PROVE TypeOK'
    <3>1. ShouldDestroy \in BOOLEAN
      BY DEF ShouldDestroy, HasAllReceiversDownloaded
    <3> QED
      BY <2>3, <3>1 DEF Decide
  <2>4. ASSUME NEW r \in Readers, Open(r) \/ StreamBreaks(r) \/ StreamEnds(r) PROVE TypeOK'
    BY <2>4 DEF Open, StreamBreaks, StreamEnds
  <2>5. ASSUME NEW r \in Readers, Remove(r) \/ Mark(r) PROVE TypeOK'
    BY <2>5 DEF Remove, Mark
  <2>6. ASSUME NEW r \in Readers, RequestFails(r) \/ CountFails(r) \/ DestroyFails(r)
        PROVE  TypeOK'
    BY <2>6, DeliveryAssumption DEF RequestFails, CountFails, DestroyFails, Fault
  <2>7. CASE OtherRemove \/ OtherMark
    BY <2>7 DEF OtherRemove, OtherMark
  <2>8. CASE Crash
    BY <2>8, DeliveryAssumption DEF Crash, Fault
  <2>9. CASE UNCHANGED vars
    BY <2>9 DEF vars
  <2> QED
    BY <2>1, <2>2, <2>3, <2>4, <2>5, <2>6, <2>7, <2>8, <2>9 DEF Next, Handle
<1> QED
  BY <1>1, <1>2, PTL DEF Spec

(***************************************************************************)
(* An upload self-destructs only with cause.                               *)
(***************************************************************************)

\* A grant to destroy is given on a log that only grows, so what justified the
\* grant still holds when it is used.
GrantsWithCause ==
    \A r \in Readers : grant[r] => destruct /\ (byMail => Receivers \subseteq logged)

\* A request destroys after it has been served.
DestroysWhenServed ==
    \A r \in Readers : pc[r] \in {"removing", "marking"} => grant[r] /\ Served(r)

\* A request that has been served neither asks nor streams again.
ServedIsOver ==
    \A r \in Readers : sent[r] = "copied" => pc[r] \in {"removing", "marking", "done"}

\* Whatever has destroyed the upload was granted and served.
DestroyedByGrant ==
    Destroyed /\ otherPc = "idle" => \E r \in Readers : grant[r] /\ Served(r)

CauseInv == GrantsWithCause /\ DestroysWhenServed /\ ServedIsOver /\ DestroyedByGrant

\* Nothing is granted or sent at first.
LEMMA InitCauseInv == Init => CauseInv
  BY DEF Init, CauseInv, GrantsWithCause, DestroysWhenServed, ServedIsOver,
     DestroyedByGrant, Destroyed

\* Each step keeps all four: grants are given in Decide, bytes end in
\* StreamEnds, and only granted requests remove and mark.
LEMMA StepCauseInv ==
  ASSUME TypeOK, CauseInv, [Next]_vars
  PROVE  CauseInv'
<1> USE DEF TypeOK, Goto, CauseInv, GrantsWithCause, DestroysWhenServed, ServedIsOver,
            DestroyedByGrant, Destroyed, Served
<1>1. ASSUME NEW r \in Readers, Ask(r) PROVE CauseInv'
  BY <1>1 DEF Ask
<1>2. ASSUME NEW r \in Readers, Log(r) PROVE CauseInv'
  BY <1>2 DEF Log
<1>3. ASSUME NEW r \in Readers, Decide(r) PROVE CauseInv'
  BY <1>3 DEF Decide, ShouldDestroy, HasAllReceiversDownloaded
<1>4. ASSUME NEW r \in Readers, Open(r) PROVE CauseInv'
  BY <1>4 DEF Open
<1>5. ASSUME NEW r \in Readers, StreamBreaks(r) \/ StreamEnds(r) PROVE CauseInv'
  BY <1>5 DEF StreamBreaks, StreamEnds, Destroys
<1>6. ASSUME NEW r \in Readers, Remove(r) \/ Mark(r) PROVE CauseInv'
  BY <1>6 DEF Remove, Mark
<1>7. ASSUME NEW r \in Readers, RequestFails(r) \/ CountFails(r) \/ DestroyFails(r)
      PROVE  CauseInv'
  BY <1>7 DEF RequestFails, CountFails, DestroyFails
<1>8. CASE OtherRemove \/ OtherMark
  BY <1>8 DEF OtherRemove, OtherMark
<1>9. CASE Crash
  BY <1>9 DEF Crash, Busy
<1>10. CASE UNCHANGED vars
  BY <1>10 DEF vars
<1> QED
  BY <1>1, <1>2, <1>3, <1>4, <1>5, <1>6, <1>7, <1>8, <1>9, <1>10 DEF Next, Handle

\* Unless somebody else destroyed it, a destroyed upload was to self-destruct,
\* a full download of it was served, and every receiver of a mail share is in
\* the log, whichever requests overlapped and whatever failed.
THEOREM DestroysOnlyWithCause == Spec => []DestroyedWithCause
<1>1. CauseInv => DestroyedWithCause
  BY DEF CauseInv, GrantsWithCause, DestroyedByGrant, DestroyedWithCause
<1> QED
  BY <1>1, InitCauseInv, StepCauseInv, DeliveryTypeCorrect, PTL DEF Spec

(***************************************************************************)
(* Nothing is opened after it is marked destroyed.                         *)
(***************************************************************************)

\* As long as no removal fails, the files are gone before the status changes.
FilesGoFirst ==
    faults = 0 =>
        /\ \A r \in Readers : pc[r] = "marking" => ~onDisk
        /\ otherPc = "marking" => ~onDisk
        /\ status = "destroyed" => ~onDisk

LEMMA StepFilesGoFirst ==
  ASSUME TypeOK, FilesGoFirst, [Next]_vars
  PROVE  FilesGoFirst'
<1> USE DEF TypeOK, Goto, FilesGoFirst
<1>1. ASSUME NEW r \in Readers, Ask(r) \/ Log(r) \/ Decide(r) \/ Open(r) PROVE FilesGoFirst'
  BY <1>1 DEF Ask, Log, Decide, Open
<1>2. ASSUME NEW r \in Readers, StreamBreaks(r) \/ StreamEnds(r) PROVE FilesGoFirst'
  BY <1>2 DEF StreamBreaks, StreamEnds
<1>3. ASSUME NEW r \in Readers, Remove(r) \/ Mark(r) PROVE FilesGoFirst'
  BY <1>3 DEF Remove, Mark
<1>4. CASE \/ \E r \in Readers : RequestFails(r) \/ CountFails(r) \/ DestroyFails(r)
           \/ Crash
  <2>1. faults' # 0
    BY <1>4, DeliveryAssumption DEF RequestFails, CountFails, DestroyFails, Crash, Fault
  <2> QED
    BY <2>1
<1>5. CASE OtherRemove \/ OtherMark
  BY <1>5 DEF OtherRemove, OtherMark
<1>6. CASE UNCHANGED vars
  BY <1>6 DEF vars
<1> QED
  BY <1>1, <1>2, <1>3, <1>4, <1>5, <1>6 DEF Next, Handle

\* No request begins to read the artifact of an upload that is marked destroyed.
THEOREM NothingOpenedAfterDestroyed == Spec => NoOpenAfterDestroyed
<1>1. Init => FilesGoFirst
  BY DEF Init, FilesGoFirst
<1>2. ASSUME TypeOK, FilesGoFirst, [Next]_vars, NEW r \in Readers,
             pc[r] = "opening", pc'[r] = "streaming", faults = 0
      PROVE  status = "ready"
  <2>1. onDisk
    <3> USE DEF TypeOK, Goto
    <3>1. CASE \E q \in Readers : Open(q)
      BY <1>2, <3>1 DEF Open
    <3>2. CASE \E q \in Readers : Ask(q) \/ Log(q) \/ Decide(q)
      BY <1>2, <3>2 DEF Ask, Log, Decide
    <3>3. CASE \E q \in Readers : StreamBreaks(q) \/ StreamEnds(q) \/ Remove(q) \/ Mark(q)
      BY <1>2, <3>3 DEF StreamBreaks, StreamEnds, Remove, Mark
    <3>4. CASE \E q \in Readers : RequestFails(q) \/ CountFails(q) \/ DestroyFails(q)
      BY <1>2, <3>4 DEF RequestFails, CountFails, DestroyFails
    <3>5. CASE OtherRemove \/ OtherMark \/ Crash \/ UNCHANGED vars
      BY <1>2, <3>5 DEF OtherRemove, OtherMark, Crash, Busy, vars
    <3> QED
      BY <1>2, <3>1, <3>2, <3>3, <3>4, <3>5 DEF Next, Handle
  <2> QED
    BY <1>2, <2>1 DEF TypeOK, FilesGoFirst
<1>3. TypeOK /\ FilesGoFirst /\ [Next]_vars =>
        [\A r \in Readers :
           pc[r] = "opening" /\ pc'[r] = "streaming" /\ faults = 0 => status = "ready"]_vars
  BY <1>2
<1> QED
  BY <1>1, <1>3, StepFilesGoFirst, DeliveryTypeCorrect, PTL DEF Spec, NoOpenAfterDestroyed

(***************************************************************************)
(* Everybody is served only by an upload that destroys itself.             *)
(***************************************************************************)
Decided(r) == pc[r] \notin {"idle", "logging", "deciding"}

\* A request decides after it has logged its own code.
DecidesWhenLogged ==
    \A r \in Readers : pc[r] \notin {"idle", "logging"} => Logs(code[r]) \subseteq logged

\* A link share destroys itself after any download.  Of a mail share the last
\* receiver to enter the log does: all of that receiver's requests decide later.
LinkGrants == ~byMail => \A r \in Readers : Decided(r) => grant[r] = destruct
LastReceiverGrants ==
    byMail /\ Receivers \subseteq logged =>
        \E x \in Receivers : \A r \in Readers : code[r] = x /\ Decided(r) => grant[r] = destruct

\* A request that has been served and was granted destroys: at last both of its
\* effects are there.
GrantedDestroys ==
    \A r \in Readers :
        /\ pc[r] = "marking" => ~onDisk
        /\ grant[r] /\ Served(r) =>
             pc[r] \in {"removing", "marking"} \/ (~onDisk /\ status = "destroyed")

LastInv ==
    faults = 0 => DecidesWhenLogged /\ LinkGrants /\ LastReceiverGrants /\ GrantedDestroys

LEMMA LastInvInit == Receivers # {} /\ Init => LastInv
  BY DEF Init, LastInv, DecidesWhenLogged, LinkGrants, LastReceiverGrants, GrantedDestroys,
     Decided, Served

LEMMA LastInvStep == TypeOK /\ CauseInv /\ LastInv /\ [Next]_vars => LastInv'
<1> SUFFICES ASSUME TypeOK, CauseInv, LastInv, [Next]_vars, faults' = 0 PROVE LastInv'
  BY DEF LastInv
<1> USE DEF TypeOK, Goto, Codes
<1>0. /\ faults = 0
      /\ \/ \E r \in Readers : Ask(r) \/ Handle(r)
         \/ OtherRemove \/ OtherMark \/ UNCHANGED vars
  BY DeliveryAssumption
  DEF Next, vars, Fault, RequestFails, CountFails, DestroyFails, Crash, Handle, Ask, Log, Decide,
      Open, StreamBreaks, StreamEnds, Remove, Mark, OtherRemove, OtherMark
<1>l. DecidesWhenLogged /\ LinkGrants /\ LastReceiverGrants /\ GrantedDestroys
  BY <1>0 DEF LastInv
<1>1. ASSUME NEW r \in Readers, Ask(r) PROVE LastInv'
  <2>1. /\ UNCHANGED <<destruct, byMail, status, onDisk, logged, grant, sent>>
        /\ pc[r] = "idle" /\ pc' = [pc EXCEPT ![r] = "logging"] /\ sent[r] # "copied"
        /\ \A q \in Readers : q # r => code'[q] = code[q] /\ full'[q] = full[q]
    BY <1>1 DEF Ask, CauseInv, ServedIsOver
  <2>2. DecidesWhenLogged' /\ LinkGrants' /\ LastReceiverGrants'
    BY <1>l, <2>1 DEF DecidesWhenLogged, LinkGrants, LastReceiverGrants, Decided, Logs
  <2>3. GrantedDestroys'
    BY <1>l, <2>1 DEF GrantedDestroys, Served
  <2> QED
    BY <2>2, <2>3 DEF LastInv
<1>2. ASSUME NEW r \in Readers, Log(r) PROVE LastInv'
  <2>1. /\ UNCHANGED <<destruct, byMail, status, onDisk, code, full, grant, sent>>
        /\ pc[r] = "logging" /\ pc' = [pc EXCEPT ![r] = "deciding"]
        /\ logged' = logged \cup ({code[r]} \cap Receivers)
    BY <1>2 DEF Log, Logs
  <2>2. DecidesWhenLogged' /\ LinkGrants'
    BY <1>l, <2>1 DEF DecidesWhenLogged, LinkGrants, Decided, Logs
  <2>3. GrantedDestroys'
    BY <1>l, <2>1 DEF GrantedDestroys, Served
  <2>4. LastReceiverGrants'
    <3>1. CASE Receivers \subseteq logged
      BY <1>l, <2>1, <3>1 DEF LastReceiverGrants, Decided
    <3>2. CASE ~(Receivers \subseteq logged) /\ Receivers \subseteq logged'
      <4>1. code[r] \in Receivers /\ code[r] \notin logged
        BY <2>1, <3>2
      <4>2. \A q \in Readers : code[q] = code[r] => ~Decided(q)
        BY <1>l, <4>1 DEF DecidesWhenLogged, Decided, Logs
      <4> QED
        BY <2>1, <4>1, <4>2 DEF LastReceiverGrants, Decided
    <3>3. CASE ~(Receivers \subseteq logged')
      BY <3>3 DEF LastReceiverGrants
    <3> QED
      BY <3>1, <3>2, <3>3
  <2> QED
    BY <2>2, <2>3, <2>4 DEF LastInv
<1>3. ASSUME NEW r \in Readers, Decide(r) PROVE LastInv'
  <2>1. /\ UNCHANGED <<destruct, byMail, status, onDisk, logged, code, full, sent>>
        /\ pc[r] = "deciding" /\ pc' = [pc EXCEPT ![r] = "opening"] /\ sent[r] # "copied"
        /\ grant' = [grant EXCEPT ![r] = destruct /\ (byMail => Receivers \subseteq logged)]
    BY <1>3 DEF Decide, ShouldDestroy, HasAllReceiversDownloaded, CauseInv, ServedIsOver
  <2>2. DecidesWhenLogged' /\ LinkGrants' /\ LastReceiverGrants'
    BY <1>l, <2>1 DEF DecidesWhenLogged, LinkGrants, LastReceiverGrants, Decided, Logs
  <2>3. GrantedDestroys'
    BY <1>l, <2>1 DEF GrantedDestroys, Served
  <2> QED
    BY <2>2, <2>3 DEF LastInv
<1>4. ASSUME NEW r \in Readers, Open(r) \/ StreamBreaks(r) \/ StreamEnds(r) PROVE LastInv'
  <2>1. /\ UNCHANGED <<destruct, byMail, status, onDisk, logged, code, full, grant>>
        /\ pc[r] \in {"opening", "streaming"}
        /\ \E to \in {"streaming", "refused", "removing", "done"} : pc' = [pc EXCEPT ![r] = to]
        /\ \A q \in Readers : q # r => sent'[q] = sent[q]
        /\ sent'[r] = "copied" /\ grant[r] /\ full[r] => pc'[r] = "removing"
    BY <1>4 DEF Open, StreamBreaks, StreamEnds, Destroys, CauseInv, ServedIsOver
  <2>2. DecidesWhenLogged' /\ LinkGrants' /\ LastReceiverGrants'
    BY <1>l, <2>1 DEF DecidesWhenLogged, LinkGrants, LastReceiverGrants, Decided, Logs
  <2>3. GrantedDestroys'
    BY <1>l, <2>1 DEF GrantedDestroys, Served
  <2> QED
    BY <2>2, <2>3 DEF LastInv
<1>5. ASSUME NEW r \in Readers, Remove(r) \/ Mark(r) PROVE LastInv'
  <2>1. /\ UNCHANGED <<destruct, byMail, logged, code, full, grant, sent>>
        /\ \/ /\ pc[r] = "removing" /\ pc' = [pc EXCEPT ![r] = "marking"]
              /\ ~onDisk' /\ status' = status
           \/ /\ pc[r] = "marking" /\ pc' = [pc EXCEPT ![r] = "done"]
              /\ onDisk' = onDisk /\ status' = "destroyed"
    BY <1>5 DEF Remove, Mark
  <2>2. DecidesWhenLogged' /\ LinkGrants' /\ LastReceiverGrants'
    BY <1>l, <2>1 DEF DecidesWhenLogged, LinkGrants, LastReceiverGrants, Decided, Logs
  <2>3. GrantedDestroys'
    BY <1>l, <2>1 DEF GrantedDestroys, Served
  <2> QED
    BY <2>2, <2>3 DEF LastInv
<1>6. CASE OtherRemove \/ OtherMark \/ UNCHANGED vars
  <2>1. /\ UNCHANGED <<destruct, byMail, logged, pc, code, full, grant, sent>>
        /\ onDisk' => onDisk
        /\ status = "destroyed" => status' = "destroyed"
    BY <1>6 DEF OtherRemove, OtherMark, vars
  <2>2. DecidesWhenLogged' /\ LinkGrants' /\ LastReceiverGrants'
    BY <1>l, <2>1 DEF DecidesWhenLogged, LinkGrants, LastReceiverGrants, Decided, Logs
  <2>3. GrantedDestroys'
    BY <1>l, <2>1 DEF GrantedDestroys, Served
  <2> QED
    BY <2>2, <2>3 DEF LastInv
<1> QED
  BY <1>0, <1>1, <1>2, <1>3, <1>4, <1>5, <1>6 DEF Handle

\* Whichever requests overlap, somebody destroys a self-destructing upload that
\* everybody it is meant for has been served; a mail share has receivers
\* (upload_service.go, Register refuses it otherwise).
THEOREM LastServedDestroys == Receivers # {} => (Spec => []ServedMeansDestroyed)
<1> SUFFICES ASSUME Receivers # {} PROVE Spec => []ServedMeansDestroyed
  OBVIOUS
<1>1. TypeOK /\ CauseInv /\ LastInv => ServedMeansDestroyed
  <2> SUFFICES ASSUME TypeOK, CauseInv, LastInv, faults = 0, destruct, ServedToAll,
                      \A r \in Readers : pc[r] \notin {"removing", "marking"}
               PROVE  ~onDisk /\ status = "destroyed"
    BY DEF ServedMeansDestroyed
  <2>1. \A r \in Readers : Served(r) => Decided(r)
    BY DEF CauseInv, ServedIsOver, Served, Decided
  <2>2. \E r \in Readers : Served(r) /\ grant[r]
    <3>1. CASE ~byMail
      BY <2>1, <3>1 DEF ServedToAll, LastInv, LinkGrants
    <3>2. CASE byMail
      <4>1. Receivers \subseteq logged
        BY <2>1, <3>2 DEF ServedToAll, LastInv, DecidesWhenLogged, Decided, Logs
      <4> QED
        BY <2>1, <3>2, <4>1 DEF ServedToAll, LastInv, LastReceiverGrants
    <3> QED
      BY <3>1, <3>2
  <2> QED
    BY <2>2 DEF LastInv, GrantedDestroys
<1>2. Init => LastInv
  BY LastInvInit
<1> QED
  BY <1>1, <1>2, LastInvStep, InitCauseInv, StepCauseInv, DeliveryTypeCorrect, PTL DEF Spec

=============================================================================
