---------------------------- MODULE AdmissionProofs ----------------------------
(***************************************************************************)
(* Theorems about Admission, for every number of pages, codes, recipients  *)
(* and every bound of the limit.                                           *)
(***************************************************************************)
EXTENDS Admission, TLAPS, FiniteSetTheorems

UploadRow == [status : {"none", "processing", "registered", "ready"}, age : Ages]
MailRow   == [status : {"none", "pending", "verified"}, age : Ages]

LEMMA LaterRow ==
  ASSUME NEW r, r \in UploadRow \/ r \in MailRow
  PROVE  /\ r \in UploadRow => Later(r) \in UploadRow
         /\ r \in MailRow => Later(r) \in MailRow
         /\ Later(r).status = r.status /\ r.age <= Later(r).age
<1>1. r.age \in Ages /\ (r.age < Old => r.age + 1 \in Ages)
  BY DEF UploadRow, MailRow, Ages, Old
<1> QED
  BY <1>1 DEF Later, UploadRow, MailRow, Ages, Old

\* Types; above all no recipient is added twice, though a page registers again
\* after it has confirmed a code.
THEOREM AdmissionTypeCorrect == AdmissionSpec => []AdmissionTypeOK
<1> USE AdmissionAssumption
<1>1. AdmissionInit => AdmissionTypeOK
  <2> SUFFICES ASSUME AdmissionInit PROVE AdmissionTypeOK
    OBVIOUS
  <2>1. upload \in [Pages -> [status : {"none", "processing", "registered", "ready"}, age : Ages]]
    BY DEF AdmissionInit, NoRow, Ages, Old
  <2>2. mails \in [Codes -> [status : {"none", "pending", "verified"}, age : Ages]]
    BY DEF AdmissionInit, NoRow, Ages, Old
  <2>3. read \in [Pages -> Reads]
    BY DEF AdmissionInit, Reads, Verification
  <2>4. at \in [Pages -> Stages] /\ receivers \in [Pages -> 0 .. Recipients] /\ fresh \subseteq Pages
    BY DEF AdmissionInit, Stages
  <2>5. blocked \in BOOLEAN /\ proven \in BOOLEAN
    BY DEF AdmissionInit
  <2> QED
    BY <2>1, <2>2, <2>3, <2>4, <2>5 DEF AdmissionTypeOK
<1>2. AdmissionTypeOK /\ [AdmissionNext]_admissionVars => AdmissionTypeOK'
  <2> SUFFICES ASSUME AdmissionTypeOK, [AdmissionNext]_admissionVars PROVE AdmissionTypeOK'
    OBVIOUS
  <2>0. /\ blocked \in BOOLEAN /\ upload \in [Pages -> UploadRow] /\ at \in [Pages -> Stages]
        /\ read \in [Pages -> Reads] /\ mails \in [Codes -> MailRow]
        /\ receivers \in [Pages -> 0 .. Recipients] /\ proven \in BOOLEAN
        /\ fresh \subseteq Pages
    BY DEF AdmissionTypeOK, UploadRow, MailRow
  <2>t. ASSUME /\ blocked' \in BOOLEAN /\ upload' \in [Pages -> UploadRow]
               /\ at' \in [Pages -> Stages] /\ read' \in [Pages -> Reads]
               /\ mails' \in [Codes -> MailRow]
               /\ receivers' \in [Pages -> 0 .. Recipients] /\ proven' \in BOOLEAN
               /\ fresh' \subseteq Pages
        PROVE  AdmissionTypeOK'
    BY <2>t DEF AdmissionTypeOK, UploadRow, MailRow
  <2>n. NoRow \in UploadRow /\ NoRow \in MailRow
    BY DEF NoRow, UploadRow, MailRow, Ages, Old
  <2>1. ASSUME NEW p \in Pages,
               \/ CreateCheck(p) \/ RegisterRefused(p) \/ RegisterCount(p)
               \/ RegisterVerify(p) \/ PageFails(p)
        PROVE  AdmissionTypeOK'
    <3>1. at' \in [Pages -> Stages]
      BY <2>0, <2>1 DEF CreateCheck, RegisterRefused, RegisterCount, RegisterVerify, PageFails,
                        Goes, Stages
    <3>2. UNCHANGED <<blocked, upload, read, mails, receivers, proven, fresh>>
      BY <2>1 DEF CreateCheck, RegisterRefused, RegisterCount, RegisterVerify, PageFails
    <3> QED
      BY <2>0, <2>t, <3>1, <3>2
  <2>2. ASSUME NEW p \in Pages, CreateInsert(p) \/ RegisterWrite(p) \/ Finish(p)
        PROVE  AdmissionTypeOK'
    <3>1. at' \in [Pages -> Stages]
      BY <2>0, <2>2 DEF CreateInsert, RegisterWrite, Finish, Goes, Stages
    <3>2. upload' \in [Pages -> UploadRow]
      BY <2>0, <2>2 DEF CreateInsert, RegisterWrite, Finish, UploadRow, Ages, Old
    <3>3. UNCHANGED <<blocked, read, mails, receivers, proven, fresh>>
      BY <2>2 DEF CreateInsert, RegisterWrite, Finish
    <3> QED
      BY <2>0, <2>t, <3>1, <3>2, <3>3
  <2>3. ASSUME NEW p \in Pages, RegisterRead(p) PROVE AdmissionTypeOK'
    <3>1. at' \in [Pages -> Stages] /\ read' \in [Pages -> Reads]
      BY <2>0, <2>3 DEF RegisterRead, Goes, Stages
    <3> QED
      BY <2>0, <2>3, <2>t, <3>1 DEF RegisterRead
  <2>4. ASSUME NEW p \in Pages, AddReceiver(p) PROVE AdmissionTypeOK'
    <3>1. receivers' \in [Pages -> 0 .. Recipients]
      BY <2>0, <2>4 DEF AddReceiver, MoreToAdd
    <3> QED
      BY <2>0, <2>4, <2>t, <3>1 DEF AddReceiver
  <2>5. ASSUME NEW p \in Pages, DropStuck(p) PROVE AdmissionTypeOK'
    BY <2>0, <2>5, <2>n, <2>t DEF DropStuck
  <2>6. ASSUME NEW p \in Pages, NEW c \in Codes, RequestCode(p, c) \/ Confirm(p, c)
        PROVE  AdmissionTypeOK'
    <3>1. at' \in [Pages -> Stages]
      BY <2>0, <2>6 DEF RequestCode, Confirm, Goes, Stages
    <3>2. mails' \in [Codes -> MailRow]
      BY <2>0, <2>6 DEF RequestCode, Confirm, MailRow, Ages, Old
    <3>3. UNCHANGED <<blocked, upload, read, receivers>> /\ fresh' \subseteq Pages
          /\ proven' \in BOOLEAN
      BY <2>0, <2>6 DEF RequestCode, Confirm
    <3> QED
      BY <2>0, <2>t, <3>1, <3>2, <3>3
  <2>7. CASE DeleteOldPending
    BY <2>0, <2>7, <2>n, <2>t DEF DeleteOldPending
  <2>8. CASE BlockIP \/ UnblockIP
    BY <2>0, <2>8, <2>t DEF BlockIP, UnblockIP
  <2>9. CASE HalfHourPasses
    <3>1. upload' \in [Pages -> UploadRow] /\ mails' \in [Codes -> MailRow]
      BY <2>0, <2>9, LaterRow DEF HalfHourPasses
    <3> QED
      BY <2>0, <2>9, <2>t, <3>1 DEF HalfHourPasses
  <2>10. CASE UNCHANGED admissionVars
    BY <2>0, <2>10, <2>t DEF admissionVars
  <2> QED
    BY <2>1, <2>2, <2>3, <2>4, <2>5, <2>6, <2>7, <2>8, <2>9, <2>10 DEF AdmissionNext
<1> QED
  BY <1>1, <1>2, PTL DEF AdmissionSpec

(***************************************************************************)
(* Verification.  The cleanup deletes no confirmed code, so that what has  *)
(* been proven stays on record.                                            *)
(***************************************************************************)
OnRecord(mode) ==
    \E c \in Codes : mails[c].status = "verified" /\ (mode = "always" => mails[c].age <= HalfHour)
Recorded == (proven => OnRecord("once")) /\ (fresh # {} => OnRecord("always"))

LEMMA RecordedStep ==
  AdmissionTypeOK /\ Recorded /\ [AdmissionNext]_admissionVars => Recorded'
<1> SUFFICES ASSUME AdmissionTypeOK, Recorded, [AdmissionNext]_admissionVars PROVE Recorded'
  OBVIOUS
<1>0. mails \in [Codes -> MailRow]
  BY DEF AdmissionTypeOK, MailRow
<1>k. ASSUME \A c \in Codes : mails[c].status = "verified" => mails'[c] = mails[c],
             proven' = proven, fresh' = fresh
      PROVE  Recorded'
  BY <1>k DEF Recorded, OnRecord
<1>1. CASE UNCHANGED <<mails, proven, fresh>>
  BY <1>1, <1>k
<1>2. ASSUME NEW p \in Pages, NEW c \in Codes, RequestCode(p, c) PROVE Recorded'
  <2>1. \A d \in Codes : mails[d].status = "verified" => mails'[d] = mails[d]
    BY <1>0, <1>2 DEF RequestCode
  <2> QED
    BY <1>2, <1>k, <2>1 DEF RequestCode
<1>3. ASSUME NEW p \in Pages, NEW c \in Codes, Confirm(p, c) PROVE Recorded'
  <2>1. /\ mails'[c].status = "verified" /\ mails'[c].age = mails[c].age
        /\ \A d \in Codes : d # c => mails'[d] = mails[d]
        /\ mails[c].status = "pending"
        /\ fresh' = fresh \/ mails[c].age <= HalfHour
    BY <1>0, <1>3 DEF Confirm, Confirmable, MailRow
  <2> QED
    BY <2>1 DEF Recorded, OnRecord
<1>4. CASE DeleteOldPending
  <2>1. \A d \in Codes : mails[d].status = "verified" => mails'[d] = mails[d]
    BY <1>0, <1>4 DEF DeleteOldPending, OldPending
  <2> QED
    BY <1>4, <1>k, <2>1 DEF DeleteOldPending
<1>5. CASE HalfHourPasses
  <2>1. \A d \in Codes : mails'[d].status = mails[d].status
    BY <1>0, <1>5, LaterRow DEF HalfHourPasses
  <2>2. fresh' = {} /\ proven' = proven
    BY <1>5 DEF HalfHourPasses
  <2> QED
    BY <2>1, <2>2 DEF Recorded, OnRecord
<1>6. \/ UNCHANGED <<mails, proven, fresh>> \/ DeleteOldPending \/ HalfHourPasses
      \/ \E p \in Pages, c \in Codes : RequestCode(p, c) \/ Confirm(p, c)
  BY DEF AdmissionNext, admissionVars, CreateCheck, CreateInsert, RegisterRead, RegisterRefused,
         RegisterCount, RegisterVerify, RegisterWrite, AddReceiver, Finish, PageFails, DropStuck,
         BlockIP, UnblockIP
<1> QED
  BY <1>1, <1>2, <1>3, <1>4, <1>5, <1>6

\* A sender whose code is on record, under "once" any code ever confirmed and
\* under "always" one of the last half hour that this page has just confirmed,
\* is not asked for another one, whatever the cleanup deletes meanwhile.
THEOREM ProvenSendersPass == AdmissionSpec => RefusedOnlyUnproven
<1>1. AdmissionInit => Recorded
  BY DEF AdmissionInit, Recorded
<1>2. AdmissionTypeOK /\ Recorded /\ [AdmissionNext]_admissionVars =>
        [\A p \in Pages :
           at[p] = "verifying" /\ at'[p] = "unverified" =>
              /\ read[p].verify = "once" => ~proven
              /\ p \notin fresh]_admissionVars
  <2> SUFFICES ASSUME AdmissionTypeOK, Recorded, AdmissionNext, NEW p \in Pages,
                      at[p] = "verifying", at'[p] = "unverified"
               PROVE  (read[p].verify = "once" => ~proven) /\ p \notin fresh
    OBVIOUS
  <2>0. at \in [Pages -> Stages]
    BY DEF AdmissionTypeOK
  <2>1. RegisterVerify(p)
    <3>1. PICK q \in Pages : at' = [at EXCEPT ![q] = "unverified"] /\ RegisterVerify(q)
      BY <2>0 DEF AdmissionNext, CreateCheck, CreateInsert, RegisterRead, RegisterRefused,
                  RegisterCount, RegisterVerify, RegisterWrite, AddReceiver, Finish,
                  PageFails, DropStuck, BlockIP, UnblockIP, RequestCode, Confirm,
                  DeleteOldPending, HalfHourPasses, Goes
    <3> QED
      BY <2>0, <3>1
  <2>2. ~HasVerified(read[p].verify)
    BY <2>1 DEF RegisterVerify, Goes
  <2> QED
    BY <2>2 DEF HasVerified, Recorded, OnRecord
<1>3. AdmissionTypeOK /\ Recorded /\ [AdmissionNext]_admissionVars => Recorded'
  BY RecordedStep
<1> QED
  BY <1>1, <1>2, <1>3, AdmissionTypeCorrect, PTL DEF AdmissionSpec, RefusedOnlyUnproven

(***************************************************************************)
(* The hourly limit.  A page that has counted is one of those that every   *)
(* later page counts, as long as its row is there and of the last hour.  So*)
(* of any set of such pages the last one to count has seen them all.       *)
(***************************************************************************)
Counted(p) ==
    /\ Exists(p) /\ upload[p].age <= Hour
    /\ at[p] \in {"verifying", "writing"} \/ Registered(p)
Allows(p, T) == read[p].limit = 0 \/ Cardinality(T) <= read[p].limit
LastSawAll ==
    \A T \in SUBSET Pages :
        T # {} /\ (\A p \in T : Counted(p)) => \E p \in T : Allows(p, T)

\* A page that adds receivers to a row which is there has registered it.
Adding == \A p \in Pages : at[p] = "adding" /\ Exists(p) => Registered(p)
LimitInv == LastSawAll /\ Adding

LEMMA SameCounted ==
  ASSUME LastSawAll, \A p \in Pages : Counted(p)' => Counted(p) /\ read'[p] = read[p]
  PROVE  LastSawAll'
<1> SUFFICES ASSUME NEW T \in SUBSET Pages, T # {}, \A p \in T : Counted(p)'
             PROVE  \E p \in T : Allows(p, T)'
  BY DEF LastSawAll
<1>1. PICK p \in T : Allows(p, T)
  BY DEF LastSawAll
<1> QED
  BY <1>1 DEF Allows

LEMMA CountingSeesAll ==
  ASSUME AdmissionTypeOK, NEW p \in Pages, CountByIPSince <= read[p].limit,
         NEW T \in SUBSET Pages, \A q \in T : Exists(q) /\ upload[q].age <= Hour
  PROVE  Cardinality(T) <= read[p].limit
<1> DEFINE S == {q \in Pages : Exists(q) /\ upload[q].age <= Hour}
<1>1. T \subseteq S /\ S \subseteq Pages
  OBVIOUS
<1>2. IsFiniteSet(S)
  BY <1>1, AdmissionAssumption, FS_Subset
<1>3. Cardinality(T) <= Cardinality(S) /\ Cardinality(T) \in Nat /\ Cardinality(S) \in Nat
  BY <1>1, <1>2, FS_Subset, FS_CardinalityType
<1>4. Cardinality(S) <= read[p].limit
  BY DEF CountByIPSince
<1>5. read[p].limit \in Nat
  BY AdmissionAssumption DEF AdmissionTypeOK, Reads
<1> QED
  BY <1>3, <1>4, <1>5

LEMMA CountKeepsLast ==
  ASSUME AdmissionTypeOK, LastSawAll, NEW p \in Pages, RegisterCount(p) PROVE LastSawAll'
<1>0. /\ at \in [Pages -> Stages] /\ UNCHANGED <<upload, read>>
      /\ \A q \in Pages : q # p => at'[q] = at[q]
      /\ read[p].limit \in Nat
  BY AdmissionAssumption DEF AdmissionTypeOK, RegisterCount, Goes, Reads
<1>1. CASE read[p].limit > 0 /\ CountByIPSince > read[p].limit
  <2>1. at'[p] = "failed"
    BY <1>0, <1>1 DEF RegisterCount, Goes
  <2> QED
    BY <1>0, <2>1, SameCounted DEF Counted, Exists, Registered
<1>2. CASE ~(read[p].limit > 0 /\ CountByIPSince > read[p].limit)
  <2> SUFFICES ASSUME NEW T \in SUBSET Pages, T # {}, \A q \in T : Counted(q)'
               PROVE  \E q \in T : Allows(q, T)'
    BY DEF LastSawAll
  <2>1. \A q \in T : Exists(q) /\ upload[q].age <= Hour
    BY <1>0 DEF Counted, Exists
  <2>2. CASE p \in T
    <3>1. CASE read[p].limit = 0
      BY <1>0, <2>2, <3>1 DEF Allows
    <3>2. CASE read[p].limit # 0
      <4>1. CountByIPSince \in Nat
        <5>1. {q \in Pages : Exists(q) /\ upload[q].age <= Hour} \subseteq Pages
          OBVIOUS
        <5> QED
          BY <5>1, AdmissionAssumption, FS_Subset, FS_CardinalityType DEF CountByIPSince
      <4>2. CountByIPSince <= read[p].limit
        BY <1>0, <1>2, <3>2, <4>1
      <4>3. Cardinality(T) <= read[p].limit
        BY <2>1, <4>2, CountingSeesAll
      <4> QED
        BY <1>0, <2>2, <4>3 DEF Allows
    <3> QED
      BY <3>1, <3>2
  <2>3. CASE p \notin T
    <3>1. \A q \in T : Counted(q)
      BY <1>0, <2>3 DEF Counted, Exists, Registered
    <3>2. PICK q \in T : Allows(q, T)
      BY <3>1 DEF LastSawAll
    <3> QED
      BY <1>0, <3>2 DEF Allows
  <2> QED
    BY <2>2, <2>3
<1> QED
  BY <1>1, <1>2

LEMMA LimitStep ==
  AdmissionTypeOK /\ LimitInv /\ [AdmissionNext]_admissionVars => LimitInv'
<1> SUFFICES ASSUME AdmissionTypeOK, LimitInv, [AdmissionNext]_admissionVars PROVE LimitInv'
  OBVIOUS
<1> USE DEF Exists, Registered, Goes
<1>0. /\ LastSawAll /\ Adding /\ upload \in [Pages -> UploadRow] /\ at \in [Pages -> Stages]
      /\ read \in [Pages -> Reads]
  BY DEF LimitInv, AdmissionTypeOK, UploadRow
<1>k. ASSUME \A p \in Pages : Counted(p)' => Counted(p) /\ read'[p] = read[p],
             \A p \in Pages : at'[p] = "adding" /\ Exists(p)' => Registered(p)'
      PROVE  LimitInv'
  BY <1>0, <1>k, SameCounted DEF LimitInv, Adding
<1>1. ASSUME NEW p \in Pages,
             \/ CreateCheck(p) \/ RegisterRefused(p) \/ RegisterVerify(p) \/ PageFails(p)
      PROVE  LimitInv'
  <2>1. UNCHANGED <<upload, read>>
    BY <1>1 DEF CreateCheck, RegisterRefused, RegisterVerify, PageFails
  <2>2. \A q \in Pages : at'[q] \in {"verifying", "writing"} =>
          at[q] \in {"verifying", "writing"}
    BY <1>0, <1>1 DEF CreateCheck, RegisterRefused, RegisterVerify, PageFails
  <2>3. \A q \in Pages : at'[q] = "adding" => at[q] = "adding"
    BY <1>0, <1>1 DEF CreateCheck, RegisterRefused, RegisterVerify, PageFails
  <2> QED
    BY <1>0, <1>k, <2>1, <2>2, <2>3 DEF Counted, Adding
<1>2. ASSUME NEW p \in Pages, CreateInsert(p) PROVE LimitInv'
  <2>1. /\ upload'[p].status = "processing" /\ at'[p] = "held" /\ read' = read
        /\ \A q \in Pages : q # p => upload'[q] = upload[q] /\ at'[q] = at[q]
    BY <1>0, <1>2 DEF CreateInsert
  <2> QED
    BY <1>0, <1>k, <2>1 DEF Counted, Adding
<1>3. ASSUME NEW p \in Pages, RegisterRead(p) PROVE LimitInv'
  <2>1. /\ upload[p].status = "processing" /\ at'[p] = "counting" /\ upload' = upload
        /\ \A q \in Pages : q # p => read'[q] = read[q] /\ at'[q] = at[q]
    BY <1>0, <1>3 DEF RegisterRead
  <2> QED
    BY <1>0, <1>k, <2>1 DEF Counted, Adding
<1>4. ASSUME NEW p \in Pages, RegisterCount(p) PROVE LimitInv'
  <2>1. /\ at'[p] # "adding" /\ upload' = upload
        /\ \A q \in Pages : q # p => at'[q] = at[q]
    BY <1>0, <1>4 DEF RegisterCount
  <2> QED
    BY <1>0, <1>4, <2>1, CountKeepsLast DEF LimitInv, Adding
<1>5. ASSUME NEW p \in Pages, RegisterWrite(p) PROVE LimitInv'
  <2>1. /\ at[p] = "writing" /\ at'[p] = "adding" /\ read' = read
        /\ \A q \in Pages : q # p => upload'[q] = upload[q] /\ at'[q] = at[q]
    BY <1>0, <1>5 DEF RegisterWrite
  <2>2. CASE Exists(p)
    <3>1. upload'[p].status = "registered" /\ upload'[p].age = upload[p].age
      BY <1>0, <1>5, <2>2 DEF RegisterWrite, UploadRow
    <3> QED
      BY <1>0, <1>k, <2>1, <2>2, <3>1 DEF Counted, Adding
  <2>3. CASE ~Exists(p)
    <3>1. upload' = upload
      BY <1>5, <2>3 DEF RegisterWrite
    <3> QED
      BY <1>0, <1>k, <2>1, <2>3, <3>1 DEF Counted, Adding
  <2> QED
    BY <2>2, <2>3
<1>6. ASSUME NEW p \in Pages, AddReceiver(p) PROVE LimitInv'
  BY <1>0, <1>6, <1>k DEF AddReceiver, Counted, Adding
<1>7. ASSUME NEW p \in Pages, Finish(p) PROVE LimitInv'
  <2>1. /\ Registered(p) /\ upload'[p].status = "ready" /\ upload'[p].age = upload[p].age
        /\ at'[p] = "done" /\ read' = read
        /\ \A q \in Pages : q # p => upload'[q] = upload[q] /\ at'[q] = at[q]
    BY <1>0, <1>7 DEF Finish, Adding, UploadRow
  <2> QED
    BY <1>0, <1>k, <2>1 DEF Counted, Adding
<1>8. ASSUME NEW p \in Pages, DropStuck(p) PROVE LimitInv'
  <2>1. /\ upload'[p].status = "none" /\ at' = at /\ read' = read
        /\ \A q \in Pages : q # p => upload'[q] = upload[q]
    BY <1>0, <1>8 DEF DropStuck, NoRow
  <2> QED
    BY <1>0, <1>k, <2>1 DEF Counted, Adding
<1>9. ASSUME NEW p \in Pages, NEW c \in Codes, RequestCode(p, c) \/ Confirm(p, c)
      PROVE  LimitInv'
  <2>1. /\ UNCHANGED <<upload, read>> /\ at'[p] \in {"asked", "confirmed"}
        /\ \A q \in Pages : q # p => at'[q] = at[q]
    BY <1>0, <1>9 DEF RequestCode, Confirm
  <2> QED
    BY <1>0, <1>k, <2>1 DEF Counted, Adding
<1>10. CASE HalfHourPasses
  <2>1. /\ UNCHANGED <<at, read>>
        /\ \A q \in Pages : upload'[q] = Later(upload[q])
    BY <1>10 DEF HalfHourPasses
  <2>2. \A q \in Pages : /\ upload'[q].status = upload[q].status
                         /\ upload[q].age <= upload'[q].age
                         /\ upload[q].age \in Nat /\ upload'[q].age \in Nat
    BY <1>0, <2>1, LaterRow DEF UploadRow, Ages, Old
  <2> QED
    BY <1>0, <1>k, <2>1, <2>2 DEF Counted, Adding, Hour
<1>11. CASE DeleteOldPending \/ BlockIP \/ UnblockIP \/ UNCHANGED admissionVars
  BY <1>0, <1>11, <1>k
  DEF DeleteOldPending, BlockIP, UnblockIP, admissionVars, Counted, Adding
<1> QED
  BY <1>1, <1>2, <1>3, <1>4, <1>5, <1>6, <1>7, <1>8, <1>9, <1>10, <1>11 DEF AdmissionNext

\* The hourly limit per address cannot be raced: of the registered uploads of
\* the last hour, one was registered under a limit that allows them all, for any
\* number of pages that register at once.
THEOREM LimitCannotBeRaced == AdmissionSpec => []LimitHolds
<1>1. AdmissionInit => LimitInv
  BY DEF AdmissionInit, LimitInv, LastSawAll, Adding, Counted, Exists, NoRow
<1>2. AdmissionTypeOK /\ LimitInv /\ [AdmissionNext]_admissionVars => LimitInv'
  BY LimitStep
<1>3. AdmissionTypeOK /\ LimitInv => LimitHolds
  <2> SUFFICES ASSUME LimitInv PROVE LimitHolds
    OBVIOUS
  <2> DEFINE S == {p \in Pages : Recent(p)}
  <2>1. S \in SUBSET Pages /\ \A p \in S : Counted(p)
    BY DEF Recent, Counted, Registered, Exists
  <2>2. S # {} => \E p \in S : Allows(p, S)
    BY <2>1 DEF LimitInv, LastSawAll
  <2> QED
    BY <2>2 DEF LimitHolds, Allows
<1> QED
  BY <1>1, <1>2, <1>3, AdmissionTypeCorrect, PTL DEF AdmissionSpec
=============================================================================
