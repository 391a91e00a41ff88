------------------------ MODULE UploadLifecycleProofs ------------------------
(***************************************************************************)
(* Theorems about UploadLifecycle, for every set of files, of calls and of *)
(* cleanup jobs, and every bound on the faults.                            *)
(***************************************************************************)
EXTENDS UploadLifecycle, TLAPS

USE DEF rowVars, envVars, tempVars, storeVars, callVars

(***************************************************************************)
(* Type correctness.                                                       *)
(***************************************************************************)

\* The initial state is well typed.
LEMMA InitTypeOK == Init => TypeOK
<1> SUFFICES ASSUME Init PROVE TypeOK
  OBVIOUS
<1>1. NoBlob \in Blobs
  BY DEF NoBlob, Blobs, Keys
<1>2. blob \in [Paths -> Blobs]
  BY <1>1 DEF Init
<1>3. faults \in 0..MaxFaults /\ toggles \in 0..MaxToggles
  BY LifecycleAssumption DEF Init
<1> QED
  BY <1>2, <1>3 DEF Init, TypeOK, Keys

\* Every step of a request that uploads keeps the types.
LEMMA UploadStepTypeOK ==
  ASSUME TypeOK,
         \/ \E f \in Files : ChunkStep(f) \/ ChunkFails(f)
         \/ \E c \in Completers : CompleteStep(c) \/ CompleteFails(c)
  PROVE  TypeOK'
<1> USE DEF TypeOK, ChunkBusy, CompleteBusy
<1>1. ASSUME NEW f \in Files, ChunkStart(f) PROVE TypeOK'
  BY <1>1 DEF ChunkStart
<1>2. ASSUME NEW f \in Files, ChunkWrite(f) PROVE TypeOK'
  BY <1>2 DEF ChunkWrite
<1>3. ASSUME NEW f \in Files, ChunkRename(f) PROVE TypeOK'
  BY <1>3 DEF ChunkRename
<1>4. ASSUME NEW f \in Files, ChunkAdd(f) PROVE TypeOK'
  BY <1>4 DEF ChunkAdd
<1>5. ASSUME NEW f \in Files, ChunkFails(f) PROVE TypeOK'
  BY <1>5, LifecycleAssumption DEF ChunkFails, Fault
<1>6. ASSUME NEW c \in Completers, CompleteStart(c) PROVE TypeOK'
  BY <1>6 DEF CompleteStart
<1>7. ASSUME NEW c \in Completers, CompleteList(c) PROVE TypeOK'
  <2>1. CASE fileRows = {}
    BY <1>7, <2>1 DEF CompleteList
  <2>2. CASE fileRows # {}
    BY <1>7, <2>2 DEF CompleteList
  <2> QED
    BY <2>1, <2>2
<1>8. ASSUME NEW c \in Completers, CompleteCreate(c) PROVE TypeOK'
  <2>1. Emptied \in Blobs
    BY DEF Emptied, Blobs, Keys
  <2>2. blob' \in [Paths -> Blobs]
    BY <1>8, <2>1 DEF CompleteCreate
  <2> QED
    BY <1>8, <2>2 DEF CompleteCreate
<1>9. ASSUME NEW c \in Completers, CompleteFill(c) PROVE TypeOK'
  <2>1. Artifact(c) \in Blobs
    BY DEF Artifact, Blobs, Keys
  <2>2. blob' \in [Paths -> Blobs]
    BY <1>9, <2>1 DEF CompleteFill
  <2> QED
    BY <1>9, <2>2 DEF CompleteFill
<1>10. ASSUME NEW c \in Completers, CompleteStoreKey(c) PROVE TypeOK'
  BY <1>10 DEF CompleteStoreKey, Keys
<1>11. ASSUME NEW c \in Completers, CompleteCleanTemp(c) PROVE TypeOK'
  BY <1>11 DEF CompleteCleanTemp
<1>12. ASSUME NEW c \in Completers, CompleteMarkReady(c) PROVE TypeOK'
  BY <1>12 DEF CompleteMarkReady
<1>13. ASSUME NEW c \in Completers, CompleteFails(c) PROVE TypeOK'
  BY <1>13, LifecycleAssumption DEF CompleteFails, Fault
<1> QED
  BY <1>1, <1>2, <1>3, <1>4, <1>5, <1>6, <1>7, <1>8, <1>9, <1>10, <1>11, <1>12, <1>13
  DEF ChunkStep, CompleteStep

\* So does every step that destroys or cleans up, and every other step.
LEMMA OtherStepTypeOK ==
  ASSUME TypeOK,
         \/ \E d \in Destroyers : DestroyStep(d) \/ DestroyFails(d)
         \/ \E s \in Sweepers : SweepStep(s) \/ SweepFails(s)
         \/ Expire \/ TwelveHoursPass \/ TempDirAges \/ ToggleEncryption
         \/ Crash
  PROVE  TypeOK'
<1> USE DEF TypeOK, DestroyBusy, SweepBusy
<1>1. ASSUME RemoveUploadDir PROVE dir' \in BOOLEAN /\ blob' \in [Paths -> Blobs]
                                   /\ linked' \in [Completers -> BOOLEAN]
  BY <1>1 DEF RemoveUploadDir, NoBlob, Blobs, Keys
<1>2. ASSUME NEW d \in Destroyers, DestroyStart(d) PROVE TypeOK'
  BY <1>2 DEF DestroyStart
<1>3. ASSUME NEW d \in Destroyers, DestroyRemove(d) PROVE TypeOK'
  BY <1>1, <1>3 DEF DestroyRemove
<1>4. ASSUME NEW d \in Destroyers, DestroyMark(d) PROVE TypeOK'
  BY <1>4 DEF DestroyMark, SetDestroyed
<1>5. ASSUME NEW d \in Destroyers, DestroyFails(d) PROVE TypeOK'
  BY <1>5, LifecycleAssumption DEF DestroyFails, Fault
<1>6. ASSUME NEW s \in Sweepers, SweepStep(s) PROVE TypeOK'
  <2>1. CASE SweepRemove(s)
    BY <1>1, <2>1 DEF SweepRemove
  <2>2. CASE SweepMark(s)
    BY <2>2 DEF SweepMark, SetDestroyed
  <2>3. CASE SweepDropTemp(s) \/ SweepPurge(s)
    BY <2>3 DEF SweepDropTemp, SweepPurge
  <2>4. CASE SweepDropRow(s)
    BY <2>4 DEF SweepDropRow, Keys
  <2>5. CASE SweepExpired(s) \/ SweepStuck(s) \/ SweepStat(s)
    BY <2>5 DEF SweepExpired, SweepStuck, SweepStat
  <2> QED
    BY <1>6, <2>1, <2>2, <2>3, <2>4, <2>5 DEF SweepStep
<1>7. ASSUME NEW s \in Sweepers, SweepFails(s) PROVE TypeOK'
  BY <1>7, LifecycleAssumption DEF SweepFails, Fault, NextAfter
<1>8. ASSUME Expire \/ TwelveHoursPass \/ TempDirAges PROVE TypeOK'
  BY <1>8 DEF Expire, TwelveHoursPass, TempDirAges
<1>9. ASSUME ToggleEncryption PROVE TypeOK'
  BY <1>9, LifecycleAssumption DEF ToggleEncryption
<1>10. ASSUME Crash PROVE TypeOK'
  BY <1>10, LifecycleAssumption DEF Crash, Fault, ChunkBusy, CompleteBusy
<1> QED
  BY <1>2, <1>3, <1>4, <1>5, <1>6, <1>7, <1>8, <1>9, <1>10 DEF DestroyStep

\* The types are an inductive invariant.
LEMMA StepTypeOK == TypeOK /\ [Next]_vars => TypeOK'
<1> SUFFICES ASSUME TypeOK, [Next]_vars PROVE TypeOK'
  OBVIOUS
<1>1. CASE Next
  BY <1>1, UploadStepTypeOK, OtherStepTypeOK DEF Next
<1>2. CASE UNCHANGED vars
  BY <1>2 DEF TypeOK, vars
<1> QED
  BY <1>1, <1>2

\* The row, the directories, the artifact and the handlers' local state of an
\* upload stay within their types, whatever requests, jobs, crashes and
\* settings changes it meets.
THEOREM TypeCorrect == Spec => []TypeOK
  BY InitTypeOK, StepTypeOK, PTL DEF Spec

(***************************************************************************)
(* A ready upload is servable.                                             *)
(***************************************************************************)

\* ReadyServable is not inductive: what MarkReady makes visible was built by
\* the steps before it.  With what complete() has achieved at each step of it,
\* the artifact is the right one, and its key is there if it is encrypted, for
\* a client that has one request outstanding.
Packed ==
    LET b == blob[FinalPath(fileRows)] IN
    b.state = "whole" /\ b.files = fileRows /\ (b.key # NoKey => b.key = key)
ReadyIsPacked == status = "ready" /\ dir => Packed

Good ==
    /\ OneRequest /\ QuietWhenReady /\ ListsAllRows
    /\ LinkedWhileDir /\ ArtifactFilled /\ KeyStored
    /\ ReadyIsPacked

\* All that Good speaks of.
core == <<rowVars, storeVars, callVars, chunkPc, completePc>>

USE DEF Completing, ChunkBusy, CompleteBusy, Packing, Created, Filled, Artifact

\* A path is computed for every list of files that complete() accepts.
LEMMA FinalPathIsPath ==
  ASSUME NEW fs \in SUBSET Files, fs # {}
  PROVE  FinalPath(fs) \in Paths
  BY DEF FinalPath, Paths

\* Nothing is in flight and nothing is ready at first.
LEMMA InitGood == Init => Good
  BY DEF Init, Good, OneRequest, QuietWhenReady, ListsAllRows, LinkedWhileDir,
         ArtifactFilled, KeyStored, ReadyIsPacked

\* Steps that touch neither the row, nor the artifact, nor the requests.
LEMMA FrameGood ==
  ASSUME Good, UNCHANGED core PROVE Good'
  BY DEF core, Good, OneRequest, QuietWhenReady, NoUploadRequest, ListsAllRows, LinkedWhileDir,
         ArtifactFilled, KeyStored, ReadyIsPacked, Packed

\* Removing the upload's directory makes ArtifactFilled and ReadyIsPacked vacuous.
LEMMA RemoveDirGood ==
  ASSUME TypeOK, Good, RemoveUploadDir,
         UNCHANGED <<rowVars, listed, encrypting, chunkPc, completePc>>
  PROVE  Good'
<1>1. dir' = FALSE /\ \A c \in Completers : linked'[c] = FALSE
  BY DEF RemoveUploadDir
<1> QED
  BY <1>1 DEF Good, OneRequest, QuietWhenReady, NoUploadRequest, ListsAllRows, LinkedWhileDir,
              ArtifactFilled, KeyStored, ReadyIsPacked

\* A destroyed or deleted row is not ready, and a deleted one stays deleted.
LEMMA StatusGood ==
  ASSUME TypeOK, Good, SetDestroyed,
         UNCHANGED <<key, fileRows, storeVars, callVars, chunkPc, completePc>>
  PROVE  Good'
  BY DEF TypeOK, SetDestroyed, Good, OneRequest, QuietWhenReady, ListsAllRows,
         LinkedWhileDir, ArtifactFilled, KeyStored, ReadyIsPacked

LEMMA DropRowGood ==
  ASSUME Good, status' = "absent", UNCHANGED <<storeVars, callVars, chunkPc, completePc>>
  PROVE  Good'
  BY DEF Good, OneRequest, QuietWhenReady, ListsAllRows, LinkedWhileDir, ArtifactFilled,
         KeyStored, ReadyIsPacked

\* A chunk is received while no complete() is handled and the upload is not ready.
LEMMA ChunkGood ==
  ASSUME TypeOK, Good, Orderly, NEW f \in Files, ChunkStep(f) \/ ChunkFails(f)
  PROVE  Good'
<1> USE DEF TypeOK, OneRequest, QuietWhenReady, NoUploadRequest, ListsAllRows, LinkedWhileDir,
            ArtifactFilled, KeyStored, ReadyIsPacked
<1>1. CASE ChunkStart(f)
  BY <1>1 DEF ChunkStart, Writable, Good
<1>2. CASE ChunkWrite(f) \/ ChunkRename(f) \/ ChunkFails(f)
  <2>1. /\ UNCHANGED <<rowVars, storeVars, callVars, completePc>>
        /\ chunkPc[f] \in ChunkBusy
        /\ \A g \in Files : chunkPc'[g] \in ChunkBusy => chunkPc[g] \in ChunkBusy
    BY <1>2 DEF ChunkWrite, ChunkRename, ChunkFails
  <2> QED
    BY <2>1 DEF Good, Packed
<1>3. CASE ChunkAdd(f)
  <2>1. chunkPc[f] \in ChunkBusy /\ UNCHANGED <<status, key, storeVars, callVars, completePc>>
    BY <1>3 DEF ChunkAdd
  <2>2. status # "ready" /\ \A c \in Completers : ~Completing(c)
    BY <2>1 DEF Good
  <2> QED
    BY <2>1, <2>2 DEF Good
<1> QED
  BY <1>1, <1>2, <1>3 DEF ChunkStep

\* A request of complete() starts while no other request is handled, so that
\* it alone writes the artifact, the key and the status "ready".
LEMMA CompleteGood ==
  ASSUME TypeOK, Good, Orderly, NEW c \in Completers, CompleteStep(c) \/ CompleteFails(c)
  PROVE  Good'
<1> USE DEF TypeOK, NoUploadRequest
<1>0. \A d \in Completers \ {c} : Completing(c) => ~Completing(d)
  BY DEF Good, OneRequest
<1>1. CASE CompleteStart(c)
  <2>1. NoUploadRequest /\ status = "processing"
    BY <1>1 DEF CompleteStart, Writable
  <2> QED
    BY <1>1, <2>1 DEF CompleteStart, Good, OneRequest, QuietWhenReady, ListsAllRows,
       LinkedWhileDir, ArtifactFilled, KeyStored, ReadyIsPacked
<1>2. CASE CompleteList(c)
  <2>1. Completing(c) /\ status # "ready" /\ UNCHANGED <<rowVars, blob, encrypting, linked, chunkPc>>
    BY <1>2 DEF CompleteList, Good, QuietWhenReady
  <2>2. \A d \in Completers \ {c} : ~Completing(d) /\ completePc'[d] = completePc[d]
    BY <1>0, <1>2, <2>1 DEF CompleteList
  <2>3. \/ completePc'[c] = "done"
        \/ completePc'[c] = "creating" /\ listed'[c] = fileRows /\ fileRows # {}
    BY <1>2 DEF CompleteList
  <2> QED
    BY <2>1, <2>2, <2>3 DEF Good, OneRequest, QuietWhenReady, ListsAllRows,
       LinkedWhileDir, ArtifactFilled, KeyStored, ReadyIsPacked
<1>3. CASE CompleteCreate(c)
  <2>1. Completing(c) /\ status # "ready" /\ UNCHANGED <<rowVars, dir, listed, chunkPc>>
    BY <1>3 DEF CompleteCreate, Good, QuietWhenReady
  <2>2. \A d \in Completers \ {c} : ~Completing(d) /\ completePc'[d] = completePc[d]
    BY <1>0, <1>3, <2>1 DEF CompleteCreate
  <2>3. \/ completePc'[c] = "done"
        \/ completePc[c] = "creating" /\ completePc'[c] = "filling" /\ linked'[c] = TRUE /\ dir = TRUE
    BY <1>3 DEF CompleteCreate
  <2> QED
    BY <2>1, <2>2, <2>3 DEF Good, OneRequest, QuietWhenReady, ListsAllRows,
       LinkedWhileDir, ArtifactFilled, KeyStored, ReadyIsPacked
<1>4. CASE CompleteFill(c)
  <2>1. Completing(c) /\ status # "ready" /\ UNCHANGED <<rowVars, dir, callVars, chunkPc>>
    BY <1>4 DEF CompleteFill, Good, QuietWhenReady
  <2>2. \A d \in Completers \ {c} : ~Completing(d) /\ completePc'[d] = completePc[d]
    BY <1>0, <1>4, <2>1 DEF CompleteFill
  <2>3. listed[c] # {} /\ (status # "absent" => listed[c] = fileRows) /\ linked[c] = dir
    BY <1>4 DEF CompleteFill, Good, ListsAllRows, LinkedWhileDir
  <2>4. FinalPath(listed[c]) \in Paths
    BY <2>3, FinalPathIsPath
  <2>5. \/ completePc'[c] = "done"
        \/ /\ completePc'[c] = IF encrypting[c] THEN "keying" ELSE "cleaning"
           /\ dir => blob'[FinalPath(listed[c])] = Artifact(c)
    BY <1>4, <2>3, <2>4 DEF CompleteFill
  <2> QED
    BY <2>1, <2>2, <2>3, <2>5 DEF Good, OneRequest, QuietWhenReady, ListsAllRows,
       LinkedWhileDir, ArtifactFilled, KeyStored, ReadyIsPacked
<1>5. CASE CompleteStoreKey(c)
  <2>1. /\ completePc[c] = "keying" /\ completePc'[c] = "cleaning" /\ status # "ready"
        /\ UNCHANGED <<status, fileRows, storeVars, callVars, chunkPc>>
        /\ status # "absent" => key' = c
    BY <1>5 DEF CompleteStoreKey, Good, QuietWhenReady
  <2>2. \A d \in Completers \ {c} : ~Completing(d) /\ completePc'[d] = completePc[d]
    BY <1>0, <1>5, <2>1 DEF CompleteStoreKey
  <2> QED
    BY <2>1, <2>2 DEF Good, OneRequest, QuietWhenReady, ListsAllRows,
       LinkedWhileDir, ArtifactFilled, KeyStored, ReadyIsPacked
<1>6. CASE CompleteCleanTemp(c)
  <2>1. /\ completePc[c] = "cleaning" /\ completePc'[c] = "marking" /\ status # "ready"
        /\ UNCHANGED <<rowVars, storeVars, callVars, chunkPc>>
    BY <1>6 DEF CompleteCleanTemp, Good, QuietWhenReady
  <2>2. \A d \in Completers \ {c} : ~Completing(d) /\ completePc'[d] = completePc[d]
    BY <1>0, <1>6, <2>1 DEF CompleteCleanTemp
  <2> QED
    BY <2>1, <2>2 DEF Good, OneRequest, QuietWhenReady, ListsAllRows,
       LinkedWhileDir, ArtifactFilled, KeyStored, ReadyIsPacked
<1>7. CASE CompleteMarkReady(c)
  <2>1. /\ completePc[c] = "marking" /\ completePc'[c] = "done"
        /\ UNCHANGED <<key, fileRows, storeVars, callVars, chunkPc>>
        /\ status' = IF status = "absent" THEN "absent" ELSE "ready"
    BY <1>7 DEF CompleteMarkReady
  <2>2. \A d \in Completers \ {c} : ~Completing(d) /\ completePc'[d] = completePc[d]
    BY <1>0, <1>7, <2>1 DEF CompleteMarkReady
  <2>3. /\ \A d \in Completers : ~Completing(d)'
        /\ \A f \in Files : chunkPc'[f] \notin ChunkBusy
    BY <2>1, <2>2 DEF Good, OneRequest
  <2>4. ReadyIsPacked'
    <3>1. SUFFICES ASSUME status # "absent", dir PROVE Packed'
      BY <2>1 DEF ReadyIsPacked
    <3>2. /\ listed[c] = fileRows
          /\ blob[FinalPath(listed[c])] = Artifact(c)
          /\ encrypting[c] => key = c
      BY <2>1, <3>1 DEF Good, ListsAllRows, ArtifactFilled, KeyStored
    <3> QED
      BY <2>1, <3>2 DEF Packed
  <2> QED
    BY <2>1, <2>3, <2>4 DEF Good, OneRequest, QuietWhenReady, ListsAllRows,
       LinkedWhileDir, ArtifactFilled, KeyStored
<1>8. CASE CompleteFails(c)
  <2>1. /\ \/ completePc'[c] = "done"
           \/ completePc[c] = "cleaning" /\ completePc'[c] = "marking"
        /\ UNCHANGED <<rowVars, storeVars, callVars, chunkPc>>
        /\ \A d \in Completers \ {c} : completePc'[d] = completePc[d]
    BY <1>8 DEF CompleteFails
  <2> QED
    BY <2>1 DEF Good, OneRequest, QuietWhenReady, ListsAllRows,
       LinkedWhileDir, ArtifactFilled, KeyStored, ReadyIsPacked, Packed
<1> QED
  BY <1>1, <1>2, <1>3, <1>4, <1>5, <1>6, <1>7, <1>8 DEF CompleteStep

\* A crash leaves no request in flight.
LEMMA CrashGood ==
  ASSUME TypeOK, Good, Crash PROVE Good'
<1>1. /\ UNCHANGED <<rowVars, storeVars, callVars>>
      /\ \A f \in Files : chunkPc'[f] \notin ChunkBusy
      /\ \A c \in Completers : completePc'[c] \notin CompleteBusy
  BY DEF Crash, TypeOK
<1> QED
  BY <1>1 DEF Good, OneRequest, QuietWhenReady, NoUploadRequest, ListsAllRows, LinkedWhileDir,
     ArtifactFilled, KeyStored, ReadyIsPacked, Packed

\* Destroying and cleaning up.
LEMMA RemovalGood ==
  ASSUME TypeOK, Good,
         \/ \E d \in Destroyers : DestroyStep(d) \/ DestroyFails(d)
         \/ \E s \in Sweepers : SweepStep(s) \/ SweepFails(s)
  PROVE  Good'
<1>1. CASE \/ \E d \in Destroyers : DestroyRemove(d)
           \/ \E s \in Sweepers : SweepRemove(s)
  BY <1>1, RemoveDirGood DEF DestroyRemove, SweepRemove
<1>2. CASE \/ \E d \in Destroyers : DestroyMark(d)
           \/ \E s \in Sweepers : SweepMark(s)
  BY <1>2, StatusGood DEF DestroyMark, SweepMark
<1>3. CASE \E s \in Sweepers : SweepDropRow(s)
  BY <1>3, DropRowGood DEF SweepDropRow
<1>4. CASE \/ \E d \in Destroyers : DestroyStart(d) \/ DestroyFails(d)
           \/ \E s \in Sweepers : \/ SweepExpired(s) \/ SweepStuck(s) \/ SweepDropTemp(s)
                                  \/ SweepStat(s) \/ SweepPurge(s) \/ SweepFails(s)
  <2>1. UNCHANGED core
    BY <1>4 DEF core, DestroyStart, DestroyFails, SweepExpired, SweepStuck, SweepDropTemp,
       SweepStat, SweepPurge, SweepFails
  <2> QED
    BY <2>1, FrameGood
<1> QED
  BY <1>1, <1>2, <1>3, <1>4 DEF DestroyStep, SweepStep

LEMMA StepGood == TypeOK /\ Good /\ Orderly /\ [Next]_vars => Good'
<1> SUFFICES ASSUME TypeOK, Good, Orderly, [Next]_vars PROVE Good'
  OBVIOUS
<1>1. CASE \E f \in Files : ChunkStep(f) \/ ChunkFails(f)
  BY <1>1, ChunkGood
<1>2. CASE \E c \in Completers : CompleteStep(c) \/ CompleteFails(c)
  BY <1>2, CompleteGood
<1>3. CASE \/ \E d \in Destroyers : DestroyStep(d) \/ DestroyFails(d)
           \/ \E s \in Sweepers : SweepStep(s) \/ SweepFails(s)
  BY <1>3, RemovalGood
<1>4. CASE Expire \/ TwelveHoursPass \/ TempDirAges \/ ToggleEncryption \/ UNCHANGED vars
  <2>1. UNCHANGED core
    BY <1>4 DEF core, vars, Expire, TwelveHoursPass, TempDirAges, ToggleEncryption
  <2> QED
    BY <2>1, FrameGood
<1>5. CASE Crash
  BY <1>5, CrashGood
<1> QED
  BY <1>1, <1>2, <1>3, <1>4, <1>5 DEF Next

(***************************************************************************)
(* The key in the row is the artifact's.                                   *)
(***************************************************************************)

\* The key that an earlier, failed call of complete() has stored does no harm
\* as long as every call reads the same setting ...
KeyOfSetting ==
    toggles = 0 =>
        /\ ~encryptFiles => key = NoKey
        /\ \A c \in Completers : completePc[c] \in Created => encrypting[c] = encryptFiles

\* ... and there is none as long as nothing fails.
KeyOfCall ==
    faults = 0 =>
        /\ \A c \in Completers : Completing(c) =>
             key = NoKey \/ (completePc[c] \in {"cleaning", "marking"} /\ encrypting[c])
        /\ status = "processing" /\ (\A c \in Completers : ~Completing(c)) => key = NoKey

\* Either way, a plain artifact is never served as an encrypted one.
PlainHasNoKey ==
    Steady /\ status = "ready" /\ dir /\ blob[FinalPath(fileRows)].key = NoKey => key = NoKey

\* Only complete() and a crash change what complete() has in its hands; the
\* others can only drop the key, with the row, or take the status further.
LEMMA OtherSteps ==
  ASSUME TypeOK, [Next]_vars, ~Crash,
         \A c \in Completers : ~CompleteStep(c) /\ ~CompleteFails(c)
  PROVE  /\ UNCHANGED <<completePc, listed, encrypting>>
         /\ key' \in {key, NoKey}
         /\ status' \in {status, "destroyed", "absent"}
         /\ \/ UNCHANGED <<dir, blob>>
            \/ dir' = FALSE
         /\ \/ UNCHANGED fileRows
            \/ status' = "absent"
            \/ \E f \in Files : chunkPc[f] \in ChunkBusy
<1> USE DEF vars
<1>1. CASE \E f \in Files : ChunkStep(f) \/ ChunkFails(f)
  BY <1>1 DEF ChunkStep, ChunkStart, ChunkWrite, ChunkRename, ChunkAdd, ChunkFails
<1>2. CASE \E d \in Destroyers : DestroyStep(d) \/ DestroyFails(d)
  BY <1>2 DEF DestroyStep, DestroyStart, DestroyRemove, DestroyMark, DestroyFails,
     RemoveUploadDir, SetDestroyed
<1>3. CASE \E s \in Sweepers : SweepStep(s) \/ SweepFails(s)
  BY <1>3 DEF SweepStep, SweepExpired, SweepRemove, SweepMark, SweepStuck, SweepDropTemp,
     SweepDropRow, SweepStat, SweepPurge, SweepFails, RemoveUploadDir, SetDestroyed
<1>4. CASE Expire \/ TwelveHoursPass \/ TempDirAges \/ ToggleEncryption \/ UNCHANGED vars
  BY <1>4 DEF Expire, TwelveHoursPass, TempDirAges, ToggleEncryption
<1> QED
  BY <1>1, <1>2, <1>3, <1>4 DEF Next

\* The bounds only count upwards, and the setting changes only with toggles.
LEMMA CountersStep ==
  ASSUME TypeOK, [Next]_vars
  PROVE  /\ toggles' = 0 => toggles = 0 /\ encryptFiles' = encryptFiles
         /\ faults' = 0 => /\ faults = 0 /\ ~Crash
                           /\ \A c \in Completers : ~CompleteFails(c)
<1> USE LifecycleAssumption DEF TypeOK, vars
<1>1. CASE \E f \in Files : ChunkStep(f) \/ ChunkFails(f)
  BY <1>1 DEF ChunkStep, ChunkStart, ChunkWrite, ChunkRename, ChunkAdd, ChunkFails, Fault,
     CompleteFails, Crash
<1>2. CASE \E c \in Completers : CompleteStep(c) \/ CompleteFails(c)
  BY <1>2 DEF CompleteStep, CompleteStart, CompleteList, CompleteCreate, CompleteFill,
     CompleteStoreKey, CompleteCleanTemp, CompleteMarkReady, CompleteFails, Fault, Crash
<1>3. CASE \E d \in Destroyers : DestroyStep(d) \/ DestroyFails(d)
  BY <1>3 DEF DestroyStep, DestroyStart, DestroyRemove, DestroyMark, DestroyFails, Fault,
     CompleteFails, Crash
<1>4. CASE \E s \in Sweepers : SweepStep(s) \/ SweepFails(s)
  BY <1>4 DEF SweepStep, SweepExpired, SweepRemove, SweepMark, SweepStuck, SweepDropTemp,
     SweepDropRow, SweepStat, SweepPurge, SweepFails, Fault, CompleteFails, Crash
<1>5. CASE Expire \/ TwelveHoursPass \/ TempDirAges \/ ToggleEncryption \/ UNCHANGED vars
  BY <1>5 DEF Expire, TwelveHoursPass, TempDirAges, ToggleEncryption, CompleteFails, Fault, Crash
<1>6. CASE Crash
  BY <1>6 DEF Crash, Fault, CompleteFails
<1> QED
  BY <1>1, <1>2, <1>3, <1>4, <1>5, <1>6 DEF Next

\* As long as nobody flips the setting.
LEMMA StepKeyOfSetting ==
  ASSUME TypeOK, Good, KeyOfSetting, [Next]_vars
  PROVE  KeyOfSetting'
<1> SUFFICES ASSUME toggles' = 0
             PROVE  /\ ~encryptFiles' => key' = NoKey
                    /\ \A c \in Completers :
                         completePc'[c] \in Created => encrypting'[c] = encryptFiles'
  BY DEF KeyOfSetting
<1>1. /\ encryptFiles' = encryptFiles
      /\ ~encryptFiles => key = NoKey
      /\ \A c \in Completers : completePc[c] \in Created => encrypting[c] = encryptFiles
  BY CountersStep DEF KeyOfSetting
<1>2. CASE \E c \in Completers : CompleteStep(c) \/ CompleteFails(c)
  <2>1. PICK c \in Completers : CompleteStep(c) \/ CompleteFails(c)
    BY <1>2
  <2>2. /\ \A d \in Completers \ {c} :
             completePc'[d] = completePc[d] /\ encrypting'[d] = encrypting[d]
        /\ completePc'[c] \in Created =>
             \/ completePc[c] \in Created /\ encrypting'[c] = encrypting[c]
             \/ encrypting'[c] = encryptFiles
    BY <2>1 DEF TypeOK, CompleteStep, CompleteStart, CompleteList, CompleteCreate,
       CompleteFill, CompleteStoreKey, CompleteCleanTemp, CompleteMarkReady, CompleteFails
  <2>3. key' = key \/ (completePc[c] = "keying" /\ encrypting[c])
    BY <2>1 DEF CompleteStep, CompleteStart, CompleteList, CompleteCreate,
       CompleteFill, CompleteStoreKey, CompleteCleanTemp, CompleteMarkReady, CompleteFails,
       Good, KeyStored
  <2> QED
    BY <1>1, <2>2, <2>3
<1>3. CASE Crash
  BY <1>1, <1>3 DEF Crash, TypeOK
<1>4. CASE ~Crash /\ \A c \in Completers : ~CompleteStep(c) /\ ~CompleteFails(c)
  BY <1>1, <1>4, OtherSteps
<1> QED
  BY <1>2, <1>3, <1>4

\* As long as nothing fails, a call that has stored its key goes on to MarkReady.
LEMMA StepKeyOfCall ==
  ASSUME TypeOK, Good, Orderly, KeyOfCall, [Next]_vars
  PROVE  KeyOfCall'
<1> SUFFICES ASSUME faults' = 0
             PROVE  /\ \A c \in Completers : Completing(c)' =>
                         \/ key' = NoKey
                         \/ completePc'[c] \in {"cleaning", "marking"} /\ encrypting'[c]
                    /\ status' = "processing" /\ (\A c \in Completers : ~Completing(c)')
                         => key' = NoKey
  BY DEF KeyOfCall
<1>1. /\ ~Crash /\ \A c \in Completers : ~CompleteFails(c)
      /\ \A c \in Completers : Completing(c) =>
           key = NoKey \/ (completePc[c] \in {"cleaning", "marking"} /\ encrypting[c])
      /\ status = "processing" /\ (\A c \in Completers : ~Completing(c)) => key = NoKey
  BY CountersStep DEF KeyOfCall
<1>2. CASE \E c \in Completers : CompleteStep(c)
  <2>1. PICK c \in Completers : CompleteStep(c)
    BY <1>2
  <2>2. \A d \in Completers \ {c} : ~Completing(d) /\ completePc'[d] = completePc[d]
    BY <2>1 DEF TypeOK, Good, OneRequest, NoUploadRequest, CompleteStep, CompleteStart,
       CompleteList, CompleteCreate, CompleteFill, CompleteStoreKey, CompleteCleanTemp,
       CompleteMarkReady
  <2>3. CASE CompleteStart(c)
    BY <1>1, <2>2, <2>3 DEF CompleteStart, TypeOK, NoUploadRequest, Writable
  <2>4. CASE CompleteList(c) \/ CompleteCreate(c) \/ CompleteFill(c)
    <3>1. key' = key /\ completePc[c] \in {"listing", "creating", "filling"}
      BY <2>4 DEF CompleteList, CompleteCreate, CompleteFill
    <3> QED
      BY <1>1, <3>1
  <2>5. CASE CompleteStoreKey(c)
    BY <2>2, <2>5 DEF CompleteStoreKey, TypeOK, Good, KeyStored
  <2>6. CASE CompleteCleanTemp(c)
    BY <1>1, <2>2, <2>6 DEF CompleteCleanTemp, TypeOK
  <2>7. CASE CompleteMarkReady(c)
    BY <2>2, <2>7 DEF CompleteMarkReady, TypeOK
  <2> QED
    BY <2>1, <2>3, <2>4, <2>5, <2>6, <2>7 DEF CompleteStep
<1>3. CASE \A c \in Completers : ~CompleteStep(c)
  BY <1>1, <1>3, OtherSteps
<1> QED
  BY <1>2, <1>3

\* So MarkReady shows a plain artifact only with no key in the row, and a
\* ready upload's key and artifact do not change except by their removal.
LEMMA StepPlainHasNoKey ==
  ASSUME TypeOK, Good, Orderly, KeyOfSetting, KeyOfCall, PlainHasNoKey, [Next]_vars
  PROVE  PlainHasNoKey'
<1> SUFFICES ASSUME Steady', status' = "ready", dir', blob'[FinalPath(fileRows')].key = NoKey
             PROVE  key' = NoKey
  BY DEF PlainHasNoKey
<1>1. Steady
  BY CountersStep DEF Steady
<1>2. CASE \E c \in Completers : CompleteMarkReady(c)
  <2>1. PICK c \in Completers : CompleteMarkReady(c)
    BY <1>2
  <2>2. /\ completePc[c] = "marking" /\ status # "absent"
        /\ UNCHANGED <<key, fileRows, dir, blob>>
    BY <2>1 DEF CompleteMarkReady
  <2>3. blob[FinalPath(fileRows)] = Artifact(c)
    BY <2>2 DEF Good, ListsAllRows, ArtifactFilled
  <2>4. ~encrypting[c]
    BY <2>2, <2>3, LifecycleAssumption DEF TypeOK
  <2> QED
    BY <1>1, <2>2, <2>4 DEF Steady, KeyOfSetting, KeyOfCall, TypeOK
<1>3. CASE status = "ready"
  <2>1. \A c \in Completers : ~Completing(c)
    BY <1>3 DEF Good, QuietWhenReady, NoUploadRequest
  <2>2. \A c \in Completers : ~CompleteStep(c) /\ ~CompleteFails(c)
    BY <1>3, <2>1 DEF CompleteStep, CompleteStart, CompleteList, CompleteCreate,
       CompleteFill, CompleteStoreKey, CompleteCleanTemp, CompleteMarkReady, CompleteFails,
       Writable
  <2>3. CASE Crash
    BY <1>1, <1>3, <2>3 DEF Crash, PlainHasNoKey
  <2>4. CASE ~Crash
    <3>1. UNCHANGED <<fileRows, dir, blob>> /\ key' \in {key, NoKey}
      BY <1>3, <2>2, <2>4, OtherSteps DEF Good, QuietWhenReady, NoUploadRequest
    <3> QED
      BY <1>1, <1>3, <3>1 DEF PlainHasNoKey
  <2> QED
    BY <2>3, <2>4
<1>4. CASE status # "ready" /\ \A c \in Completers : ~CompleteMarkReady(c)
  <2>1. CASE \E c \in Completers : CompleteStep(c) \/ CompleteFails(c)
    BY <1>4, <2>1 DEF CompleteStep, CompleteStart, CompleteList, CompleteCreate,
       CompleteFill, CompleteStoreKey, CompleteCleanTemp, CompleteFails
  <2>2. CASE Crash
    BY <1>4, <2>2 DEF Crash
  <2>3. CASE ~Crash /\ \A c \in Completers : ~CompleteStep(c) /\ ~CompleteFails(c)
    BY <1>4, <2>3, OtherSteps
  <2> QED
    BY <2>1, <2>2, <2>3
<1> QED
  BY <1>2, <1>3, <1>4

\* The inductive invariant of an orderly client's upload.
UploadInv == Good /\ KeyOfSetting /\ KeyOfCall /\ PlainHasNoKey

LEMMA InitUploadInv == Init => UploadInv
<1> SUFFICES ASSUME Init PROVE UploadInv
  OBVIOUS
<1>1. KeyOfSetting /\ KeyOfCall /\ PlainHasNoKey
  BY DEF Init, KeyOfSetting, KeyOfCall, PlainHasNoKey
<1> QED
  BY <1>1, InitGood DEF UploadInv

LEMMA StepUploadInv ==
  TypeOK /\ (Orderly => UploadInv) /\ [Next]_vars => (Orderly => UploadInv)'
  BY StepGood, StepKeyOfSetting, StepKeyOfCall, StepPlainHasNoKey DEF UploadInv

\* An orderly client's upload, once ready and until a removal of its directory,
\* has its whole artifact at the path a download computes, and its key if and
\* only if it is encrypted, after any history of failed, crashed and retried
\* requests and of cleanups, or of changes of the setting.
THEOREM ReadyUploadsAreServable == Spec => []ReadyServable
<1>1. Init => (Orderly => UploadInv)
  BY InitUploadInv
<1>2. (Orderly => UploadInv) => ReadyServable
  BY DEF UploadInv, Good, ReadyIsPacked, Packed, PlainHasNoKey, ReadyServable, Servable
<1> QED
  BY <1>1, <1>2, StepUploadInv, TypeCorrect, PTL DEF Spec

\* What complete() has achieved at each of its steps, which makes that so.
THEOREM CompletesInOrder == Spec => []CompleteInOrder
<1>1. Init => (Orderly => UploadInv)
  BY InitUploadInv
<1>2. (Orderly => UploadInv) => CompleteInOrder
  BY DEF UploadInv, Good, CompleteInOrder
<1> QED
  BY <1>1, <1>2, StepUploadInv, TypeCorrect, PTL DEF Spec

(***************************************************************************)
(* What destroys and deletes.                                              *)
(***************************************************************************)

\* A gone upload, with no complete() in flight, is not revived: no other
\* handler writes the status "ready", and complete() starts from "processing".
THEOREM GoneStaysGone == Spec => GoneForGood
<1>1. ASSUME TypeOK, Gone, [Next]_vars PROVE Gone'
  <2>1. CASE \E c \in Completers : CompleteStep(c) \/ CompleteFails(c)
    <3>1. PICK c \in Completers : CompleteStep(c) \/ CompleteFails(c)
      BY <2>1
    <3> QED
      BY <1>1, <3>1 DEF Gone, CompleteStep, CompleteStart, CompleteList, CompleteCreate,
         CompleteFill, CompleteStoreKey, CompleteCleanTemp, CompleteMarkReady,
         CompleteFails, Writable
  <2>2. CASE Crash
    BY <1>1, <2>2 DEF Gone, Crash, TypeOK
  <2>3. CASE ~Crash /\ \A c \in Completers : ~CompleteStep(c) /\ ~CompleteFails(c)
    BY <1>1, <2>3, OtherSteps DEF Gone
  <2> QED
    BY <2>1, <2>2, <2>3
<1> QED
  BY <1>1, TypeCorrect, PTL DEF Spec, GoneForGood

\* Cleanups act later on what they saw: what each has seen by then.  Time does
\* not go back, so it still holds (cleanup_service.go:61-91).
SweepsWithCause ==
    \A s \in Sweepers :
        /\ sweepPc[s] \in {"removing", "marking"} => expired
        /\ sweepPc[s] \in {"dropTemp", "dropRow"} => stale

LEMMA StepSweepsWithCause ==
  ASSUME TypeOK, SweepsWithCause, [Next]_vars
  PROVE  SweepsWithCause'
<1> USE DEF SweepsWithCause, vars
<1>1. CASE \E f \in Files : ChunkStep(f) \/ ChunkFails(f)
  BY <1>1 DEF ChunkStep, ChunkStart, ChunkWrite, ChunkRename, ChunkAdd, ChunkFails
<1>2. CASE \E c \in Completers : CompleteStep(c) \/ CompleteFails(c)
  BY <1>2 DEF CompleteStep, CompleteStart, CompleteList, CompleteCreate, CompleteFill,
     CompleteStoreKey, CompleteCleanTemp, CompleteMarkReady, CompleteFails
<1>3. CASE \E d \in Destroyers : DestroyStep(d) \/ DestroyFails(d)
  BY <1>3 DEF DestroyStep, DestroyStart, DestroyRemove, DestroyMark, DestroyFails
<1>4. CASE \E s \in Sweepers : SweepStep(s) \/ SweepFails(s)
  <2>1. PICK s \in Sweepers : SweepStep(s) \/ SweepFails(s)
    BY <1>4
  <2>2. /\ UNCHANGED <<expired, stale>>
        /\ \A t \in Sweepers \ {s} : sweepPc'[t] = sweepPc[t]
    BY <2>1 DEF TypeOK, SweepStep, SweepExpired, SweepRemove, SweepMark, SweepStuck,
       SweepDropTemp, SweepDropRow, SweepStat, SweepPurge, SweepFails
  <2>3. /\ sweepPc'[s] \in {"removing", "marking"} =>
             sweepPc[s] \in {"removing", "marking"} \/ Due
        /\ sweepPc'[s] \in {"dropTemp", "dropRow"} =>
             sweepPc[s] \in {"dropTemp", "dropRow"} \/ Stuck
    <3>1. CASE SweepStep(s)
      BY <3>1 DEF TypeOK, SweepStep, SweepExpired, SweepRemove, SweepMark, SweepStuck,
         SweepDropTemp, SweepDropRow, SweepStat, SweepPurge
    <3>2. CASE SweepFails(s)
      <4>1. sweepPc'[s] = NextAfter[sweepPc[s]] /\ sweepPc[s] \in {"idle"} \cup SweepBusy
        BY <3>2 DEF TypeOK, SweepFails
      <4> QED
        BY <4>1 DEF SweepBusy, NextAfter
    <3> QED
      BY <2>1, <3>1, <3>2
  <2> QED
    BY <2>2, <2>3 DEF Due, Stuck
<1>5. CASE Expire \/ TwelveHoursPass \/ TempDirAges \/ ToggleEncryption \/ UNCHANGED vars
  BY <1>5 DEF Expire, TwelveHoursPass, TempDirAges, ToggleEncryption
<1>6. CASE Crash
  BY <1>6 DEF Crash
<1> QED
  BY <1>1, <1>2, <1>3, <1>4, <1>5, <1>6 DEF Next

\* The same as a property of the specification.
LEMMA SweepsAreWithCause == Spec => []SweepsWithCause
<1>1. Init => SweepsWithCause
  BY DEF Init, SweepsWithCause
<1> QED
  BY <1>1, StepSweepsWithCause, TypeCorrect, PTL DEF Spec

\* No step but the deletion of a stuck row removes the row.
LEMMA OnlySweepDropsRow ==
  ASSUME [Next]_vars, status # "absent", \A s \in Sweepers : ~SweepDropRow(s)
  PROVE  status' # "absent"
<1> USE DEF vars
<1>1. CASE \E f \in Files : ChunkStep(f) \/ ChunkFails(f)
  BY <1>1 DEF ChunkStep, ChunkStart, ChunkWrite, ChunkRename, ChunkAdd, ChunkFails
<1>2. CASE \E c \in Completers : CompleteStep(c) \/ CompleteFails(c)
  BY <1>2 DEF CompleteStep, CompleteStart, CompleteList, CompleteCreate, CompleteFill,
     CompleteStoreKey, CompleteCleanTemp, CompleteMarkReady, CompleteFails
<1>3. CASE \E d \in Destroyers : DestroyStep(d) \/ DestroyFails(d)
  BY <1>3 DEF DestroyStep, DestroyStart, DestroyRemove, DestroyMark, DestroyFails, SetDestroyed
<1>4. CASE \E s \in Sweepers : SweepStep(s) \/ SweepFails(s)
  BY <1>4 DEF SweepStep, SweepExpired, SweepRemove, SweepMark, SweepStuck, SweepDropTemp,
     SweepStat, SweepPurge, SweepFails, SetDestroyed
<1>5. CASE Expire \/ TwelveHoursPass \/ TempDirAges \/ ToggleEncryption \/ UNCHANGED vars
  BY <1>5 DEF Expire, TwelveHoursPass, TempDirAges, ToggleEncryption
<1>6. CASE Crash
  BY <1>6 DEF Crash
<1> QED
  BY <1>1, <1>2, <1>3, <1>4, <1>5, <1>6 DEF Next

\* The row of an upload younger than twelve hours is never deleted, although
\* the cleanup deletes by id what it listed earlier.
THEOREM YoungRowsAreKept == Spec => YoungRowsStay
<1>1. ASSUME SweepsWithCause, [Next]_vars
      PROVE  status # "absent" /\ ~stale => status' # "absent"
  BY <1>1, OnlySweepDropsRow DEF SweepsWithCause, SweepDropRow
<1>2. SweepsWithCause /\ [Next]_vars
        => [status # "absent" /\ ~stale => status' # "absent"]_vars
  BY <1>1
<1> QED
  BY <1>2, SweepsAreWithCause, PTL DEF Spec, YoungRowsStay

(***************************************************************************)
(* Nothing is destroyed without cause.                                     *)
(***************************************************************************)

\* The steps that take away a directory or the status "ready": a destroy that
\* has started, or a cleanup that has seen the upload expired or stuck.
LEMMA RemovalsHaveCause ==
  ASSUME TypeOK, SweepsWithCause, Unasked,
         [Next]_vars
  PROVE  /\ dir => dir'
         /\ status = "ready" => status' = "ready"
<1> USE DEF vars
<1>1. CASE \E f \in Files : ChunkStep(f) \/ ChunkFails(f)
  BY <1>1 DEF ChunkStep, ChunkStart, ChunkWrite, ChunkRename, ChunkAdd, ChunkFails
<1>2. CASE \E c \in Completers : CompleteStep(c) \/ CompleteFails(c)
  BY <1>2 DEF CompleteStep, CompleteStart, CompleteList, CompleteCreate, CompleteFill,
     CompleteStoreKey, CompleteCleanTemp, CompleteMarkReady, CompleteFails
<1>3. CASE \E d \in Destroyers : DestroyStep(d) \/ DestroyFails(d)
  BY <1>3 DEF DestroyStep, DestroyStart, DestroyRemove, DestroyMark, DestroyFails,
     DestroyBusy, Unasked
<1>4. CASE \E s \in Sweepers : SweepStep(s) \/ SweepFails(s)
  BY <1>4 DEF SweepStep, SweepExpired, SweepRemove, SweepMark, SweepStuck, SweepDropTemp,
     SweepDropRow, SweepStat, SweepPurge, SweepFails, SweepsWithCause, Unasked
<1>5. CASE Expire \/ TwelveHoursPass \/ TempDirAges \/ ToggleEncryption \/ UNCHANGED vars
  BY <1>5 DEF Expire, TwelveHoursPass, TempDirAges, ToggleEncryption
<1>6. CASE Crash
  BY <1>6 DEF Crash
<1> QED
  BY <1>1, <1>2, <1>3, <1>4, <1>5, <1>6 DEF Next

\* An upload that nobody has asked to destroy was not asked for earlier, except
\* that a destroy which a crash has ended is "done" and not "idle" again.
LEMMA UnaskedBefore ==
  ASSUME TypeOK, [Next]_vars, Unasked'
  PROVE  Unasked
<1> USE DEF vars, TypeOK, Unasked
<1>1. CASE \E f \in Files : ChunkStep(f) \/ ChunkFails(f)
  BY <1>1 DEF ChunkStep, ChunkStart, ChunkWrite, ChunkRename, ChunkAdd, ChunkFails
<1>2. CASE \E c \in Completers : CompleteStep(c) \/ CompleteFails(c)
  BY <1>2 DEF CompleteStep, CompleteStart, CompleteList, CompleteCreate, CompleteFill,
     CompleteStoreKey, CompleteCleanTemp, CompleteMarkReady, CompleteFails
<1>3. CASE \E d \in Destroyers : DestroyStep(d) \/ DestroyFails(d)
  BY <1>3 DEF DestroyStep, DestroyStart, DestroyRemove, DestroyMark, DestroyFails
<1>4. CASE \E s \in Sweepers : SweepStep(s) \/ SweepFails(s)
  BY <1>4 DEF SweepStep, SweepExpired, SweepRemove, SweepMark, SweepStuck, SweepDropTemp,
     SweepDropRow, SweepStat, SweepPurge, SweepFails
<1>5. CASE Expire \/ TwelveHoursPass \/ TempDirAges \/ ToggleEncryption \/ UNCHANGED vars
  BY <1>5 DEF Expire, TwelveHoursPass, TempDirAges, ToggleEncryption
<1>6. CASE Crash
  BY <1>6 DEF Crash
<1> QED
  BY <1>1, <1>2, <1>3, <1>4, <1>5, <1>6 DEF Next

\* complete() has created the directory that it packs into, and a ready upload
\* still has it, as long as nobody has had a cause to remove it.
DirKept ==
    Unasked => /\ \A c \in Completers : completePc[c] \in Packing => dir
               /\ status = "ready" => dir

LEMMA StepDirKept ==
  ASSUME TypeOK, SweepsWithCause, DirKept, [Next]_vars
  PROVE  DirKept'
<1> SUFFICES ASSUME Unasked'
             PROVE  /\ \A c \in Completers : completePc'[c] \in Packing => dir'
                    /\ status' = "ready" => dir'
  BY DEF DirKept
<1>1. /\ Unasked
      /\ \A c \in Completers : completePc[c] \in Packing => dir
      /\ status = "ready" => dir
      /\ dir => dir'
  BY UnaskedBefore, RemovalsHaveCause DEF DirKept
<1>2. CASE \E c \in Completers : CompleteStep(c) \/ CompleteFails(c)
  <2>1. PICK c \in Completers : CompleteStep(c) \/ CompleteFails(c)
    BY <1>2
  <2>2. /\ \A d \in Completers \ {c} : completePc'[d] = completePc[d]
        /\ completePc'[c] \in Packing => completePc[c] \in Packing \/ dir'
        /\ status' = "ready" => status = "ready" \/ completePc[c] \in Packing
    BY <2>1 DEF TypeOK, CompleteStep, CompleteStart, CompleteList, CompleteCreate,
       CompleteFill, CompleteStoreKey, CompleteCleanTemp, CompleteMarkReady, CompleteFails
  <2> QED
    BY <1>1, <2>2
<1>3. CASE Crash
  BY <1>1, <1>3 DEF Crash, TypeOK
<1>4. CASE ~Crash /\ \A c \in Completers : ~CompleteStep(c) /\ ~CompleteFails(c)
  BY <1>1, <1>4, OtherSteps
<1> QED
  BY <1>2, <1>3, <1>4

\* As long as a ready upload is neither expired nor stale and nobody has asked
\* for its destruction, it stays ready and servable.
THEOREM NothingLostWithoutCause == Spec => KeptWithoutCause
<1>1. Init => DirKept
  BY DEF Init, DirKept
<1>2. Spec => []DirKept
  BY <1>1, StepDirKept, SweepsAreWithCause, TypeCorrect, PTL DEF Spec
<1>3. ASSUME TypeOK, SweepsWithCause, DirKept, ReadyServable', [Next]_vars,
             Orderly, Unasked, status = "ready"
      PROVE  status' = "ready" /\ (Steady' => Servable')
  BY <1>3, RemovalsHaveCause DEF DirKept, ReadyServable
<1>4. TypeOK /\ SweepsWithCause /\ DirKept /\ ReadyServable' /\ [Next]_vars
        => [Orderly /\ Unasked /\ status = "ready" =>
              status' = "ready" /\ (Steady' => Servable')]_vars
  BY <1>3
<1> QED
  BY <1>2, <1>4, TypeCorrect, SweepsAreWithCause, ReadyUploadsAreServable, PTL
  DEF Spec, KeptWithoutCause

(***************************************************************************)
(* Received files wait for complete().                                     *)
(***************************************************************************)

\* Only cleanups of old directories purge storage/temp besides complete().
PurgesWithCause ==
    /\ tempOld => stale
    /\ \A s \in Sweepers : sweepPc[s] = "purging" => stale

LEMMA StepPurgesWithCause ==
  ASSUME TypeOK, PurgesWithCause, [Next]_vars
  PROVE  PurgesWithCause'
<1> USE DEF PurgesWithCause, vars
<1>1. CASE \E f \in Files : ChunkStep(f) \/ ChunkFails(f)
  BY <1>1 DEF ChunkStep, ChunkStart, ChunkWrite, ChunkRename, ChunkAdd, ChunkFails
<1>2. CASE \E c \in Completers : CompleteStep(c) \/ CompleteFails(c)
  BY <1>2 DEF CompleteStep, CompleteStart, CompleteList, CompleteCreate, CompleteFill,
     CompleteStoreKey, CompleteCleanTemp, CompleteMarkReady, CompleteFails
<1>3. CASE \E d \in Destroyers : DestroyStep(d) \/ DestroyFails(d)
  BY <1>3 DEF DestroyStep, DestroyStart, DestroyRemove, DestroyMark, DestroyFails
<1>4. CASE \E s \in Sweepers : SweepStep(s) \/ SweepFails(s)
  <2>1. PICK s \in Sweepers : SweepStep(s) \/ SweepFails(s)
    BY <1>4
  <2>2. /\ stale' = stale /\ (tempOld' => tempOld)
        /\ \A t \in Sweepers \ {s} : sweepPc'[t] = sweepPc[t]
    BY <2>1 DEF TypeOK, SweepStep, SweepExpired, SweepRemove, SweepMark, SweepStuck,
       SweepDropTemp, SweepDropRow, SweepStat, SweepPurge, SweepFails
  <2>3. sweepPc'[s] = "purging" => tempOld
    <3>1. CASE SweepStep(s)
      BY <3>1 DEF TypeOK, SweepStep, SweepExpired, SweepRemove, SweepMark, SweepStuck,
         SweepDropTemp, SweepDropRow, SweepStat, SweepPurge
    <3>2. CASE SweepFails(s)
      <4>1. sweepPc'[s] = NextAfter[sweepPc[s]] /\ sweepPc[s] \in {"idle"} \cup SweepBusy
        BY <3>2 DEF TypeOK, SweepFails
      <4> QED
        BY <4>1 DEF SweepBusy, NextAfter
    <3> QED
      BY <2>1, <3>1, <3>2
  <2> QED
    BY <2>2, <2>3
<1>5. CASE Expire \/ TwelveHoursPass \/ TempDirAges \/ ToggleEncryption \/ UNCHANGED vars
  BY <1>5 DEF Expire, TwelveHoursPass, TempDirAges, ToggleEncryption
<1>6. CASE Crash
  BY <1>6 DEF Crash
<1> QED
  BY <1>1, <1>2, <1>3, <1>4, <1>5, <1>6 DEF Next

\* A file whose row is about to be added is there already, too.
AddedFilesWait ==
    Orderly /\ faults = 0 /\ ~stale /\ status = "processing" =>
        \A f \in Files : chunkPc[f] = "adding" => f \in temp

\* Without a fault, and as long as the row is young, only complete() takes the
\* files away, and then it holds the only request.
LEMMA StepAwaits ==
  ASSUME TypeOK, CompleteInOrder, SweepsWithCause, PurgesWithCause, FilesAwaitComplete,
         AddedFilesWait, [Next]_vars
  PROVE  FilesAwaitComplete' /\ AddedFilesWait'
<1> SUFFICES ASSUME Orderly, faults' = 0, ~stale', status' = "processing"
             PROVE  /\ fileRows' \subseteq temp' \/ \E c \in Completers : completePc'[c] = "marking"
                    /\ \A f \in Files : chunkPc'[f] = "adding" => f \in temp'
  BY DEF FilesAwaitComplete, AddedFilesWait
<1> USE DEF vars
<1>f. ASSUME Fault PROVE FALSE
  BY <1>f, LifecycleAssumption DEF Fault, TypeOK
<1>1. CASE \E f \in Files : ChunkStep(f) \/ ChunkFails(f)
  <2>1. PICK f \in Files : ChunkStep(f)
    BY <1>1, <1>f DEF ChunkFails
  <2>2. faults = 0 /\ ~stale /\ status = "processing" /\ completePc' = completePc
    BY <2>1 DEF ChunkStep, ChunkStart, ChunkWrite, ChunkRename, ChunkAdd
  <2>3. /\ fileRows \subseteq temp \/ \E c \in Completers : completePc[c] = "marking"
        /\ \A g \in Files : chunkPc[g] = "adding" => g \in temp
    BY <2>2 DEF FilesAwaitComplete, AddedFilesWait
  <2>4. CASE ChunkStart(f) \/ ChunkWrite(f)
    BY <2>2, <2>3, <2>4 DEF ChunkStart, ChunkWrite, TypeOK
  <2>5. CASE ChunkRename(f)
    BY <2>2, <2>3, <2>5 DEF ChunkRename, TypeOK
  <2>6. CASE ChunkAdd(f)
    BY <2>2, <2>3, <2>6 DEF ChunkAdd, TypeOK
  <2> QED
    BY <2>1, <2>4, <2>5, <2>6 DEF ChunkStep
<1>2. CASE \E c \in Completers : CompleteStep(c) \/ CompleteFails(c)
  <2>1. PICK c \in Completers : CompleteStep(c)
    BY <1>2, <1>f DEF CompleteFails
  <2>2. ~CompleteMarkReady(c)
    BY DEF CompleteMarkReady
  <2>3. faults = 0 /\ ~stale /\ status = "processing" /\ chunkPc' = chunkPc /\ fileRows' = fileRows
    BY <2>1, <2>2 DEF CompleteStep, CompleteStart, CompleteList, CompleteCreate,
       CompleteFill, CompleteStoreKey, CompleteCleanTemp
  <2>4. /\ fileRows \subseteq temp \/ \E d \in Completers : completePc[d] = "marking"
        /\ \A g \in Files : chunkPc[g] = "adding" => g \in temp
    BY <2>3 DEF FilesAwaitComplete, AddedFilesWait
  <2>5. CASE CompleteCleanTemp(c)
    <3>1. completePc'[c] = "marking" /\ Completing(c)
      BY <2>5 DEF CompleteCleanTemp, TypeOK
    <3>2. \A g \in Files : chunkPc[g] # "adding"
      BY <3>1 DEF CompleteInOrder, OneRequest
    <3> QED
      BY <2>3, <3>1, <3>2
  <2>6. CASE ~CompleteCleanTemp(c)
    <3>1. temp' = temp /\ (completePc[c] = "marking" => FALSE)
          /\ \A d \in Completers : d # c => completePc'[d] = completePc[d]
      BY <2>1, <2>2, <2>6 DEF CompleteStep, CompleteStart, CompleteList, CompleteCreate,
         CompleteFill, CompleteStoreKey, TypeOK
    <3> QED
      BY <2>3, <2>4, <3>1
  <2> QED
    BY <2>5, <2>6
<1>3. CASE \E d \in Destroyers : DestroyStep(d) \/ DestroyFails(d)
  <2>1. UNCHANGED <<fileRows, temp, completePc, chunkPc, faults, stale, status>>
    BY <1>3, <1>f DEF DestroyStep, DestroyStart, DestroyRemove, DestroyMark, DestroyFails,
       SetDestroyed
  <2> QED
    BY <2>1 DEF FilesAwaitComplete, AddedFilesWait
<1>4. CASE \E s \in Sweepers : SweepStep(s) \/ SweepFails(s)
  <2>1. UNCHANGED <<fileRows, temp, completePc, chunkPc, faults, stale, status>>
    BY <1>4, <1>f DEF SweepStep, SweepExpired, SweepRemove, SweepMark, SweepStuck,
       SweepDropTemp, SweepDropRow, SweepStat, SweepPurge, SweepFails, SetDestroyed,
       SweepsWithCause, PurgesWithCause
  <2> QED
    BY <2>1 DEF FilesAwaitComplete, AddedFilesWait
<1>5. CASE Expire \/ TwelveHoursPass \/ TempDirAges \/ ToggleEncryption \/ UNCHANGED vars
  <2>1. /\ UNCHANGED <<fileRows, temp, completePc, chunkPc, faults, status>>
        /\ ~stale
    BY <1>5 DEF Expire, TwelveHoursPass, TempDirAges, ToggleEncryption
  <2> QED
    BY <2>1 DEF FilesAwaitComplete, AddedFilesWait
<1>6. CASE Crash
  BY <1>6, <1>f DEF Crash
<1> QED
  BY <1>1, <1>2, <1>3, <1>4, <1>5, <1>6 DEF Next

\* As long as nothing fails and the upload is younger than twelve hours, what
\* an orderly client has sent is still in storage/temp when complete() comes for
\* it, however often the cleanup runs.
THEOREM FilesWaitForComplete == Spec => []FilesAwaitComplete
<1>1. Init => PurgesWithCause /\ FilesAwaitComplete /\ AddedFilesWait
  BY DEF Init, PurgesWithCause, FilesAwaitComplete, AddedFilesWait
<1>2. Spec => []PurgesWithCause
  BY <1>1, StepPurgesWithCause, TypeCorrect, PTL DEF Spec
<1> QED
  BY <1>1, <1>2, StepAwaits, TypeCorrect, CompletesInOrder, SweepsAreWithCause, PTL DEF Spec

(***************************************************************************)
(* The upload keeps its contract.                                          *)
(***************************************************************************)
Unwanted == expired \/ Asked
Busy     == \E c \in Completers : completePc[c] \in CompleteBusy
Works    == status = "ready" /\ dir /\ Servable

\* DirKept for an upload of any age: only the unwanted lose their directory.
WantedDirKept ==
    ~Unwanted => /\ \A c \in Completers : completePc[c] \in Packing => dir
                 /\ status = "ready" => dir

\* The directory, the status and the requests to destroy, step by step: what
\* takes something away has a cause, and causes do not go away.
LEMMA EffectsHaveCause ==
  ASSUME TypeOK, SweepsWithCause, [Next]_vars,
         \A c \in Completers : ~CompleteStep(c) /\ ~CompleteFails(c)
  PROVE  /\ Unwanted => Unwanted'
         /\ dir' \in {dir, FALSE} /\ (dir' # dir => Unwanted)
         /\ \/ status' = status
            \/ status' = "destroyed" /\ status # "absent" /\ Unwanted
            \/ status' = "absent" /\ stale
         /\ stale => stale'
         /\ stale' = stale \/ UNCHANGED <<status, dir, Unwanted>>
         /\ Unwanted' = Unwanted \/ UNCHANGED <<status, dir>>
<1> USE DEF vars
<1>1. ASSUME UNCHANGED <<status, dir, expired, destroyPc>>, stale => stale'
      PROVE  /\ Unwanted' = Unwanted
             /\ dir' \in {dir, FALSE} /\ (dir' # dir => Unwanted)
             /\ status' = status /\ (stale => stale')
  BY <1>1 DEF Unwanted, Asked
<1>2. CASE \E f \in Files : ChunkStep(f) \/ ChunkFails(f)
  <2>1. UNCHANGED <<status, dir, expired, destroyPc, stale>>
    BY <1>2 DEF ChunkStep, ChunkStart, ChunkWrite, ChunkRename, ChunkAdd, ChunkFails
  <2> QED
    BY <1>1, <2>1
<1>3. CASE \E d \in Destroyers : DestroyStep(d) \/ DestroyFails(d)
  <2>1. PICK d \in Destroyers : DestroyStep(d) \/ DestroyFails(d)
    BY <1>3
  <2>2. /\ UNCHANGED <<stale, expired>> /\ dir' \in {dir, FALSE} /\ dir \in BOOLEAN
        /\ destroyPc'[d] # "idle" /\ \A e \in Destroyers \ {d} : destroyPc'[e] = destroyPc[e]
        /\ dir' # dir => destroyPc[d] # "idle"
        /\ \/ status' = status
           \/ status' = "destroyed" /\ status # "absent" /\ destroyPc[d] # "idle"
    BY <2>1 DEF TypeOK, DestroyStep, DestroyStart, DestroyRemove, DestroyMark, DestroyFails,
       DestroyBusy, RemoveUploadDir, SetDestroyed
  <2> QED
    BY <2>2 DEF Unwanted, Asked
<1>4. CASE \E s \in Sweepers : SweepStep(s) \/ SweepFails(s)
  <2>1. /\ UNCHANGED <<stale, expired, destroyPc>> /\ dir' \in {dir, FALSE}
        /\ dir' # dir => expired
        /\ \/ status' = status
           \/ status' = "destroyed" /\ status # "absent" /\ expired
           \/ status' = "absent" /\ stale
    BY <1>4 DEF TypeOK, SweepStep, SweepExpired, SweepRemove, SweepMark, SweepStuck,
       SweepDropTemp, SweepDropRow, SweepStat, SweepPurge, SweepFails, SweepsWithCause,
       RemoveUploadDir, SetDestroyed
  <2> QED
    BY <2>1 DEF Unwanted, Asked
<1>5. CASE Expire
  BY <1>5 DEF Expire, Unwanted, Asked
<1>6. CASE TwelveHoursPass \/ TempDirAges \/ ToggleEncryption \/ UNCHANGED vars
  <2>1. UNCHANGED <<status, dir, expired, destroyPc>> /\ (stale => stale')
    BY <1>6 DEF TwelveHoursPass, TempDirAges, ToggleEncryption
  <2> QED
    BY <1>1, <2>1
<1>7. CASE Crash
  <2>1. UNCHANGED <<status, dir, expired, stale>>
    BY <1>7 DEF Crash
  <2>2. \A d \in Destroyers : destroyPc[d] # "idle" => destroyPc'[d] # "idle"
    BY <1>7 DEF Crash, TypeOK, DestroyBusy
  <2> QED
    BY <2>1, <2>2 DEF Unwanted, Asked
<1> QED
  BY <1>2, <1>3, <1>4, <1>5, <1>6, <1>7 DEF Next

\* What a step of complete() does to the same.
LEMMA CompleteEffects ==
  ASSUME TypeOK, NEW c \in Completers, CompleteStep(c) \/ CompleteFails(c)
  PROVE  /\ UNCHANGED <<expired, stale, destroyPc>>
         /\ \A d \in Completers \ {c} : completePc'[d] = completePc[d]
         /\ dir' \in {dir, TRUE}
         /\ completePc'[c] \in Packing => completePc[c] \in Packing \/ dir'
         /\ \/ CompleteStart(c)
            \/ CompleteMarkReady(c)
            \/ /\ status' = status /\ completePc[c] \in CompleteBusy
               /\ completePc'[c] \in CompleteBusy \cup {"done"}
  BY DEF TypeOK, CompleteStep, CompleteStart, CompleteList, CompleteCreate,
     CompleteFill, CompleteStoreKey, CompleteCleanTemp, CompleteMarkReady, CompleteFails

LEMMA StepWantedDirKept ==
  ASSUME TypeOK, SweepsWithCause, WantedDirKept, [Next]_vars
  PROVE  WantedDirKept'
<1> SUFFICES ASSUME ~Unwanted'
             PROVE  /\ \A c \in Completers : completePc'[c] \in Packing => dir'
                    /\ status' = "ready" => dir'
  BY DEF WantedDirKept
<1>1. CASE \E c \in Completers : CompleteStep(c) \/ CompleteFails(c)
  <2>1. PICK c \in Completers : CompleteStep(c) \/ CompleteFails(c)
    BY <1>1
  <2>2. ~Unwanted /\ (dir => dir')
    BY <2>1, CompleteEffects DEF Unwanted, Asked
  <2>3. status' = "ready" => status = "ready" \/ completePc[c] \in Packing
    BY <2>1 DEF CompleteStep, CompleteStart, CompleteList, CompleteCreate,
       CompleteFill, CompleteStoreKey, CompleteCleanTemp, CompleteMarkReady, CompleteFails
  <2> QED
    BY <2>1, <2>2, <2>3, CompleteEffects DEF WantedDirKept
<1>2. CASE \A c \in Completers : ~CompleteStep(c) /\ ~CompleteFails(c)
  <2>1. ~Unwanted /\ dir' = dir /\ (status' = "ready" => status = "ready")
    BY <1>2, EffectsHaveCause DEF TypeOK
  <2>2. \A c \in Completers : completePc'[c] \in Packing => completePc[c] \in Packing
    <3>1. CASE Crash
      BY <3>1 DEF Crash, TypeOK
    <3>2. CASE ~Crash
      BY <1>2, <3>2, OtherSteps
    <3> QED
      BY <3>1, <3>2
  <2> QED
    BY <2>1, <2>2 DEF WantedDirKept
<1> QED
  BY <1>1, <1>2

\* What holds before and after each step of an orderly client's upload.
ContractInv ==
    /\ TypeOK /\ SweepsWithCause /\ WantedDirKept
    /\ OneRequest /\ QuietWhenReady
    /\ Works <=> status = "ready" /\ dir

LEMMA ContractStep ==
  ASSUME Orderly, ContractInv, ContractInv', [Next]_vars
  PROVE  Contract!Next \/ UNCHANGED <<status, Works, Busy, Unwanted, stale>>
<1> USE DEF ContractInv
<1>0. /\ Works \in BOOLEAN /\ Works' \in BOOLEAN /\ Busy \in BOOLEAN /\ Busy' \in BOOLEAN
      /\ Unwanted \in BOOLEAN /\ Unwanted' \in BOOLEAN /\ stale \in BOOLEAN /\ stale' \in BOOLEAN
  BY DEF Works, Busy, Unwanted, Asked, TypeOK
<1>1. CASE \E c \in Completers : CompleteStep(c) \/ CompleteFails(c)
  <2>1. PICK c \in Completers : CompleteStep(c) \/ CompleteFails(c)
    BY <1>1
  <2>2. /\ Unwanted' = Unwanted /\ stale' = stale
        /\ \A d \in Completers \ {c} : completePc'[d] = completePc[d]
    <3>1. /\ UNCHANGED <<expired, stale, destroyPc>>
          /\ \A d \in Completers \ {c} : completePc'[d] = completePc[d]
      BY <2>1, CompleteEffects
    <3> QED
      BY <3>1 DEF Unwanted, Asked
  <2>3. CASE CompleteStart(c)
    <3>1. /\ status = "processing" /\ status' = status /\ ~Busy /\ Busy'
      BY <2>3 DEF CompleteStart, Writable, NoUploadRequest, Busy, TypeOK
    <3>2. ~Works /\ ~Works'
      BY <3>1 DEF Works
    <3> QED
      BY <1>0, <2>2, <3>1, <3>2 DEF Contract!Next, Contract!StartPacking, Works, Busy, Unwanted
  <2>4. ASSUME completePc[c] \in CompleteBusy
        PROVE  Busy /\ status # "ready" /\ ~Works /\ (completePc'[c] = "done" => ~Busy')
    <3>1. Busy /\ status # "ready" /\ ~Works
      BY <2>4 DEF Busy, QuietWhenReady, NoUploadRequest, Works
    <3>2. \A d \in Completers \ {c} : completePc[d] \notin CompleteBusy
      BY <2>4 DEF OneRequest
    <3> QED
      BY <2>2, <3>1, <3>2 DEF Busy
  <2>5. CASE CompleteMarkReady(c)
    <3>1. /\ completePc[c] = "marking" /\ completePc'[c] = "done" /\ dir' = dir
          /\ status' = IF status = "absent" THEN "absent" ELSE "ready"
      BY <2>5 DEF CompleteMarkReady, TypeOK
    <3>2. Busy /\ status # "ready" /\ ~Works /\ ~Busy'
      BY <2>4, <3>1
    <3>3. CASE status = "absent"
      <4>1. ~Works' /\ status' = status
        BY <3>1, <3>3 DEF Works
      <4> QED
        BY <1>0, <2>2, <3>2, <4>1 DEF Contract!Next, Contract!GiveUp, Works, Busy, Unwanted
    <3>4. CASE status # "absent"
      <4>1. status \in {"processing", "destroyed"} /\ status' = "ready"
        BY <3>1, <3>2, <3>4 DEF TypeOK
      <4>2. Works' \/ Unwanted
        BY <3>1, <4>1 DEF WantedDirKept
      <4> QED
        BY <1>0, <2>2, <3>2, <4>1, <4>2 DEF Contract!Next, Contract!Publish, Works, Busy, Unwanted
    <3> QED
      BY <3>3, <3>4
  <2>6. CASE /\ status' = status /\ completePc[c] \in CompleteBusy
             /\ completePc'[c] \in CompleteBusy \cup {"done"}
    <3>1. Busy /\ ~Works /\ ~Works' /\ (completePc'[c] = "done" => ~Busy')
      BY <2>4, <2>6 DEF Works
    <3>2. CASE Busy'
      BY <1>0, <2>2, <2>6, <3>1, <3>2
    <3>3. CASE ~Busy'
      BY <1>0, <2>2, <2>6, <3>1, <3>3 DEF Contract!Next, Contract!GiveUp, Works, Busy, Unwanted
    <3> QED
      BY <3>2, <3>3
  <2> QED
    BY <2>1, <2>3, <2>5, <2>6, CompleteEffects
<1>2. CASE Crash
  <2>1. /\ UNCHANGED <<status, dir, stale, expired>>
        /\ ~Busy'
    BY <1>2 DEF Crash, Busy, TypeOK
  <2>2. Unwanted' = Unwanted
    BY <1>2, <2>1 DEF Crash, Unwanted, Asked, TypeOK, DestroyBusy
  <2>3. Works' = Works
    BY <1>0, <2>1
  <2> QED
    BY <1>0, <2>1, <2>2, <2>3 DEF Contract!Next, Contract!GiveUp, Works, Busy, Unwanted
<1>3. CASE ~Crash /\ \A c \in Completers : ~CompleteStep(c) /\ ~CompleteFails(c)
  <2>1. Busy' = Busy
    BY <1>3, OtherSteps DEF Busy
  <2>2. /\ Unwanted => Unwanted'
        /\ dir' \in {dir, FALSE} /\ (dir' # dir => Unwanted)
        /\ \/ status' = status
           \/ status' = "destroyed" /\ status # "absent" /\ Unwanted
           \/ status' = "absent" /\ stale
        /\ stale => stale'
        /\ stale' = stale \/ UNCHANGED <<status, dir, Unwanted>>
        /\ Unwanted' = Unwanted \/ UNCHANGED <<status, dir>>
    BY <1>3, EffectsHaveCause
  <2>3. CASE status' = status /\ dir' = dir
    <3>1. Works' = Works
      BY <1>0, <2>3
    <3>2. CASE stale' = stale /\ Unwanted' = Unwanted
      BY <2>1, <2>3, <3>1, <3>2
    <3>3. CASE stale' # stale
      <4>1. ~stale /\ stale' = TRUE /\ Unwanted' = Unwanted
        BY <1>0, <2>2, <3>3
      <4> QED
        BY <2>1, <2>3, <3>1, <4>1 DEF Contract!Next, Contract!Age, Works, Busy, Unwanted
    <3>4. CASE Unwanted' # Unwanted
      <4>1. ~Unwanted /\ Unwanted' = TRUE /\ stale' = stale
        BY <1>0, <2>2, <3>4
      <4> QED
        BY <2>1, <2>3, <3>1, <4>1 DEF Contract!Next, Contract!BecomeUnwanted, Works, Busy, Unwanted
    <3> QED
      BY <3>2, <3>3, <3>4
  <2>4. CASE status' = status /\ dir' # dir
    <3>1. /\ stale' = stale /\ Unwanted' = Unwanted /\ Unwanted /\ Works' = FALSE
      BY <1>0, <2>2, <2>4 DEF Works
    <3>2. CASE Works
      BY <2>1, <2>4, <3>1, <3>2 DEF Contract!Next, Contract!TakeFiles, Works, Busy, Unwanted
    <3>3. CASE ~Works
      BY <1>0, <2>1, <2>4, <3>1, <3>3
    <3> QED
      BY <3>2, <3>3
  <2>5. CASE status' # status
    <3>1. stale' = stale /\ Unwanted' = Unwanted /\ Works' = FALSE
      BY <1>0, <2>2, <2>5 DEF Works
    <3>2. CASE status' = "destroyed" /\ status # "absent" /\ Unwanted
      <4>1. status \in {"processing", "ready"}
        BY <2>5, <3>2 DEF TypeOK
      <4> QED
        BY <2>1, <3>1, <3>2, <4>1 DEF Contract!Next, Contract!Destroy, Works, Busy, Unwanted
    <3>3. CASE status' = "absent" /\ stale
      BY <2>1, <2>5, <3>1, <3>3 DEF Contract!Next, Contract!Delete, Works, Busy, Unwanted
    <3> QED
      BY <2>2, <2>5, <3>2, <3>3
  <2> QED
    BY <2>3, <2>4, <2>5
<1> QED
  BY <1>1, <1>2, <1>3

\* However requests, jobs, crashes and failures interleave, an orderly client's
\* upload keeps its contract: it works from the moment it is ready until somebody or
\* its date wants it gone, only a stale row is deleted, and nothing but a complete()
\* under way publishes it (upload_service.go, Complete; download_service.go, Destroy;
\* cleanup_service.go).
THEOREM UploadKeepsContract ==
  Orderly /\ (MaxFaults = 0 \/ MaxToggles = 0) => (Spec => ImplementsContract)
<1> SUFFICES ASSUME Orderly, MaxFaults = 0 \/ MaxToggles = 0 PROVE Spec => Contract!Spec
  BY DEF ImplementsContract
<1>1. Init => Contract!Init
  BY DEF Init, Contract!Init, Asked
<1>2. Init => WantedDirKept
  BY DEF Init, WantedDirKept, Packing
<1>3. Spec => []WantedDirKept
  BY <1>2, StepWantedDirKept, SweepsAreWithCause, TypeCorrect, PTL DEF Spec
<1>4. TypeOK => Steady
  BY LifecycleAssumption DEF TypeOK, Steady
<1>5. TypeOK /\ SweepsWithCause /\ WantedDirKept /\ CompleteInOrder /\ ReadyServable
        => ContractInv
  BY <1>4 DEF ContractInv, CompleteInOrder, ReadyServable, Works
<1>6. ContractInv /\ ContractInv' /\ [Next]_vars => [Contract!Next]_Contract!vars
  BY ContractStep DEF Contract!vars, Works, Busy, Unwanted
<1> QED
  BY <1>1, <1>3, <1>5, <1>6, TypeCorrect, SweepsAreWithCause, CompletesInOrder,
     ReadyUploadsAreServable, PTL DEF Spec, Contract!Spec
=============================================================================
