---------------------------- MODULE ChunkAssembly ----------------------------
(***************************************************************************)
(* How ONE file reaches storage/temp: the client's uploadFileInChunks and  *)
(* uploadChunkWithRetry, an unreliable network, and ReceiveChunk on the    *)
(* server, any step of which may fail.  The client sends the chunks in     *)
(* order, one request at a time, and sends a chunk again when the          *)
(* connection breaks or the server answers 5xx; the server may still be    *)
(* handling the request that the client has given up on.  A user may       *)
(* cancel and start over: the page then opens a new session, and sends the *)
(* same file under the same file id.                                       *)
(*                                                                         *)
(* A file is the set of its chunks that have been written.  Chunk k goes   *)
(* to its own offset, so a file that has chunk N has the full size, with   *)
(* zero bytes where a chunk is missing.                                    *)
(***************************************************************************)
EXTENDS Naturals

CONSTANTS
    N,            \* chunks of the file
    MaxAttempts,  \* 1 + MAX_CHUNK_RETRIES
    MaxSessions   \* bound: how often the user starts over, plus one

ASSUME ChunkAssumption ==
    N \in Nat \ {0} /\ MaxAttempts \in Nat \ {0} /\ MaxSessions \in Nat \ {0}

VARIABLES
    (* the client *)
    session, chunk, attempt,  \* the request it has to send or has sent
    phase,                    \* "sending", "waiting", "done" or "failed"
    (* the server *)
    pc,     \* where each request is
    part,   \* the chunks in <id>.part of each session
    temp,   \* the chunks in <id> of each session
    row,    \* the session the files row belongs to; 0 if there is no row
    (* bookkeeping *)
    failures,  \* attempts of the session that ended with a broken connection or a 5xx
    doubt      \* the sessions in which such an attempt may have renamed <id>.part
               \* or, being handled still, may yet do so

clientVars == <<session, chunk, attempt, phase>>
serverVars == <<part, temp, row>>
vars == <<clientVars, serverVars, pc, failures, doubt>>

Sessions == 1..MaxSessions
Chunks   == 1..N
Requests == Sessions \X Chunks \X (1..MaxAttempts)
Current  == <<session, chunk, attempt>>

Handling == {"writing", "renaming", "adding"}
Answers  == {"ok", "error", "refused"}

\* info.Size() >= totalSize.
OneChunkShort(file) == \E k \in file : k + 1 >= N
FullSize(file) == N \in file

Init ==
    /\ session = 1 /\ chunk = 1 /\ attempt = 1 /\ phase = "sending"
    /\ pc = [r \in Requests |-> "unsent"]
    /\ part = [s \in Sessions |-> {}] /\ temp = [s \in Sessions |-> {}]
    /\ row = 0 /\ failures = 0 /\ doubt = {}

Goto(r, where) == pc' = [pc EXCEPT ![r] = where]

\* The server's reply, which goes nowhere once the client has given the request up.
Answer(r, reply) ==
    Goto(r, IF phase = "waiting" /\ r = Current THEN reply ELSE "closed")

(* The client **************************************************************)

Send ==
    /\ phase = "sending"
    /\ phase' = "waiting"
    /\ Goto(Current, "writing")
    /\ UNCHANGED <<session, chunk, attempt, serverVars, failures, doubt>>

\* attempt >= MAX_CHUNK_RETRIES, the attempts counted from 0.
GivesUpLate == attempt > MaxAttempts
GivesUpEarly == attempt + 1 >= MaxAttempts
GivesUp == attempt >= MaxAttempts

\* Goes on with the next chunk instead of sending this one again.
RetryNext ==
    /\ failures' = failures + 1
    /\ IF GivesUp
         THEN phase' = "failed" /\ UNCHANGED <<session, chunk, attempt>>
         ELSE /\ phase' = "sending" /\ attempt' = attempt + 1
              /\ chunk' = IF chunk = N THEN N ELSE chunk + 1
              /\ UNCHANGED session

Retry ==
    /\ failures' = failures + 1
    /\ IF GivesUp
         THEN phase' = "failed" /\ UNCHANGED <<session, chunk, attempt>>
         ELSE phase' = "sending" /\ attempt' = attempt + 1 /\ UNCHANGED <<session, chunk>>

ReplyOk ==
    /\ phase = "waiting" /\ pc[Current] = "ok"
    /\ IF chunk = N
         THEN phase' = "done" /\ UNCHANGED <<chunk, attempt>>
         ELSE phase' = "sending" /\ chunk' = chunk + 1 /\ attempt' = 1
    /\ Goto(Current, "closed")
    /\ UNCHANGED <<session, serverVars, failures, doubt>>

\* A 5xx.
ReplyError ==
    /\ phase = "waiting" /\ pc[Current] = "error"
    /\ Retry
    /\ Goto(Current, "closed")
    /\ UNCHANGED <<serverVars, doubt>>

\* A 4xx is never retried.
ReplyRefused ==
    /\ phase = "waiting" /\ pc[Current] = "refused"
    /\ phase' = "failed"
    /\ UNCHANGED <<session, chunk, attempt, serverVars, pc, failures, doubt>>

\* The request never reaches the server.
RequestLost ==
    /\ phase = "waiting" /\ pc[Current] = "writing"
    /\ Retry
    /\ Goto(Current, "closed")
    /\ UNCHANGED <<serverVars, doubt>>

\* The reply never reaches the client; the server may have the request to finish.
ConnectionBreaks ==
    /\ phase = "waiting" /\ pc[Current] \in Handling \cup Answers
    /\ Retry
    /\ doubt' = IF pc[Current] \in Handling \/ (pc[Current] = "ok" /\ chunk = N)
                  THEN doubt \cup {session} ELSE doubt
    /\ IF pc[Current] \in Answers THEN Goto(Current, "closed") ELSE UNCHANGED pc
    /\ UNCHANGED serverVars

\* cancelUpload aborts the fetch; startUpload opens a new session and sends every
\* file again from its first chunk, also one that had arrived.
StartOver ==
    /\ session < MaxSessions
    /\ session' = session + 1 /\ chunk' = 1 /\ attempt' = 1 /\ phase' = "sending"
    /\ failures' = 0
    /\ IF pc[Current] \in Answers THEN Goto(Current, "closed") ELSE UNCHANGED pc
    /\ UNCHANGED <<serverVars, doubt>>

(* ReceiveChunk ************************************************************)

\* OpenFile(O_CREATE), WriteAt and Stat on <id>.part.
Write(r) ==
    LET s == r[1]  k == r[2] IN
    /\ pc[r] = "writing"
    /\ part' = [part EXCEPT ![s] = @ \cup {k}]
    /\ IF FullSize(part'[s]) THEN Goto(r, "renaming") ELSE Answer(r, "ok")
    /\ UNCHANGED <<clientVars, temp, row, failures, doubt>>

\* The upload takes no more files, or not this one.
Refuse(r) ==
    /\ pc[r] = "writing"
    /\ Answer(r, "refused")
    /\ UNCHANGED <<clientVars, serverVars, failures, doubt>>

\* An error before the chunk is written, of WriteAt, or of Stat after it.
WriteFails(r) ==
    LET s == r[1]  k == r[2] IN
    /\ pc[r] = "writing"
    /\ part' \in {part, [part EXCEPT ![s] = @ \cup {k}]}
    /\ Answer(r, "error")
    /\ UNCHANGED <<clientVars, temp, row, failures, doubt>>

\* os.Rename(<id>.part, <id>) replaces a file of that name.
Move(s) ==
    /\ part[s] # {}
    /\ temp' = [temp EXCEPT ![s] = part[s]]
    /\ part' = [part EXCEPT ![s] = {}]

Rename(r) ==
    /\ pc[r] = "renaming"
    /\ Move(r[1])
    /\ Goto(r, "adding")
    /\ UNCHANGED <<clientVars, row, failures, doubt>>

\* Another request has renamed <id>.part before.
RenameMisses(r) ==
    /\ pc[r] = "renaming" /\ part[r[1]] = {}
    /\ Answer(r, "error")
    /\ UNCHANGED <<clientVars, serverVars, failures, doubt>>

\* An error of Rename, or of RandomHex after it.
RenameFails(r) ==
    /\ pc[r] = "renaming"
    /\ \/ UNCHANGED <<part, temp, doubt>>
       \/ Move(r[1]) /\ doubt' = doubt \cup {r[1]}
    /\ Answer(r, "error")
    /\ UNCHANGED <<clientVars, row, failures>>

\* The file is added if it is not there yet: INSERT ... ON CONFLICT DO NOTHING.
AddOnce(r) ==
    /\ pc[r] = "adding"
    /\ row' = IF row = 0 THEN r[1] ELSE row
    /\ Answer(r, "ok")
    /\ UNCHANGED <<clientVars, part, temp, failures, doubt>>

\* files.Add: the client's file id is the primary key, over all uploads.
Add(r) ==
    /\ pc[r] = "adding"
    /\ row' = IF row = 0 THEN r[1] ELSE row
    /\ Answer(r, IF row = 0 THEN "ok" ELSE "error")
    /\ UNCHANGED <<clientVars, part, temp, failures, doubt>>

\* Any other error of files.Add; the row may be there all the same.
AddFails(r) ==
    /\ pc[r] = "adding"
    /\ row' \in {row, IF row = 0 THEN r[1] ELSE row}
    /\ Answer(r, "error")
    /\ doubt' = doubt \cup {r[1]}
    /\ UNCHANGED <<clientVars, part, temp, failures>>

Handle(r) == Write(r) \/ Rename(r) \/ RenameMisses(r) \/ Add(r)

ServerFails(r) == Refuse(r) \/ WriteFails(r) \/ RenameFails(r) \/ AddFails(r)

Next ==
    \/ Send \/ ReplyOk \/ ReplyError \/ ReplyRefused \/ StartOver
    \/ RequestLost \/ ConnectionBreaks
    \/ \E r \in Requests : Handle(r) \/ ServerFails(r)

\* The client's loop and the server's handlers run on; the network and the server
\* fail as they like, and nobody has to start over.
Spec ==
    /\ Init /\ [][Next]_vars
    /\ WF_vars(Send) /\ WF_vars(ReplyOk) /\ WF_vars(ReplyError) /\ WF_vars(ReplyRefused)
    /\ \A r \in Requests : WF_vars(Handle(r))

(***************************************************************************)
(* Properties.                                                             *)
(***************************************************************************)
TypeOK ==
    /\ session \in Sessions /\ chunk \in Chunks /\ attempt \in 1..MaxAttempts
    /\ phase \in {"sending", "waiting", "done", "failed"}
    /\ pc \in [Requests -> {"unsent", "closed"} \cup Handling \cup Answers]
    /\ part \in [Sessions -> SUBSET Chunks] /\ temp \in [Sessions -> SUBSET Chunks]
    /\ row \in {0} \cup Sessions
    /\ failures \in Nat /\ doubt \in SUBSET Sessions

\* <id> "is where a fully-received file waits until complete()" (local.go:47): a
\* file whose row exists is there with every one of its chunks, whatever was lost,
\* refused, failed or sent again, unless an attempt of its session failed or was
\* given up when it might have renamed <id>.part.
WaitsWhole == row # 0 /\ row \notin doubt => temp[row] = Chunks

\* The client is told that its file has arrived only if this session's
\* complete() will find it, and find it whole if nothing was in doubt.
ToldIsStored ==
    phase = "done" => row = session /\ (session \in doubt \/ temp[session] = Chunks)

\* What "a fully-received file" (local.go:47) means to the client: whatever was sent
\* again before, a file that it is told has arrived has every one of its chunks.
ToldIsWhole == phase = "done" => temp[session] = Chunks

\* The protocol implements FileTransfer, for the session the row belongs to.
Transfer == INSTANCE FileTransfer WITH
    stored  <- row # 0 /\ temp[row] = Chunks,
    told    <- IF phase \in {"done", "failed"} THEN phase ELSE "waiting",
    unclear <- doubt # {}
ImplementsTransfer == Transfer!Spec

\* "Automatic retry if the connection drops mid-upload" (README.md:7): as long as
\* fewer attempts fail than a chunk has, and no request is refused, the upload of a
\* user who does not start over succeeds; the file is whole if nothing was in doubt.
Refused == pc[Current] = "refused"
RetrySucceeds ==
    [](failures < MaxAttempts /\ session = 1 /\ ~Refused)
      => <>(phase = "done" /\ row = 1 /\ (doubt # {} \/ temp[1] = Chunks))

=============================================================================
