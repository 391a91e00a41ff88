------------------------------ MODULE Packaging ------------------------------
(***************************************************************************)
(* How Complete writes the artefact (upload_service.go, writeFinalArtifact *)
(* and buildZip; cryptfile.Encrypt) and how a download reads it back       *)
(* (download_handler.go, streamPlainFile and streamEncryptedFile).         *)
(*                                                                         *)
(* One file is copied or encrypted; several are zipped, and with a key the *)
(* zip goes through a pipe to Encrypt: a goroutine runs buildZip, the      *)
(* request runs Encrypt and then waits for the goroutine's error.  A write *)
(* to the pipe blocks until it is read, and the read end is never closed.  *)
(*                                                                         *)
(* Data are units: <<f, 0>> the zip header of file f, <<f, j>> its j-th    *)
(* byte, <<0, 0>> the zip's central directory.                             *)
(***************************************************************************)
EXTENDS CryptFile, FiniteSets

CONSTANTS MaxFiles,   \* bound: files of the upload
          MaxLen,     \* bound: bytes of a file
          MaxFaults   \* bound: failed reads and writes

ASSUME PackagingAssumption ==
    MaxFiles \in Nat \ {0} /\ MaxLen \in Nat /\ MaxFaults \in Nat

VARIABLES
    sizes,   \* lengths of the uploaded files in temp storage
    key,     \* does this call encrypt?
    call,    \* "idle", "running", "ok", "error": writeFinalArtifact
    zip,     \* where the copy or buildZip is
    file,    \* the file it copies, 0 before the first
    unit,    \* the bytes of that file copied so far
    zipErr,  \* buildZip returned an error
    offer,   \* the pipe: what Write offers and Read has not taken
    enc,     \* where Encrypt is
    buf,     \* its plaintext buffer
    index,   \* its chunk index
    total,   \* its plaintext count
    encErr,  \* Encrypt returned an error
    out,     \* the artefact on disk
    reply,   \* the last download's answer
    faults   \* failures so far, at most MaxFaults

zipVars == <<zip, file, unit, zipErr>>
encVars == <<enc, buf, index, total, encErr>>
vars == <<sizes, key, call, zipVars, offer, encVars, out, reply, faults>>

NoReply == [status |-> 0, length |-> 0, body |-> <<>>, start |-> 0, complete |-> FALSE]

One   == Len(sizes) = 1
Piped == key /\ ~One       \* buildZip -> pipe -> Encrypt

Init ==
    /\ sizes \in UNION {[1 .. n -> 0 .. MaxLen] : n \in 1 .. MaxFiles}
    /\ key = FALSE /\ call = "idle"
    /\ zip = "off" /\ file = 0 /\ unit = 0 /\ zipErr = FALSE
    /\ offer = <<>>
    /\ enc = "off" /\ buf = <<>> /\ index = 0 /\ total = 0 /\ encErr = FALSE
    /\ out = NoFile /\ reply = NoReply /\ faults = 0

\* writeFinalArtifact starts (again, when the page completes once more after an
\* error): os.Create truncates, and the packaging is chosen.  encrypt_files is
\* read for each call.  A single file is opened here.
Begin ==
    /\ call \in {"idle", "error"} /\ zip \in {"off", "closed"}
    /\ key' \in BOOLEAN
    /\ call' = "running"
    /\ zip' = IF One THEN IF key' THEN "off" ELSE "copy" ELSE "open"
    /\ enc' = IF key' THEN "header" ELSE "off"
    /\ file' = (IF One THEN 1 ELSE 0) /\ unit' = 0 /\ zipErr' = FALSE
    /\ offer' = <<>> /\ buf' = <<>> /\ index' = 0 /\ total' = 0 /\ encErr' = FALSE
    /\ out' = NoFile /\ reply' = NoReply
    /\ UNCHANGED <<sizes, faults>>

Fault == faults < MaxFaults /\ faults' = faults + 1

(***************************************************************************)
(* buildZip, and io.Copy of a single unencrypted file.                     *)
(***************************************************************************)
\* Its Write: straight into the artefact, or offered to the pipe's reader.
Put(u) ==
    IF Piped THEN offer' = <<u>> /\ out' = out
    ELSE out' = [out EXCEPT !.cells = Append(@, u)] /\ offer' = offer

\* The last Write has returned.
Writing == call = "running" /\ offer = <<>>

ZipEntry ==
    /\ Writing /\ zip = "open" /\ file < Len(sizes)
    /\ zip' = "copy" /\ file' = file + 1 /\ unit' = 0
    /\ Put(<<file + 1, 0>>)
    /\ UNCHANGED <<sizes, key, call, zipErr, encVars, reply, faults>>

CopyUnit ==
    /\ Writing /\ zip = "copy" /\ unit < sizes[file]
    /\ unit' = unit + 1
    /\ Put(<<file, unit + 1>>)
    /\ UNCHANGED <<sizes, key, call, zip, file, zipErr, encVars, reply, faults>>

CopyEnd ==
    /\ Writing /\ zip = "copy" /\ unit = sizes[file]
    /\ zip' = IF One THEN "flushed" ELSE "open"
    /\ UNCHANGED <<sizes, key, call, file, unit, zipErr, offer, encVars, out, reply, faults>>

\* zw.Close writes the central directory.
ZipClose ==
    /\ Writing /\ zip = "open" /\ file = Len(sizes)
    /\ zip' = "flushed"
    /\ Put(<<0, 0>>)
    /\ UNCHANGED <<sizes, key, call, file, unit, zipErr, encVars, reply, faults>>

\* buildZip (or io.Copy) returns.  In the goroutine its error goes to zipErrCh,
\* which holds one; otherwise it is what writeFinalArtifact returns.
ZipReturns(failed) ==
    /\ zipErr' = failed
    /\ zip' = IF Piped THEN "sent" ELSE "closed"
    /\ call' = IF Piped THEN call ELSE IF failed THEN "error" ELSE "ok"
    /\ UNCHANGED <<sizes, key, file, unit, offer, encVars, out, reply>>

ZipDone == Writing /\ zip = "flushed" /\ ZipReturns(FALSE) /\ UNCHANGED faults

\* A temp file cannot be opened or read, or a direct write fails.  A zip cut
\* short leaves whatever prefix reached the writer; nothing is taken back.
ZipFails ==
    /\ Writing /\ (zip \in {"open", "copy"} \/ (zip = "flushed" /\ ~Piped))
    /\ Fault /\ ZipReturns(TRUE)

ClosePipe ==
    /\ zip' = "closed"
    /\ UNCHANGED <<sizes, key, call, file, unit, zipErr, offer, encVars, out, reply, faults>>
\* As it would be if only a complete zip closed the pipe.
CloseOnSuccess == zip = "sent" /\ ~zipErr /\ ClosePipe

\* pw.Close(), the goroutine's last statement: the reader sees EOF, never an error.
PipeClose == zip = "sent" /\ ClosePipe

(***************************************************************************)
(* Encrypt.                                                                *)
(***************************************************************************)
EncHeader ==
    /\ enc = "header" /\ enc' = "fill"
    /\ out' = WithHeader
    /\ UNCHANGED <<sizes, key, call, zipVars, offer, buf, index, total, encErr, reply, faults>>

SourceEnd == IF Piped THEN zip = "closed" ELSE unit = sizes[1]

\* io.ReadFull asks for what the buffer still has room for (not one more).
RoomOrFull == Len(buf) <= ChunkSize
Room == Len(buf) < ChunkSize

\* io.ReadFull fills the buffer from the pipe or from the opened file.
EncFill ==
    /\ enc = "fill" /\ Room
    /\ IF Piped
       THEN /\ offer # <<>>
            /\ buf' = buf \o offer /\ offer' = <<>> /\ unit' = unit
       ELSE /\ unit < sizes[1]
            /\ buf' = Append(buf, <<1, unit + 1>>) /\ unit' = unit + 1 /\ offer' = offer
    /\ UNCHANGED <<sizes, key, call, zip, file, zipErr, enc, index, total, encErr,
                   out, reply, faults>>

\* A full buffer, or what is left at the end of the source, is sealed and
\* written.  A short one is the last (io.ErrUnexpectedEOF).
EncSeal ==
    /\ enc = "fill" /\ buf # <<>> /\ (Len(buf) = ChunkSize \/ SourceEnd)
    /\ out' = [out EXCEPT !.cells = @ \o Seal(nonceFor(index), buf)]
    /\ total' = total + Len(buf)
    /\ index' = index + 1
    /\ buf' = <<>>
    /\ enc' = IF Len(buf) = ChunkSize THEN "fill" ELSE "size"
    /\ UNCHANGED <<sizes, key, call, zipVars, offer, encErr, reply, faults>>

\* io.EOF: nothing was left to read.
EncEnd ==
    /\ enc = "fill" /\ buf = <<>> /\ SourceEnd
    /\ enc' = "size"
    /\ UNCHANGED <<sizes, key, call, zipVars, offer, buf, index, total, encErr, out, reply, faults>>

\* Seek back and patch the total size into the header.
EncSize ==
    /\ enc = "size" /\ enc' = "done"
    /\ out' = [out EXCEPT !.size = total]
    /\ UNCHANGED <<sizes, key, call, zipVars, offer, buf, index, total, encErr, reply, faults>>

\* A write to the artefact (a full disk) or a read of the single file fails.
EncFails ==
    /\ enc \in {"header", "fill", "size"} /\ Fault
    /\ enc' = "done" /\ encErr' = TRUE
    /\ UNCHANGED <<sizes, key, call, zipVars, offer, buf, index, total, out, reply>>

\* Encrypt has returned, and with the pipe zipErrCh has been received.
Joined == call = "running" /\ enc = "done" /\ (Piped => zip \in {"sent", "closed"})
\* The zip's error first; without it a truncated zip would pass as whole.
EncResult == IF encErr THEN "error" ELSE "ok"
Result == IF zipErr \/ encErr THEN "error" ELSE "ok"
CallerReturns ==
    /\ Joined
    /\ call' = Result
    /\ UNCHANGED <<sizes, key, zipVars, offer, encVars, out, reply, faults>>

(***************************************************************************)
(* Downloads of the finished artefact.                                     *)
(***************************************************************************)
\* A Range header: absent, malformed, or one of the three accepted forms
\* bytes=-b, bytes=a-, bytes=a-b (digits only).
Ranges ==
    LET N == 0 .. (MaxLen + 1) * MaxFiles + 2
    IN  [form : {"none", "malformed"}, a : {0}, b : {0}]
          \cup [form : {"suffix"}, a : {0}, b : N] \cup [form : {"from"}, a : N, b : {0}]
          \cup [form : {"both"}, a : N, b : N]

Refused == [ok |-> FALSE, start |-> 0, end |-> 0]
Accepted(s, e) == [ok |-> TRUE, start |-> s, end |-> e]

parseRangeHeader(h, size) ==
    CASE h.form = "suffix" /\ h.b > 0 -> Accepted(size - AtMost(h.b, size), size - 1)
      [] h.form = "from" /\ h.a < size -> Accepted(h.a, size - 1)
      [] h.form = "both" /\ h.a <= h.b /\ h.a < size -> Accepted(h.a, AtMost(h.b, size - 1))
      [] OTHER -> Refused

\* The interval a request asks for: the whole file without a header.
Wanted(h, size) == IF h.form = "none" THEN Accepted(0, size - 1) ELSE parseRangeHeader(h, size)

Answer(h, w, written, failed) ==
    [status |-> IF h.form = "none" THEN 200 ELSE 206, start |-> w.start,
     length |-> w.end - w.start + 1, body |-> written, complete |-> ~failed]
NotSatisfiable == [NoReply EXCEPT !.status = 416]

\* Seek to the start and copy length bytes.
streamPlainFile(h) ==
    LET w == Wanted(h, Len(out.cells))
    IN  IF ~w.ok THEN NotSatisfiable
        ELSE Answer(h, w, SubSeq(out.cells, w.start + 1, w.end + 1), FALSE)

streamEncryptedFile(h) ==
    LET w == Wanted(h, TotalSize(out))
        r == WriteRange(out, w.start, w.end)
    IN  IF ~w.ok THEN NotSatisfiable ELSE Answer(h, w, r.written, r.failed)

Download(h) ==
    /\ call = "ok"
    /\ reply' = IF key THEN streamEncryptedFile(h) ELSE streamPlainFile(h)
    /\ UNCHANGED <<sizes, key, call, zipVars, offer, encVars, out, faults>>

-----------------------------------------------------------------------------
ZipStep == ZipEntry \/ CopyUnit \/ CopyEnd \/ ZipClose \/ ZipDone \/ PipeClose
EncStep == EncHeader \/ EncFill \/ EncSeal \/ EncEnd \/ EncSize

Next ==
    \/ Begin \/ ZipStep \/ ZipFails \/ EncStep \/ EncFails \/ CallerReturns
    \/ \E h \in Ranges : Download(h)

\* Goroutines that can run are scheduled.
Spec == Init /\ [][Next]_vars
             /\ WF_vars(ZipStep) /\ WF_vars(EncStep) /\ WF_vars(CallerReturns)

-----------------------------------------------------------------------------
\* The bytes an unpacked download must give back, written down independently of
\* the steps that produce them.
Bytes(n) == [j \in 1 .. n |-> <<1, j>>]
Entry(f, n) == [j \in 1 .. n + 1 |-> <<f, j - 1>>]
Entries[f \in 0 .. Len(sizes)] ==
    IF f = 0 THEN <<>> ELSE Entries[f - 1] \o Entry(f, sizes[f])
Stream == IF One THEN Bytes(sizes[1]) ELSE Entries[Len(sizes)] \o <<<<0, 0>>>>

Units == (0 .. MaxFiles) \X (0 .. MaxLen)

\* Types, and the sizes the code's buffers have: the pipe holds one write, the
\* plaintext buffer one chunk, and the header's size field is zero until the
\* last write.
TypeOK ==
    /\ key \in BOOLEAN /\ call \in {"idle", "running", "ok", "error"}
    /\ zip \in {"off", "open", "copy", "flushed", "sent", "closed"}
    /\ file \in 0 .. Len(sizes) /\ unit \in 0 .. MaxLen
    /\ zipErr \in BOOLEAN /\ encErr \in BOOLEAN
    /\ Len(offer) <= 1 /\ \A i \in DOMAIN offer : offer[i] \in Units
    /\ enc \in {"off", "header", "fill", "size", "done"}
    /\ Len(buf) <= ChunkSize /\ \A i \in DOMAIN buf : buf[i] \in Units
    /\ index \in Nat /\ total \in Nat /\ faults \in 0 .. MaxFaults
    /\ out.size \in {0, total}

\* When writeFinalArtifact reports success the artefact holds every byte of
\* every file and of the zip around them, in order.  A zip that stops half-way
\* closes the pipe like a finished one, and Encrypt then succeeds on what came
\* through: only the error kept in zipErrCh tells the two apart.
Whole ==
    IF ~key THEN out.cells
    ELSE IF TotalSize(out) = 0 THEN <<>> ELSE WriteRange(out, 0, TotalSize(out) - 1).written
WholeOrError == call = "ok" => Whole = Stream

\* Every answered range is the announced interval of the original bytes, as long
\* as Content-Length says, and the stream reports completion (on which
\* self-destruction waits).  The one exception is in the code: WriteRange
\* refuses 0 .. -1, so an empty encrypted file never completes.
RangesExact ==
    reply.status \in {200, 206} =>
        /\ reply.body = SubSeq(Stream, reply.start + 1, reply.start + reply.length)
        /\ Len(reply.body) = reply.length
        /\ reply.status = 200 => reply.body = Stream
        /\ reply.complete = ~(key /\ Stream = <<>>)

\* A started call returns, whatever fails on the zip's side: the goroutine sends
\* its error and closes the pipe even then.  It may hang only after Encrypt
\* itself failed, since nobody reads the pipe any more and buildZip stays in
\* its Write.
CallReturns == (call = "running") ~> (call # "running" \/ (Piped /\ encErr))
=============================================================================
