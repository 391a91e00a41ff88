------------------------------ MODULE CryptFile ------------------------------
(***************************************************************************)
(* The seekable encrypted file format (internal/cryptfile): a fixed header *)
(* and a run of chunks, each sealed by AES-GCM under a nonce that holds    *)
(* its index.  A file is a sequence of byte cells, so that the offsets the *)
(* reader computes are real positions.  The cipher is ideal: a cell of a   *)
(* sealed chunk is "byte at of the sealing of this text under this nonce", *)
(* and only the whole sealing opens, under its own nonce.                  *)
(***************************************************************************)
EXTENDS Integers, Sequences

CONSTANTS ChunkSize,   \* plaintext bytes of a full chunk (64 KiB)
          TagSize,     \* bytes the GCM tag adds (16)
          HeaderSize,  \* bytes of the header (24)
          NonceSpace   \* values of the nonce's counter field (2^32)

ASSUME FormatAssumption ==
    /\ ChunkSize \in Nat \ {0} /\ NonceSpace \in Nat \ {0}
    /\ TagSize \in Nat /\ HeaderSize \in Nat

\* The nonce of a chunk: the random base is one per file, the counter is uint32.
nonceFor(index) == index % NonceSpace

\* gcm.Seal, and gcm.Open of whatever bytes were read: the text, or Broken when
\* they do not authenticate (Encrypt never seals an empty text).
Seal(nonce, text) ==
    [at \in 1 .. Len(text) + TagSize |-> [nonce |-> nonce, at |-> at, text |-> text]]
Broken == <<>>
Open(nonce, cells) ==
    IF cells # <<>> /\ cells = Seal(nonce, cells[1].text) THEN cells[1].text ELSE Broken

\* A created file: no byte of it is written yet.  `size` is the total size
\* field of the header, zero until Encrypt seeks back and patches it.
NoFile == [size |-> 0, cells |-> <<>>]
HeaderCell == [nonce |-> 0, at |-> 0, text |-> <<>>]
WithHeader == [size |-> 0, cells |-> [i \in 1 .. HeaderSize |-> HeaderCell]]

(***************************************************************************)
(* The reader.                                                             *)
(***************************************************************************)
\* An opened file: the size its header says.
TotalSize(file) == file.size

numChunks(file) == (file.size + ChunkSize - 1) \div ChunkSize

AtMost(n, m) == IF n > m THEN m ELSE n

\* The bytes ReadAt finds at an offset, fewer at the end of the file.
ReadAt(file, offset, n) ==
    SubSeq(file.cells, offset + 1, AtMost(offset + n, Len(file.cells)))

readChunk(file, index) ==
    LET plainLen == IF index = numChunks(file) - 1
                    THEN file.size - index * ChunkSize ELSE ChunkSize
        offset   == HeaderSize + index * (ChunkSize + TagSize)
    IN  Open(nonceFor(index), ReadAt(file, offset, plainLen + TagSize))

\* Where the slice of the first chunk begins (not with the chunk itself).
FromChunk(i, start) == 0
FromStart(i, start) == start - i * ChunkSize

\* What chunk i contributes to the bytes start .. end.
Piece(file, i, start, end) ==
    LET plain == readChunk(file, i)
        from  == IF i = start \div ChunkSize THEN FromStart(i, start) ELSE 0
        to    == IF i = end \div ChunkSize THEN end - i * ChunkSize + 1 ELSE Len(plain)
    IN  IF plain = Broken THEN Broken ELSE SubSeq(plain, from + 1, to)

\* The loop over the chunks: what those up to i have added to the output.  An
\* unreadable chunk ends it.
AfterChunk(sofar, piece) ==
    IF sofar.failed \/ piece = Broken THEN [sofar EXCEPT !.failed = TRUE]
    ELSE [sofar EXCEPT !.written = @ \o piece]

ChunkLoop(file, start, end) ==
    LET first == start \div ChunkSize
        loop[i \in first - 1 .. end \div ChunkSize] ==
            IF i < first THEN [written |-> <<>>, failed |-> FALSE]
            ELSE AfterChunk(loop[i - 1], Piece(file, i, start, end))
    IN  loop

\* WriteRange: what it has written when it returns, and whether it failed.
\* An impossible range is an error before the first byte.
ValidRange(file, start, end) == start >= 0 /\ end < file.size /\ start <= end
WriteRange(file, start, end) ==
    IF ValidRange(file, start, end) THEN ChunkLoop(file, start, end)[end \div ChunkSize]
    ELSE [written |-> <<>>, failed |-> TRUE]
=============================================================================
