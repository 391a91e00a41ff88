\* Up to two files of up to four bytes, chunks of two bytes; two failures.
\* A failed Encrypt leaves buildZip blocked in the pipe for ever: that stop is
\* the code's own, so deadlock is not an error here.
SPECIFICATION Spec
CONSTANTS
    ChunkSize = 2
    TagSize = 1
    HeaderSize = 2
    NonceSpace = 8
    MaxFiles = 2
    MaxLen = 4
    MaxFaults = 2
INVARIANTS TypeOK WholeOrError RangesExact
PROPERTY CallReturns
CHECK_DEADLOCK FALSE
