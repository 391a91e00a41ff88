--------------------------- MODULE PackagingProofs ---------------------------
(***************************************************************************)
(* Theorems about Packaging and the file format it writes, for any number  *)
(* of files, lengths, chunk sizes, tag sizes and faults: types, the round  *)
(* trip of every range through the format, that a call which reports       *)
(* success has left the whole artefact, and that every range of it is      *)
(* answered exactly.                                                       *)
(***************************************************************************)
EXTENDS Packaging, WellFoundedInduction, SequenceTheorems, TLAPS

(***************************************************************************)
(* The format: what WriteRange gives back of a file of sealed chunks.      *)
(***************************************************************************)
\* The plaintext of chunk i of a text, where its sealing begins, the bytes of a
\* file whose first n chunks are sealed, and a finished file that holds a text.
Slice(text, i) == SubSeq(text, i * ChunkSize + 1, AtMost((i + 1) * ChunkSize, Len(text)))
ChunkAt(i) == HeaderSize + i * (ChunkSize + TagSize)
Sealed(cells, text, n) ==
    /\ Len(cells) = HeaderSize + Len(text) + n * TagSize
    /\ \A i \in 0 .. n - 1 :
          SubSeq(cells, ChunkAt(i) + 1, ChunkAt(i) + Len(Slice(text, i)) + TagSize)
            = Seal(nonceFor(i), Slice(text, i))
Cells(S) == [nonce : Nat, at : Nat, text : Seq(S)]
Holds(f, text, n) ==
    /\ n \in Nat /\ Len(text) <= n * ChunkSize /\ n * ChunkSize < Len(text) + ChunkSize
    /\ f.size = Len(text) /\ Sealed(f.cells, text, n)

\* A set of naturals that is not empty has a least element: induction over data,
\* in the form the provers can use.
LEMMA Least ==
  ASSUME NEW T, T \subseteq Nat, T # {}
  PROVE  \E n \in T : \A m \in T : n <= m
<1> DEFINE R == OpToRel(<, Nat)
<1>1. IsWellFoundedOn(R, Nat)
  BY NatLessThanWellFounded
<1>2. \A x \in T, y \in T : y < x => <<y, x>> \in R
  BY DEF OpToRel
<1> HIDE DEF R
<1>3. PICK x \in T : \A y \in T : ~ (<<y, x>> \in R)
  BY <1>1, WFMin
<1>4. \A y \in T : ~ (y < x)
  BY <1>2, <1>3, Zenon
<1> QED
  BY <1>4

\* Quotients and products of unknown numbers, once and for all.
LEMMA Division ==
  ASSUME NEW n \in Nat
  PROVE  /\ n \div ChunkSize \in Nat /\ (n \div ChunkSize) * ChunkSize <= n
         /\ n < (n \div ChunkSize) * ChunkSize + ChunkSize
         /\ \A q \in Nat : q * ChunkSize <= n /\ n < q * ChunkSize + ChunkSize
               => n \div ChunkSize = q
  BY FormatAssumption

LEMMA Products ==
  ASSUME NEW a \in Nat, NEW b \in Nat, NEW c \in Nat
  PROVE  /\ a * c \in Nat /\ (a + 1) * c = a * c + c
         /\ a <= b => a * c <= b * c
         /\ a * (b + c) = a * b + a * c
         /\ a * c < b * c => a < b
  OBVIOUS

\* Every chunk of a text is full but the last, which is not empty.
LEMMA SliceLength ==
  ASSUME NEW S, NEW text \in Seq(S), NEW n \in Nat,
         Len(text) <= n * ChunkSize, n * ChunkSize < Len(text) + ChunkSize,
         NEW i \in 0 .. n - 1
  PROVE  /\ i * ChunkSize < Len(text) /\ Slice(text, i) \in Seq(S)
         /\ Len(Slice(text, i)) = IF i = n - 1 THEN Len(text) - i * ChunkSize ELSE ChunkSize
         /\ i * ChunkSize + Len(Slice(text, i)) <= Len(text)
         /\ Len(Slice(text, i)) > 0 /\ Len(Slice(text, i)) <= ChunkSize
         /\ Slice(text, i) = SubSeq(text, i * ChunkSize + 1, i * ChunkSize + Len(Slice(text, i)))
<1> DEFINE c  == ChunkSize
           lo == i * ChunkSize
           nx == (i + 1) * ChunkSize
           hi == AtMost(nx, Len(text))
<1>1. c \in Nat /\ c > 0 /\ Len(text) \in Nat
  BY FormatAssumption
<1>2. nx = lo + c /\ lo \in Nat /\ nx <= n * c
  BY <1>1, Products
<1>3. lo < Len(text)
  BY <1>1, <1>2
<1>4. i # n - 1 => nx < Len(text)
  <2> SUFFICES ASSUME i # n - 1 PROVE nx < Len(text)
    OBVIOUS
  <2>1. ((i + 1) + 1) * c = nx + c /\ ((i + 1) + 1) * c <= n * c
    BY <1>1, Products
  <2> QED
    BY <1>1, <1>2, <2>1
<1>5. i = n - 1 => nx >= Len(text)
  BY <1>1
<1>9. Slice(text, i) = SubSeq(text, lo + 1, hi)
  BY DEF Slice
<1> HIDE DEF c, lo, nx
<1>6. /\ hi \in Nat /\ lo < hi /\ hi <= Len(text) /\ hi - lo <= c
      /\ hi - lo = IF i = n - 1 THEN Len(text) - lo ELSE c
  BY <1>1, <1>2, <1>3, <1>4, <1>5 DEF AtMost
<1> HIDE DEF hi
<1>7. \A k \in (lo + 1) .. hi : text[k] \in S
  BY <1>1, <1>2, <1>6
<1>8. /\ SubSeq(text, lo + 1, hi) \in Seq(S)
      /\ Len(SubSeq(text, lo + 1, hi)) = hi - lo
  BY <1>1, <1>2, <1>6
<1> DEFINE len == Len(Slice(text, i))
<1>10. len = hi - lo /\ Slice(text, i) \in Seq(S) /\ hi = lo + len
  BY <1>2, <1>6, <1>8, <1>9
<1>11. /\ len = IF i = n - 1 THEN Len(text) - lo ELSE c
       /\ lo + len <= Len(text) /\ len > 0 /\ len <= c
  BY <1>1, <1>2, <1>6, <1>10
<1>12. Slice(text, i) = SubSeq(text, lo + 1, lo + len)
  BY <1>9, <1>10
<1> QED
  BY <1>3, <1>10, <1>11, <1>12 DEF c, lo

\* What readChunk gives back of a finished file.
LEMMA ChunkOpens ==
  ASSUME NEW S, NEW text \in Seq(S), NEW f, f.cells \in Seq(Cells(S)), NEW n,
         Holds(f, text, n), NEW i \in 0 .. n - 1
  PROVE  readChunk(f, i) = Slice(text, i)
<1> DEFINE len  == Len(Slice(text, i))
           lo   == i * ChunkSize
           tags == i * TagSize
           all  == n * TagSize
           at   == ChunkAt(i)
           seal == Seal(nonceFor(i), Slice(text, i))
<1>1. /\ n \in Nat /\ Len(text) \in Nat /\ f.size = Len(text) /\ Len(f.cells) \in Nat
      /\ ChunkSize \in Nat \ {0} /\ TagSize \in Nat /\ HeaderSize \in Nat
      /\ Len(f.cells) = HeaderSize + Len(text) + all
      /\ SubSeq(f.cells, at + 1, at + len + TagSize) = seal
  BY FormatAssumption DEF Holds, Sealed
<1>2. /\ lo < Len(text) /\ Slice(text, i) \in Seq(S) /\ len \in Nat /\ len > 0
      /\ len = (IF i = n - 1 THEN Len(text) - lo ELSE ChunkSize)
      /\ lo + len <= Len(text)
  BY SliceLength DEF Holds
<1>3. numChunks(f) = n
  <2>1. /\ Len(text) + ChunkSize - 1 \in Nat /\ n * ChunkSize <= Len(text) + ChunkSize - 1
        /\ Len(text) + ChunkSize - 1 < n * ChunkSize + ChunkSize
    BY <1>1 DEF Holds
  <2> QED
    BY <1>1, <2>1, Division DEF numChunks
<1>4. at = HeaderSize + lo + tags /\ lo \in Nat /\ tags \in Nat /\ all \in Nat
      /\ tags + TagSize <= all
  BY <1>1, Products DEF ChunkAt
<1>5. readChunk(f, i) = Open(nonceFor(i), ReadAt(f, at, len + TagSize))
  BY <1>1, <1>2, <1>3 DEF readChunk, ChunkAt
<1>6. seal # <<>> /\ seal[1].text = Slice(text, i)
  <2>1. len + TagSize \in Nat /\ 1 \in 1 .. len + TagSize
    BY <1>1, <1>2
  <2> QED
    BY <2>1 DEF Seal
<1> HIDE DEF len, lo, tags, all, at, seal
<1>7. /\ at + (len + TagSize) = at + len + TagSize /\ at + len + TagSize \in Nat
      /\ at + len + TagSize <= Len(f.cells)
  <2>1. /\ lo \in Nat /\ tags \in Nat /\ all \in Nat /\ len \in Nat /\ at \in Nat
        /\ TagSize \in Nat /\ HeaderSize \in Nat /\ Len(text) \in Nat
    BY <1>1, <1>2, <1>4
  <2>2. at = HeaderSize + lo + tags /\ tags + TagSize <= all /\ lo + len <= Len(text)
    BY <1>2, <1>4
  <2>3. Len(f.cells) = HeaderSize + Len(text) + all
    BY <1>1
  <2> QED
    BY <2>1, <2>2, <2>3
<1>8. ReadAt(f, at, len + TagSize) = seal
  BY <1>1, <1>7 DEF ReadAt, AtMost
<1> QED
  BY <1>5, <1>6, <1>8 DEF Open, seal

\* Where the bytes that chunk i adds to start .. end begin and end.
From(i, start) == IF i = start \div ChunkSize THEN start ELSE i * ChunkSize
To(i, end) == IF i = end \div ChunkSize THEN end + 1 ELSE (i + 1) * ChunkSize

\* The intervals of the chunks start \div ChunkSize .. end \div ChunkSize meet end to end
\* and cover start .. end.
LEMMA Interval ==
  ASSUME NEW size \in Nat, NEW n \in Nat, size <= n * ChunkSize,
         NEW start \in Nat, NEW end \in Nat, start <= end, end < size,
         NEW i \in start \div ChunkSize .. end \div ChunkSize
  PROVE  /\ i \in 0 .. n - 1 /\ From(i, start) \in Nat /\ To(i, end) \in Nat
         /\ i * ChunkSize <= From(i, start) /\ start <= From(i, start)
         /\ From(i, start) < To(i, end) /\ To(i, end) <= size
         /\ To(i, end) <= i * ChunkSize + ChunkSize
         /\ i # start \div ChunkSize => From(i, start) = To(i - 1, end)
         /\ To(end \div ChunkSize, end) = end + 1
<1> DEFINE c == ChunkSize
           first == start \div c
           last == end \div c
           lo == i * c
           nx == (i + 1) * c
           fc == first * c
           lc == last * c
<1>1. c \in Nat /\ c > 0
  BY FormatAssumption
<1>2. /\ first \in Nat /\ fc <= start /\ start < fc + c
      /\ last \in Nat /\ lc <= end /\ end < lc + c
  BY Division DEF c
<1>3. /\ i \in Nat /\ first <= i /\ i <= last
  BY <1>2
<1>4. lo \in Nat /\ nx = lo + c /\ fc \in Nat /\ lc \in Nat
  BY <1>1, <1>2, <1>3, Products
<1>5. i < last => nx <= lc
  BY <1>1, <1>2, <1>3, Products
<1>6. first < i => fc + c <= lo
  <2>1. first + 1 \in Nat /\ (first + 1) * c = fc + c
    BY <1>1, <1>2, Products
  <2>2. first < i => (first + 1) * c <= lo
    BY <1>1, <1>2, <1>3, <2>1, Products
  <2> QED
    BY <2>1, <2>2
<1>7. last < n
  <2>1. lc < n * c
    BY <1>1, <1>2, <1>4
  <2> QED
    BY <1>1, <1>2, <2>1, Products
<1>8. i # first => (i - 1) + 1 = i /\ i - 1 # last
  BY <1>2, <1>3
<1>9. /\ i = first => lo = fc
      /\ i = last => lo = lc
  OBVIOUS
<1>10. /\ From(i, start) = IF i = first THEN start ELSE lo
       /\ To(i, end) = IF i = last THEN end + 1 ELSE nx
       /\ i # first => To(i - 1, end) = lo
       /\ To(last, end) = end + 1
  BY <1>8 DEF From, To
<1> HIDE DEF c, first, last, lo, nx, fc, lc
<1>11. /\ From(i, start) \in Nat /\ To(i, end) \in Nat
       /\ lo <= From(i, start) /\ start <= From(i, start)
       /\ From(i, start) < To(i, end) /\ To(i, end) <= size /\ To(i, end) <= lo + c
  BY <1>1, <1>2, <1>3, <1>4, <1>5, <1>6, <1>9, <1>10
<1>12. i \in 0 .. n - 1
  BY <1>2, <1>3, <1>7
<1> QED
  BY <1>10, <1>11, <1>12 DEF c, lo, first, last

\* Each Piece is the interval of the text its chunk contributes.
LEMMA PieceIsInterval ==
  ASSUME NEW S, NEW text \in Seq(S), NEW f, f.cells \in Seq(Cells(S)), NEW n,
         Holds(f, text, n), NEW start \in Nat, NEW end \in Nat, start <= end, end < Len(text),
         NEW i \in start \div ChunkSize .. end \div ChunkSize
  PROVE  /\ Piece(f, i, start, end) = SubSeq(text, From(i, start) + 1, To(i, end))
         /\ Piece(f, i, start, end) # Broken
<1> DEFINE c == ChunkSize
           lo == i * c
           len == Len(Slice(text, i))
           a == From(i, start)
           b == To(i, end)
           from == IF i = start \div c THEN FromStart(i, start) ELSE 0
           to == IF i = end \div c THEN end - i * c + 1 ELSE Len(readChunk(f, i))
<1>1. n \in Nat /\ Len(text) \in Nat /\ c \in Nat /\ Len(text) <= n * c
  BY FormatAssumption DEF Holds
<1>2. /\ i \in 0 .. n - 1 /\ a \in Nat /\ b \in Nat /\ lo <= a /\ a < b
      /\ b <= Len(text) /\ b <= lo + c
  BY <1>1, Interval
<1>3. lo \in Nat /\ (i + 1) * c = lo + c
  BY <1>1, <1>2, Products
<1>4. /\ lo < Len(text) /\ Slice(text, i) \in Seq(S) /\ len \in Nat /\ len > 0 /\ len <= c
      /\ len = (IF i = n - 1 THEN Len(text) - lo ELSE c) /\ lo + len <= Len(text)
  BY <1>2, SliceLength DEF Holds
<1>5. readChunk(f, i) = Slice(text, i)
  BY <1>2, ChunkOpens
<1>6. Slice(text, i) = SubSeq(text, lo + 1, lo + len)
  BY <1>2, SliceLength DEF Holds
<1>7. Slice(text, i) # <<>>
  BY <1>4
<1>8. Piece(f, i, start, end) = SubSeq(Slice(text, i), from + 1, to)
  BY <1>5, <1>7 DEF Piece, Broken
<1> DEFINE nx == (i + 1) * c
           last == end \div c
<1>9. last \in 0 .. n - 1 /\ i <= last
  <2>1. last \in Nat /\ start \div ChunkSize \in Nat
    BY Division
  <2>2. last \in start \div ChunkSize .. end \div ChunkSize /\ i <= last
    BY <2>1
  <2> QED
    BY <1>1, <2>2, Interval
<1>10. /\ from = a - lo
       /\ to = IF i = last THEN end - lo + 1 ELSE len
       /\ b = IF i = last THEN end + 1 ELSE nx
       /\ nx = lo + c
  BY <1>2, <1>3, <1>5 DEF FromStart, From, To
<1> HIDE DEF c, lo, len, a, b, from, to, nx, last
<1>11. to = b - lo
  <2>1. CASE i = last
    BY <1>3, <1>10, <2>1
  <2>2. CASE i # last
    BY <1>1, <1>2, <1>3, <1>4, <1>9, <1>10, <2>2
  <2> QED
    BY <2>1, <2>2
<1> DEFINE p == lo + 1
           q == lo + len
           m == from + 1
<1>12. b <= lo + len
  <2>1. CASE i = n - 1
    BY <1>1, <1>2, <1>3, <1>4, <2>1
  <2>2. CASE i # n - 1
    BY <1>1, <1>2, <1>3, <1>4, <2>2
  <2> QED
    BY <2>1, <2>2
<1>13. from \in Nat /\ to \in Nat /\ from < to /\ lo + from = a /\ lo + to = b /\ to <= len
  <2>1. /\ a \in Nat /\ b \in Nat /\ lo \in Nat /\ len \in Nat /\ lo <= a /\ a < b
        /\ b <= lo + len /\ from = a - lo /\ to = b - lo
    BY <1>2, <1>3, <1>4, <1>10, <1>11, <1>12
  <2> QED
    BY <2>1
<1>14. /\ p \in 1 .. Len(text) /\ q \in 1 .. Len(text)
       /\ m \in 1 .. q - p + 1 /\ to \in 1 .. q - p + 1
       /\ p + m - 1 = a + 1 /\ p + to - 1 = b
  BY <1>1, <1>2, <1>3, <1>4, <1>13
<1> HIDE DEF p, q, m
<1>15. SubSeq(SubSeq(text, p, q), m, to) = SubSeq(text, p + m - 1, p + to - 1)
  BY <1>14, SubSeqOfSubSeq
<1>16. Piece(f, i, start, end) = SubSeq(text, a + 1, b)
  BY <1>6, <1>8, <1>14, <1>15 DEF p, q, m
<1>17. SubSeq(text, a + 1, b) # <<>>
  BY <1>1, <1>2
<1> QED
  BY <1>16, <1>17 DEF Broken, a, b

\* Whatever interval of a finished file is asked for, WriteRange writes exactly
\* it: no byte of the chunks around it, none missing where two chunks meet.
THEOREM RangeRoundTrip ==
  ASSUME NEW S, NEW text \in Seq(S), NEW f, f.cells \in Seq(Cells(S)), NEW n,
         Holds(f, text, n), NEW start \in Nat, NEW end \in Nat, start <= end, end < Len(text)
  PROVE  WriteRange(f, start, end)
           = [written |-> SubSeq(text, start + 1, end + 1), failed |-> FALSE]
<1> DEFINE first == start \div ChunkSize
           last == end \div ChunkSize
<1>1. first \in Nat /\ last \in Nat /\ first <= last
  <2>1. first \in Nat /\ last \in Nat
    BY Division
  <2>2. first <= last
    <3>1. first * ChunkSize < (last + 1) * ChunkSize
      BY Division, Products, FormatAssumption
    <3> QED
      BY <2>1, <3>1, Products, FormatAssumption
  <2> QED
    BY <2>1, <2>2
<1> DEFINE upto(i) == IF i < first THEN start ELSE To(i, end)
           sofar(i) == [written |-> SubSeq(text, start + 1, upto(i)), failed |-> FALSE]
           g == [i \in first - 1 .. last |-> sofar(i)]
           IsLoop(h) == h = [i \in first - 1 .. last |->
                               IF i < first THEN [written |-> <<>>, failed |-> FALSE]
                               ELSE AfterChunk(h[i - 1], Piece(f, i, start, end))]
<1> HIDE DEF first, last
<1>2. sofar(first - 1) = [written |-> <<>>, failed |-> FALSE]
  <2>1. SubSeq(text, start + 1, start) = <<>>
    OBVIOUS
  <2>2. upto(first - 1) = start
    BY <1>1
  <2> QED
    BY <2>1, <2>2
<1>3. ASSUME NEW i \in first .. last
      PROVE  AfterChunk(sofar(i - 1), Piece(f, i, start, end)) = sofar(i)
  <2> DEFINE a == From(i, start)
             b == To(i, end)
  <2>1. /\ a \in Nat /\ b \in Nat /\ start <= a /\ a < b /\ b <= Len(text)
        /\ i # first => a = To(i - 1, end)
    <3>1. /\ Len(text) \in Nat /\ n \in Nat /\ Len(text) <= n * ChunkSize
          /\ i \in start \div ChunkSize .. end \div ChunkSize
      BY DEF Holds, first, last
    <3> HIDE DEF a, b
    <3>2. /\ From(i, start) \in Nat /\ To(i, end) \in Nat /\ start <= From(i, start)
          /\ From(i, start) < To(i, end) /\ To(i, end) <= Len(text)
          /\ i # first => From(i, start) = To(i - 1, end)
      BY <3>1, Interval DEF first
    <3> QED
      BY <3>2 DEF a, b
  <2>2. upto(i - 1) = a /\ upto(i) = b
    BY <1>1, <2>1 DEF From, first
  <2>3. /\ Piece(f, i, start, end) = SubSeq(text, a + 1, b)
        /\ Piece(f, i, start, end) # Broken
    BY PieceIsInterval DEF first, last
  <2> HIDE DEF a, b, upto
  <2>4. SubSeq(text, start + 1, a) \o SubSeq(text, a + 1, b) = SubSeq(text, start + 1, b)
    <3>1. /\ start + 1 \in 1 .. Len(text) + 1 /\ a \in (start + 1) - 1 .. Len(text)
          /\ b \in a .. Len(text)
      BY <2>1
    <3> QED
      BY <3>1, ConcatAdjacentSubSeq
  <2>5. AfterChunk(sofar(i - 1), Piece(f, i, start, end))
          = [written |-> sofar(i - 1).written \o Piece(f, i, start, end), failed |-> FALSE]
    BY <2>3 DEF AfterChunk
  <2> QED
    BY <2>2, <2>3, <2>4, <2>5
<1> HIDE DEF sofar
<1>4. IsLoop(g)
  <2>1. \A i \in first - 1 .. last : i < first => i = first - 1
    BY <1>1
  <2>2. \A i \in first - 1 .. last :
           i >= first => i - 1 \in first - 1 .. last /\ i \in first .. last
    BY <1>1
  <2> QED
    BY <1>1, <1>2, <1>3, <2>1, <2>2
<1>5. ASSUME NEW h, IsLoop(h) PROVE h = g
  <2> DEFINE T == {i \in first .. last : h[i] # g[i]}
  <2>1. h[first - 1] = g[first - 1]
    BY <1>1, <1>2, <1>5
  <2>2. T = {}
    <3> SUFFICES ASSUME T # {} PROVE FALSE
      OBVIOUS
    <3>1. T \subseteq Nat
      BY <1>1
    <3>2. PICK i \in T : \A m \in T : i <= m
      BY <3>1, Least
    <3>3. h[i - 1] = g[i - 1]
      <4>1. CASE i = first
        BY <2>1, <4>1
      <4>2. CASE i # first
        <5>1. i \in Nat /\ first <= i /\ i <= last /\ i - 1 < i
          BY <1>1
        <5>2. i - 1 \in first .. last
          BY <1>1, <4>2, <5>1
        <5>3. i - 1 \notin T
          <6>1. ~ (i <= i - 1)
            BY <5>1
          <6> QED
            BY <3>2, <6>1, Zenon
        <5> QED
          BY <5>2, <5>3
      <4> QED
        BY <4>1, <4>2
    <3>4. /\ i \in first .. last /\ i - 1 \in first - 1 .. last
          /\ i \in first - 1 .. last /\ ~ (i < first)
      BY <1>1
    <3>5. h[i] = AfterChunk(h[i - 1], Piece(f, i, start, end))
      BY <1>5, <3>4
    <3>6. g[i] = sofar(i) /\ g[i - 1] = sofar(i - 1)
      BY <3>4
    <3> QED
      BY <1>3, <3>3, <3>4, <3>5, <3>6
  <2>3. \A i \in first - 1 .. last : h[i] = g[i]
    <3>1. \A i \in first .. last : h[i] = g[i]
      BY <2>2
    <3>2. \A i \in first - 1 .. last : i = first - 1 \/ i \in first .. last
      BY <1>1
    <3> QED
      BY <2>1, <3>1, <3>2
  <2>4. h = [i \in first - 1 .. last |-> h[i]]
    BY <1>5
  <2> QED
    BY <2>3, <2>4
<1> HIDE DEF g
<1>6. ChunkLoop(f, start, end) = g
  BY <1>4, <1>5, Zenon DEF ChunkLoop, first, last
<1>7. g[last] = [written |-> SubSeq(text, start + 1, end + 1), failed |-> FALSE]
  <2>1. upto(last) = end + 1
    BY <1>1 DEF To, last
  <2>2. g[last] = sofar(last)
    BY <1>1 DEF g
  <2> QED
    BY <2>1, <2>2 DEF sofar
<1>8. ValidRange(f, start, end)
  BY DEF ValidRange, Holds
<1> QED
  BY <1>6, <1>7, <1>8 DEF WriteRange, last

\* A file of which only the header is written has no chunk sealed yet.
LEMMA HeaderSealed ==
  ASSUME NEW S
  PROVE  /\ WithHeader = [size |-> 0, cells |-> WithHeader.cells]
         /\ WithHeader.cells \in Seq(Cells(S)) /\ Sealed(WithHeader.cells, <<>>, 0)
<1> DEFINE h == [i \in 1 .. HeaderSize |-> HeaderCell]
<1>1. HeaderSize \in Nat /\ TagSize \in Nat
  BY FormatAssumption
<1>2. HeaderCell \in Cells(S)
  <2>1. <<>> \in Seq(S)
    OBVIOUS
  <2> QED
    BY <2>1 DEF HeaderCell, Cells
<1>3. h \in Seq(Cells(S)) /\ Len(h) = HeaderSize
  BY <1>1, <1>2
<1>4. Sealed(h, <<>>, 0)
  BY <1>1, <1>3 DEF Sealed
<1> QED
  BY <1>3, <1>4, Zenon DEF WithHeader

\* The bytes of a sealing.
LEMMA SealTypeOK ==
  ASSUME NEW S, NEW text \in Seq(S), NEW n \in Nat
  PROVE  /\ Seal(nonceFor(n), text) \in Seq(Cells(S))
         /\ Len(Seal(nonceFor(n), text)) = Len(text) + TagSize
<1>1. nonceFor(n) \in Nat
  BY FormatAssumption DEF nonceFor
<1>2. Len(text) + TagSize \in Nat
  BY FormatAssumption
<1>3. \A k \in 1 .. Len(text) + TagSize :
         [nonce |-> nonceFor(n), at |-> k, text |-> text] \in Cells(S)
  BY <1>1, <1>2 DEF Cells
<1> QED
  BY <1>2, <1>3 DEF Seal

\* Sealing the next chunk leaves the earlier ones where they were.
LEMMA SealExtends ==
  ASSUME NEW S, NEW text \in Seq(S), NEW cells \in Seq(Cells(S)), NEW n \in Nat,
         Len(text) = n * ChunkSize, Sealed(cells, text, n),
         NEW chunk \in Seq(S), Len(chunk) > 0, Len(chunk) <= ChunkSize
  PROVE  /\ cells \o Seal(nonceFor(n), chunk) \in Seq(Cells(S))
         /\ Sealed(cells \o Seal(nonceFor(n), chunk), text \o chunk, n + 1)
<1> DEFINE seal == Seal(nonceFor(n), chunk)
           c == ChunkSize
           nt == n * TagSize
           nc == n * c
           len == Len(chunk)
<1>1. /\ c \in Nat /\ c > 0 /\ TagSize \in Nat /\ HeaderSize \in Nat
      /\ Len(text) \in Nat /\ len \in Nat /\ len > 0 /\ len <= c /\ Len(cells) \in Nat
  BY FormatAssumption
<1>2. seal \in Seq(Cells(S)) /\ Len(seal) = len + TagSize
  BY SealTypeOK
<1>3. /\ nt \in Nat /\ (n + 1) * TagSize = nt + TagSize
      /\ nc \in Nat /\ (n + 1) * c = nc + c /\ n * (c + TagSize) = nc + nt
  BY <1>1, Products
<1>8. /\ Len(text) = nc /\ Len(cells) = HeaderSize + Len(text) + nt
      /\ ChunkAt(n) = HeaderSize + (nc + nt)
  BY <1>3 DEF Sealed, ChunkAt
<1> HIDE DEF nc, nt, len, seal, c
<1>9. /\ cells \o seal \in Seq(Cells(S)) /\ text \o chunk \in Seq(S)
      /\ Len(cells \o seal) = Len(cells) + Len(seal) /\ Len(text \o chunk) = Len(text) + len
  <2>1. cells \o seal \in Seq(Cells(S)) /\ Len(cells \o seal) = Len(cells) + Len(seal)
    BY <1>2, ConcatProperties
  <2>2. text \o chunk \in Seq(S) /\ Len(text \o chunk) = Len(text) + Len(chunk)
    BY ConcatProperties
  <2> QED
    BY <2>1, <2>2 DEF len
<1>10. Len(cells \o seal) = HeaderSize + Len(text \o chunk) + (n + 1) * TagSize
  <2>1. Len(cells \o seal) = (HeaderSize + Len(text) + nt) + (len + TagSize)
    BY <1>2, <1>8, <1>9
  <2>2. HeaderSize + Len(text \o chunk) + (n + 1) * TagSize
          = HeaderSize + (Len(text) + len) + (nt + TagSize)
    BY <1>3, <1>9
  <2> QED
    BY <1>1, <1>3, <2>1, <2>2
<1>4. Slice(text \o chunk, n) = chunk
  <2>1. AtMost((n + 1) * c, Len(text \o chunk)) = nc + len
    BY <1>1, <1>3, <1>8, <1>9 DEF AtMost
  <2>2. Slice(text \o chunk, n) = SubSeq(text \o chunk, nc + 1, nc + len)
    BY <2>1 DEF Slice, nc, c
  <2>3. SubSeq(text \o chunk, nc + 1, nc + len) = SubSeq(chunk, 1, len)
    <3>1. nc + 1 \in Len(text) + 1 .. Len(text) + Len(chunk)
      BY <1>1, <1>3, <1>8 DEF len
    <3>2. nc + len \in Len(text) + 1 .. Len(text) + Len(chunk)
      BY <1>1, <1>3, <1>8 DEF len
    <3>3. (nc + 1) - Len(text) = 1 /\ (nc + len) - Len(text) = len
      BY <1>1, <1>3, <1>8
    <3>4. SubSeq(text \o chunk, nc + 1, nc + len)
            = SubSeq(chunk, (nc + 1) - Len(text), (nc + len) - Len(text))
      BY <3>1, <3>2, SubSeqOfConcat2
    <3> QED
      BY <3>3, <3>4
  <2> QED
    BY <2>2, <2>3, SubSeqFull DEF len
<1>5. SubSeq(cells \o seal, ChunkAt(n) + 1, ChunkAt(n) + len + TagSize) = seal
  <2>1. /\ ChunkAt(n) = Len(cells) /\ Len(seal) \in Nat /\ Len(seal) > 0
        /\ Len(cells) + len + TagSize = Len(cells) + Len(seal)
    BY <1>1, <1>2, <1>3, <1>8
  <2>2. /\ Len(cells) + 1 \in Len(cells) + 1 .. Len(cells) + Len(seal)
        /\ Len(cells) + Len(seal) \in Len(cells) + 1 .. Len(cells) + Len(seal)
        /\ (Len(cells) + 1) - Len(cells) = 1
        /\ (Len(cells) + Len(seal)) - Len(cells) = Len(seal)
    BY <1>1, <2>1
  <2>3. SubSeq(cells \o seal, Len(cells) + 1, Len(cells) + Len(seal)) = SubSeq(seal, 1, Len(seal))
    BY <1>2, <2>2, SubSeqOfConcat2
  <2>4. SubSeq(seal, 1, Len(seal)) = seal
    BY <1>2, SubSeqFull
  <2> QED
    BY <2>1, <2>3, <2>4
<1>6. ASSUME NEW i \in 0 .. n - 1
      PROVE  /\ Slice(text \o chunk, i) = Slice(text, i)
             /\ SubSeq(cells \o seal, ChunkAt(i) + 1, ChunkAt(i) + Len(Slice(text, i)) + TagSize)
                  = Seal(nonceFor(i), Slice(text, i))
  <2> DEFINE lo  == i * ChunkSize
             nx  == (i + 1) * ChunkSize
             it  == i * TagSize
             at  == ChunkAt(i)
             end == ChunkAt(i) + Len(Slice(text, i)) + TagSize
  <2>1. /\ lo \in Nat /\ it \in Nat /\ nx = lo + c /\ at = HeaderSize + (lo + it)
        /\ nx <= nc /\ it + TagSize <= nt
    <3>1. /\ i \in Nat /\ i + 1 \in Nat /\ i + 1 <= n /\ ChunkSize \in Nat
      BY FormatAssumption
    <3> QED
      BY <1>1, <3>1, Products DEF ChunkAt, nc, nt, c
  <2> HIDE DEF lo, nx, it, at, end
  <2>2. Slice(text, i) = SubSeq(text, lo + 1, nx)
    <3>1. AtMost(nx, Len(text)) = nx
      BY <1>1, <1>3, <1>8, <2>1 DEF AtMost
    <3> QED
      BY <3>1 DEF Slice, lo, nx
  <2>3. Slice(text \o chunk, i) = SubSeq(text \o chunk, lo + 1, nx)
    <3>1. AtMost(nx, Len(text \o chunk)) = nx
      BY <1>1, <1>3, <1>8, <1>9, <2>1 DEF AtMost
    <3> QED
      BY <3>1 DEF Slice, lo, nx
  <2>4. lo + 1 \in 1 .. Len(text) /\ nx \in 1 .. Len(text)
    BY <1>1, <1>3, <1>8, <2>1
  <2>5. SubSeq(text \o chunk, lo + 1, nx) = SubSeq(text, lo + 1, nx)
    BY <2>4, SubSeqOfConcat1
  <2>6. Len(Slice(text, i)) = c
    <3>1. Len(SubSeq(text, lo + 1, nx)) = nx - lo
      BY <2>1, <2>4, <1>1, SubSeqProperties
    <3> QED
      BY <1>1, <2>1, <2>2, <3>1
  <2>7. at + 1 \in 1 .. Len(cells) /\ end \in 1 .. Len(cells)
    <3>1. end = at + c + TagSize
      BY <2>6 DEF end, at
    <3> QED
      BY <1>1, <1>3, <1>8, <2>1, <3>1
  <2>8. SubSeq(cells \o seal, at + 1, end) = SubSeq(cells, at + 1, end)
    BY <1>2, <2>7, SubSeqOfConcat1
  <2>9. SubSeq(cells, at + 1, end) = Seal(nonceFor(i), Slice(text, i))
    BY DEF Sealed, at, end
  <2> QED
    BY <2>2, <2>3, <2>5, <2>8, <2>9 DEF at, end
<1>7. ASSUME NEW i \in 0 .. (n + 1) - 1
      PROVE  SubSeq(cells \o seal, ChunkAt(i) + 1,
                    ChunkAt(i) + Len(Slice(text \o chunk, i)) + TagSize)
               = Seal(nonceFor(i), Slice(text \o chunk, i))
  <2>1. CASE i = n
    BY <1>4, <1>5, <2>1 DEF len, seal
  <2>2. CASE i # n
    <3>1. i \in 0 .. n - 1
      BY <2>2
    <3> QED
      BY <1>6, <3>1
  <2> QED
    BY <2>1, <2>2
<1> QED
  BY <1>9, <1>10, <1>7 DEF Sealed, seal

(***************************************************************************)
(* Types.                                                                  *)
(***************************************************************************)
\* The files that came in, and the sequences that pass through the buffers.
Uploaded == \E n \in 1 .. MaxFiles : sizes \in [1 .. n -> 0 .. MaxLen]
Buffers  == buf \in Seq(Units) /\ offer \in {<<>>} \cup {<<u>> : u \in Units}
Copying  == zip = "copy" => file \in 1 .. Len(sizes)
\* The size field of the header is patched by Encrypt's very last write.
PatchedLast ==
    /\ out = [size |-> out.size, cells |-> out.cells]
    /\ enc # "done" => out.size = 0
\* The parts of TypeOK.
Flags ==
    /\ key \in BOOLEAN /\ call \in {"idle", "running", "ok", "error"}
    /\ zip \in {"off", "open", "copy", "flushed", "sent", "closed"}
    /\ zipErr \in BOOLEAN /\ encErr \in BOOLEAN
    /\ enc \in {"off", "header", "fill", "size", "done"}
Counts ==
    /\ file \in 0 .. Len(sizes) /\ unit \in 0 .. MaxLen
    /\ index \in Nat /\ total \in Nat /\ faults \in 0 .. MaxFaults
Room1 == Len(offer) <= 1 /\ \A i \in DOMAIN offer : offer[i] \in Units
RoomN == Len(buf) <= ChunkSize /\ \A i \in DOMAIN buf : buf[i] \in Units
PackagingInv == TypeOK /\ Uploaded /\ Buffers /\ Copying /\ PatchedLast

\* The uploaded sizes are a sequence.
LEMMA Sizes ==
  ASSUME Uploaded
  PROVE  /\ Len(sizes) \in 1 .. MaxFiles /\ DOMAIN sizes = 1 .. Len(sizes)
         /\ \A f \in 1 .. Len(sizes) : sizes[f] \in 0 .. MaxLen
<1>1. PICK n \in 1 .. MaxFiles : sizes \in [1 .. n -> 0 .. MaxLen]
  BY DEF Uploaded
<1>2. sizes \in Seq(0 .. MaxLen) /\ DOMAIN sizes = 1 .. n
  BY <1>1, PackagingAssumption
<1> QED
  BY <1>1, <1>2, PackagingAssumption

LEMMA EmptyBuffer ==
  /\ <<>> \in Seq(Units) /\ Len(<<>>) = 0 /\ \A i \in DOMAIN <<>> : <<>>[i] \in Units
  /\ NoFile = [size |-> NoFile.size, cells |-> NoFile.cells] /\ NoFile.size = 0
<1>1. <<>> \in Seq(Units) /\ Len(<<>>) = 0 /\ DOMAIN <<>> = {}
  OBVIOUS
<1>2. NoFile = [size |-> NoFile.size, cells |-> NoFile.cells] /\ NoFile.size = 0
  BY DEF NoFile
<1> QED
  BY <1>1, <1>2

LEMMA PackagingInit == Init => PackagingInv
<1> SUFFICES ASSUME Init PROVE PackagingInv
  OBVIOUS
<1>1. Uploaded
  BY DEF Init, Uploaded
<1>2. Len(sizes) \in Nat
  BY <1>1, Sizes, PackagingAssumption
<1>3. TypeOK
  <2>1. Flags
    BY Zenon DEF Init, Flags
  <2>4. Counts
    BY <1>2, PackagingAssumption DEF Init, Counts
  <2>2. Room1 /\ RoomN
    BY EmptyBuffer, FormatAssumption DEF Init, Room1, RoomN
  <2>3. out.size \in {0, total}
    BY EmptyBuffer DEF Init
  <2> QED
    BY <2>1, <2>2, <2>3, <2>4 DEF TypeOK, Flags, Counts, Room1, RoomN
<1>4. PatchedLast
  BY EmptyBuffer DEF Init, PatchedLast
<1>5. Buffers /\ Copying
  BY EmptyBuffer DEF Init, Buffers, Copying
<1> QED
  BY <1>1, <1>3, <1>4, <1>5 DEF PackagingInv

\* What a Write of buildZip leaves in the pipe or in the artefact.
LEMMA PutTyped ==
  ASSUME PackagingInv, NEW u \in Units, Put(u)
  PROVE  /\ offer' \in {<<>>} \cup {<<v>> : v \in Units} /\ Len(offer') <= 1
         /\ \A i \in DOMAIN offer' : offer'[i] \in Units
         /\ out'.size = out.size /\ out' = [size |-> out'.size, cells |-> out'.cells]
<1>1. <<u>> \in Seq(Units) /\ Len(<<u>>) = 1 /\ \A i \in DOMAIN <<u>> : <<u>>[i] \in Units
  OBVIOUS
<1>2. [out EXCEPT !.cells = Append(@, u)] = [size |-> out.size, cells |-> Append(out.cells, u)]
  BY DEF PackagingInv, PatchedLast
<1>3. CASE Piped
  <2>1. offer' = <<u>> /\ out' = out
    BY <1>3 DEF Put
  <2>2. out = [size |-> out.size, cells |-> out.cells]
    BY DEF PackagingInv, PatchedLast
  <2> QED
    BY <1>1, <2>1, <2>2
<1>4. CASE ~Piped
  <2>1. offer' = offer /\ out' = [size |-> out.size, cells |-> Append(out.cells, u)]
    BY <1>2, <1>4 DEF Put
  <2>2. /\ offer \in {<<>>} \cup {<<v>> : v \in Units} /\ Len(offer) <= 1
        /\ \A i \in DOMAIN offer : offer[i] \in Units
    BY DEF PackagingInv, TypeOK, Buffers
  <2> QED
    BY <2>1, <2>2
<1> QED
  BY <1>3, <1>4

\* The type invariant, action by action.
LEMMA BeginTyped == PackagingInv /\ Begin => PackagingInv'
<1> SUFFICES ASSUME PackagingInv, Begin PROVE PackagingInv'
  OBVIOUS
<1>1. Uploaded /\ Uploaded' /\ sizes' = sizes
  BY DEF PackagingInv, Uploaded, Begin
<1>2. Len(sizes) \in Nat /\ Len(sizes) >= 1
  BY <1>1, Sizes, PackagingAssumption
<1>3. TypeOK'
  <2>1. Flags'
    BY Zenon DEF Begin, Flags
  <2>4. Counts'
    BY <1>1, <1>2, PackagingAssumption DEF Begin, PackagingInv, TypeOK, Counts, One
  <2>2. Room1' /\ RoomN'
    BY EmptyBuffer, FormatAssumption DEF Begin, Room1, RoomN
  <2>3. out'.size \in {0, total'}
    BY EmptyBuffer DEF Begin
  <2> QED
    BY <2>1, <2>2, <2>3, <2>4 DEF TypeOK, Flags, Counts, Room1, RoomN
<1>4. Buffers'
  BY EmptyBuffer DEF Begin, Buffers
<1>6. PatchedLast'
  BY EmptyBuffer DEF Begin, PatchedLast
<1>5. Copying'
  BY <1>1, <1>2 DEF Begin, Copying, One
<1> QED
  BY <1>1, <1>3, <1>4, <1>5, <1>6 DEF PackagingInv

LEMMA ZipTyped ==
  PackagingInv /\ (ZipEntry \/ CopyUnit \/ CopyEnd \/ ZipClose) => PackagingInv'
<1> SUFFICES ASSUME PackagingInv, ZipEntry \/ CopyUnit \/ CopyEnd \/ ZipClose
             PROVE  PackagingInv'
  OBVIOUS
<1> USE PackagingAssumption DEF encVars
<1>1. /\ Uploaded /\ Len(sizes) \in 1 .. MaxFiles
      /\ \A f \in 1 .. Len(sizes) : sizes[f] \in 0 .. MaxLen
  BY Sizes DEF PackagingInv
<1>2. CASE ZipEntry
  <2>1. <<file + 1, 0>> \in Units /\ file + 1 \in 1 .. Len(sizes)
    BY <1>1, <1>2 DEF ZipEntry, PackagingInv, TypeOK, Units
  <2> QED
    BY <1>1, <1>2, <2>1, PutTyped
    DEF ZipEntry, PackagingInv, TypeOK, Uploaded, Buffers, Copying, PatchedLast
<1>3. CASE CopyUnit
  <2>1. <<file, unit + 1>> \in Units /\ unit + 1 \in 0 .. MaxLen
    BY <1>1, <1>3 DEF CopyUnit, PackagingInv, TypeOK, Copying, Units
  <2> QED
    BY <1>1, <1>3, <2>1, PutTyped
    DEF CopyUnit, PackagingInv, TypeOK, Uploaded, Buffers, Copying, PatchedLast
<1>4. CASE CopyEnd
  BY <1>1, <1>4 DEF CopyEnd, PackagingInv, TypeOK, Uploaded, Buffers, Copying, PatchedLast
<1>5. CASE ZipClose
  <2>1. <<0, 0>> \in Units
    BY DEF Units
  <2> QED
    BY <1>1, <1>5, <2>1, PutTyped
    DEF ZipClose, PackagingInv, TypeOK, Uploaded, Buffers, Copying, PatchedLast
<1> QED
  BY <1>2, <1>3, <1>4, <1>5

LEMMA ReturnsTyped ==
  PackagingInv /\ (ZipDone \/ PipeClose \/ ZipFails \/ EncFails \/ CallerReturns)
     => PackagingInv'
<1> SUFFICES ASSUME PackagingInv,
                    ZipDone \/ PipeClose \/ ZipFails \/ EncFails \/ CallerReturns
             PROVE  PackagingInv'
  OBVIOUS
<1> USE DEF zipVars, encVars, ZipDone, PipeClose, ClosePipe, ZipFails, ZipReturns, EncFails,
            CallerReturns
<1>1. /\ UNCHANGED <<sizes, file, unit, offer, buf, index, total, out>>
      /\ faults' = faults \/ Fault
  OBVIOUS
<1>2. Flags'
  <2>1. Flags
    BY DEF PackagingInv, TypeOK, Flags
  <2>2. Result \in {"ok", "error"}
    BY DEF Result
  <2> QED
    BY <2>1, <2>2, Zenon DEF Flags
<1>3. Counts'
  BY <1>1, PackagingAssumption DEF PackagingInv, TypeOK, Counts, Fault
<1>4. Room1' /\ RoomN' /\ out'.size \in {0, total'}
  BY <1>1 DEF PackagingInv, TypeOK, Room1, RoomN
<1>5. Uploaded' /\ Buffers'
  BY <1>1 DEF PackagingInv, Uploaded, Buffers
<1>6. Copying'
  BY <1>1 DEF PackagingInv, Copying
<1>7. PatchedLast'
  BY <1>1 DEF PackagingInv, PatchedLast
<1> QED
  BY <1>2, <1>3, <1>4, <1>5, <1>6, <1>7 DEF PackagingInv, TypeOK, Flags, Counts, Room1, RoomN

LEMMA FillTyped == PackagingInv /\ EncFill => PackagingInv'
<1> SUFFICES ASSUME PackagingInv, EncFill PROVE PackagingInv'
  OBVIOUS
<1>1. /\ UNCHANGED <<sizes, key, call, zip, file, zipErr, enc, index, total, encErr, out, faults>>
      /\ buf \in Seq(Units) /\ Len(buf) < ChunkSize
  BY DEF EncFill, Room, PackagingInv, Buffers
<1>2. buf' \in Seq(Units) /\ Len(buf') = Len(buf) + 1
  <2>1. CASE Piped
    <3>1. offer # <<>> /\ buf' = buf \o offer
      BY <2>1 DEF EncFill
    <3>2. PICK u \in Units : offer = <<u>>
      BY <3>1 DEF PackagingInv, Buffers
    <3>3. <<u>> \in Seq(Units) /\ Len(<<u>>) = 1
      OBVIOUS
    <3> QED
      BY <1>1, <3>1, <3>2, <3>3
  <2>2. CASE ~Piped
    <3>1. buf' = Append(buf, <<1, unit + 1>>) /\ unit < sizes[1]
      BY <2>2 DEF EncFill
    <3>2. <<1, unit + 1>> \in Units
      BY <3>1, Sizes, PackagingAssumption DEF PackagingInv, TypeOK, Units
    <3> QED
      BY <1>1, <3>1, <3>2
  <2> QED
    BY <2>1, <2>2
<1>3. RoomN'
  BY <1>1, <1>2, FormatAssumption DEF RoomN
<1>4. offer' \in {<<>>} \cup {<<u>> : u \in Units} /\ Room1'
  <2>1. offer' = offer \/ offer' = <<>>
    BY DEF EncFill
  <2> QED
    BY <2>1, EmptyBuffer DEF PackagingInv, TypeOK, Buffers, Room1
<1>5. unit' \in 0 .. MaxLen
  <2>1. sizes[1] \in 0 .. MaxLen /\ unit \in 0 .. MaxLen
    BY Sizes, PackagingAssumption DEF PackagingInv, TypeOK
  <2> QED
    BY <2>1, PackagingAssumption DEF EncFill
<1> QED
  BY <1>1, <1>2, <1>3, <1>4, <1>5
  DEF PackagingInv, TypeOK, Uploaded, Buffers, Copying, PatchedLast, Room1, RoomN

LEMMA SealTyped ==
  PackagingInv /\ (EncHeader \/ EncSeal \/ EncEnd \/ EncSize) => PackagingInv'
<1> SUFFICES ASSUME PackagingInv, EncHeader \/ EncSeal \/ EncEnd \/ EncSize
             PROVE  PackagingInv'
  OBVIOUS
<1> USE DEF zipVars, EncHeader, EncSeal, EncEnd, EncSize
<1>1. /\ UNCHANGED <<sizes, key, call, zip, file, unit, zipErr, offer, encErr, faults>>
      /\ buf' = buf \/ buf' = <<>>
      /\ enc' \in {"fill", "size", "done"} /\ enc \in {"header", "fill", "size"}
  OBVIOUS
<1>2. index' \in Nat /\ total' \in Nat
  BY DEF PackagingInv, TypeOK, Buffers
<1>3. Room1' /\ RoomN' /\ Buffers'
  <2>1. Room1 /\ RoomN /\ Buffers
    BY DEF PackagingInv, TypeOK, Room1, RoomN
  <2>2. Room1' /\ Buffers'
    BY <1>1, <2>1, EmptyBuffer DEF Room1, Buffers
  <2>3. CASE buf' = buf
    BY <2>1, <2>2, <2>3 DEF RoomN
  <2>4. CASE buf' = <<>>
    BY <2>2, <2>4, EmptyBuffer, FormatAssumption DEF RoomN
  <2> QED
    BY <1>1, <2>2, <2>3, <2>4
<1>4. PatchedLast' /\ out'.size \in {0, total'}
  <2>1. out.size = 0 /\ out = [size |-> out.size, cells |-> out.cells]
    BY <1>1 DEF PackagingInv, PatchedLast
  <2>2. CASE EncHeader
    BY <2>2 DEF PatchedLast, WithHeader
  <2>3. CASE EncSeal
    <3>1. out' = [size |-> out.size, cells |-> out.cells \o Seal(nonceFor(index), buf)]
      BY <2>1, <2>3, Zenon
    <3> QED
      BY <2>1, <3>1 DEF PatchedLast
  <2>4. CASE EncEnd
    BY <2>1, <2>4 DEF PatchedLast
  <2>5. CASE EncSize
    <3>1. out' = [size |-> total, cells |-> out.cells] /\ enc' = "done" /\ total' = total
      BY <2>1, <2>5
    <3> QED
      BY <3>1 DEF PatchedLast
  <2> QED
    BY <2>2, <2>3, <2>4, <2>5
<1>5. Flags'
  <2>1. Flags
    BY DEF PackagingInv, TypeOK, Flags
  <2> QED
    BY <1>1, <2>1, Zenon DEF Flags
<1>6. Counts' /\ Uploaded' /\ Copying'
  BY <1>1, <1>2 DEF PackagingInv, TypeOK, Counts, Uploaded, Copying
<1> QED
  BY <1>3, <1>4, <1>5, <1>6 DEF PackagingInv, TypeOK, Flags, Counts, Room1, RoomN

LEMMA PackagingStep == PackagingInv /\ [Next]_vars => PackagingInv'
<1> SUFFICES ASSUME PackagingInv, [Next]_vars PROVE PackagingInv'
  OBVIOUS
<1>1. CASE UNCHANGED vars \/ \E h \in Ranges : Download(h)
  <2>1. UNCHANGED <<sizes, key, call, zip, file, unit, zipErr, offer, enc, buf, index, total,
                    encErr, out, faults>>
    BY <1>1 DEF vars, zipVars, encVars, Download
  <2> QED
    BY <2>1 DEF PackagingInv, TypeOK, Uploaded, Buffers, Copying, PatchedLast
<1> QED
  BY <1>1, BeginTyped, ZipTyped, ReturnsTyped, FillTyped, SealTyped DEF Next, ZipStep, EncStep

\* The pipe never holds more than one write and the plaintext buffer never more
\* than one chunk, and a header whose size field is set belongs to a file that
\* Encrypt has finished.
THEOREM PackagingTypeCorrect == Spec => []TypeOK
<1>1. PackagingInv => TypeOK
  BY DEF PackagingInv
<1> QED
  BY <1>1, PackagingInit, PackagingStep, PTL DEF Spec

(***************************************************************************)
(* What has been emitted, and where the call is.                           *)
(***************************************************************************)
\* The units the zip side has put out so far (as long as it met no error), and how
\* the two sides of the pipe and the call move together.
ZipOver == zip \in {"flushed", "sent", "closed"}
Emitted ==
    IF One THEN Bytes(unit)
    ELSE IF ZipOver THEN Stream
    ELSE IF zip = "copy" THEN Entries[file - 1] \o Entry(file, unit)
    ELSE Entries[file]

Control ==
  /\ call # "running" => enc \in {"off", "done"}
  /\ enc = "off" <=> ~key
  /\ key /\ One => zip = "off"
  /\ One => zip # "open" /\ zip # "sent"
  /\ One /\ call = "running" => file = 1
  /\ zip = "sent" => Piped
  /\ zipErr => zip \in {"sent", "closed"}
  /\ encErr => enc = "done"
  /\ zip \in {"sent", "closed"} => offer = <<>>
  /\ ~Piped => offer = <<>>
  /\ One /\ ZipOver /\ ~zipErr => unit = sizes[1]
  /\ call = "running" /\ ~key => zip \in {"open", "copy", "flushed"}
  /\ call = "ok" => ~zipErr /\ ~encErr /\ (key => enc = "done") /\ (~key => zip = "closed")

\* One more byte copied is one more unit of the entry.
LEMMA EntryTyped ==
  ASSUME NEW f \in 1 .. MaxFiles, NEW n \in 0 .. MaxLen
  PROVE  /\ Entry(f, n) \in Seq(Units) /\ Entry(f, 0) = <<<<f, 0>>>>
         /\ Entry(f, n + 1) = Entry(f, n) \o <<<<f, n + 1>>>>
<1> DEFINE next == [j \in 1 .. n + 2 |-> <<f, j - 1>>]
<1>1. n \in Nat /\ \A j \in 1 .. n + 1 : <<f, j - 1>> \in Units
  BY PackagingAssumption DEF Units
<1>2. Entry(f, n) \in Seq(Units) /\ Len(Entry(f, n)) = n + 1
  BY <1>1 DEF Entry
<1>3. Entry(f, 0) = <<<<f, 0>>>>
  BY DEF Entry
<1>4. Entry(f, n + 1) = next
  BY <1>1 DEF Entry
<1>5. Entry(f, n) \o <<<<f, n + 1>>>> = next
  BY <1>1 DEF Entry
<1> QED
  BY <1>2, <1>3, <1>4, <1>5

LEMMA BytesTyped ==
  ASSUME NEW n \in 0 .. MaxLen
  PROVE  /\ Bytes(n) \in Seq(Units) /\ Bytes(0) = <<>>
         /\ Bytes(n + 1) = Bytes(n) \o <<<<1, n + 1>>>> /\ Len(Bytes(n)) = n
  BY PackagingAssumption DEF Bytes, Units

\* The defining equation of the recursive function Entries: some function
\* satisfies it, so the chosen one does.
LEMMA EntriesDef ==
  ASSUME Uploaded
  PROVE  /\ Entries[0] = <<>>
         /\ \A f \in 1 .. Len(sizes) : Entries[f] = Entries[f - 1] \o Entry(f, sizes[f])
         /\ \A f \in 0 .. Len(sizes) : Entries[f] \in Seq(Units)
<1> DEFINE N == Len(sizes)
           IsUpto(g, m) == /\ g \in [0 .. m -> Seq(Units)] /\ g[0] = <<>>
                           /\ \A i \in 1 .. m : g[i] = g[i - 1] \o Entry(i, sizes[i])
           IsEntries(g) == g = [f \in 0 .. N |-> IF f = 0 THEN <<>>
                                                 ELSE g[f - 1] \o Entry(f, sizes[f])]
<1>1. N \in Nat /\ \A f \in 1 .. N : Entry(f, sizes[f]) \in Seq(Units)
  <2>1. N \in Nat /\ \A f \in 1 .. N : f \in 1 .. MaxFiles /\ sizes[f] \in 0 .. MaxLen
    BY Sizes, PackagingAssumption
  <2> QED
    BY <2>1, EntryTyped
<1> HIDE DEF N
<1>2. \A m \in 0 .. N : \E g : IsUpto(g, m)
  <2>1. IsUpto([i \in 0 .. 0 |-> <<>>], 0)
    OBVIOUS
  <2>2. ASSUME NEW m \in 1 .. N, NEW g, IsUpto(g, m - 1)
        PROVE  \E h : IsUpto(h, m)
    <3> DEFINE h == [i \in 0 .. m |-> IF i = m THEN g[m - 1] \o Entry(m, sizes[m]) ELSE g[i]]
    <3>1. /\ g \in [0 .. m - 1 -> Seq(Units)] /\ Entry(m, sizes[m]) \in Seq(Units)
          /\ m \in Nat /\ m > 0
      BY <1>1, <2>2
    <3>2. h \in [0 .. m -> Seq(Units)]
      <4>1. ASSUME NEW i \in 0 .. m PROVE h[i] \in Seq(Units)
        <5>1. CASE i = m
          <6>1. g[m - 1] \in Seq(Units)
            BY <3>1
          <6> QED
            BY <3>1, <5>1, <6>1, ConcatProperties
        <5>2. CASE i # m
          BY <3>1, <5>2
        <5> QED
          BY <5>1, <5>2
      <4> QED
        BY <4>1
    <3>3. h[0] = <<>>
      BY <2>2, <3>1
    <3>4. ASSUME NEW i \in 1 .. m PROVE h[i] = h[i - 1] \o Entry(i, sizes[i])
      <4>1. h[i - 1] = g[i - 1]
        BY <3>1
      <4>2. CASE i = m
        <5>1. h[m] = g[m - 1] \o Entry(m, sizes[m])
          BY <3>1
        <5> HIDE DEF h
        <5> QED
          BY <4>1, <4>2, <5>1
      <4>3. CASE i # m
        <5>1. i \in 1 .. m - 1 /\ h[i] = g[i]
          BY <3>1, <4>3
        <5> QED
          BY <2>2, <4>1, <5>1
      <4> QED
        BY <4>2, <4>3
    <3> HIDE DEF h
    <3>5. IsUpto(h, m)
      BY <3>2, <3>3, <3>4
    <3> HIDE DEF IsUpto
    <3> QED
      BY <3>5
  <2> HIDE DEF IsUpto
  <2> DEFINE T == {m \in 0 .. N : ~ \E g : IsUpto(g, m)}
  <2>3. T = {}
    <3> SUFFICES ASSUME T # {} PROVE FALSE
      OBVIOUS
    <3>5. T \subseteq Nat
      BY <1>1
    <3>1. PICK m \in T : \A k \in T : m <= k
      BY <3>5, Least
    <3>2. m \in 0 .. N /\ ~ \E g : IsUpto(g, m)
      OBVIOUS
    <3>3. m \in 1 .. N /\ m - 1 \in 0 .. N
      BY <1>1, <2>1, <3>2
    <3>4. m - 1 \notin T
      BY <3>1, <3>3
    <3> QED
      BY <2>2, <3>2, <3>3, <3>4
  <2> QED
    BY <2>3
<1>3. PICK g : IsUpto(g, N)
  <2> HIDE DEF IsUpto
  <2> QED
    BY <1>1, <1>2
<1>4. IsEntries(g)
  <2>1. g = [f \in 0 .. N |-> g[f]]
    BY <1>3
  <2>2. \A f \in 0 .. N : g[f] = IF f = 0 THEN <<>> ELSE g[f - 1] \o Entry(f, sizes[f])
    <3>1. \A f \in 0 .. N : f = 0 \/ f \in 1 .. N
      BY <1>1
    <3> QED
      BY <1>3, <3>1
  <2> QED
    BY <2>1, <2>2
<1>5. IsEntries(Entries)
  BY <1>4, Zenon DEF Entries, N
<1>6. Entries[0] = <<>> /\ \A f \in 1 .. N : Entries[f] = Entries[f - 1] \o Entry(f, sizes[f])
  <2>1. 0 \in 0 .. N /\ \A f \in 1 .. N : f \in 0 .. N /\ f # 0
    BY <1>1
  <2> QED
    BY <1>5, <2>1, Zenon
<1>7. \A f \in 0 .. N : Entries[f] \in Seq(Units)
  <2> DEFINE T == {f \in 0 .. N : Entries[f] \notin Seq(Units)}
  <2> SUFFICES ASSUME T # {} PROVE FALSE
    OBVIOUS
  <2>7. T \subseteq Nat
    BY <1>1
  <2>1. PICK f \in T : \A k \in T : f <= k
    BY <2>7, Least
  <2>2. f \in 0 .. N /\ Entries[f] \notin Seq(Units)
    OBVIOUS
  <2>3. f # 0
    BY <1>6, <2>2, EmptySeq
  <2>4. f \in 1 .. N /\ f - 1 \in 0 .. N /\ f - 1 \notin T
    BY <1>1, <2>1, <2>2, <2>3
  <2>5. Entries[f - 1] \in Seq(Units) /\ Entry(f, sizes[f]) \in Seq(Units)
    BY <1>1, <2>4
  <2>6. Entries[f - 1] \o Entry(f, sizes[f]) \in Seq(Units)
    BY <2>5, ConcatProperties
  <2> QED
    BY <1>6, <2>2, <2>4, <2>6
<1> QED
  BY <1>6, <1>7 DEF N

LEMMA SameFiles ==
  ASSUME sizes' = sizes
  PROVE  Entries' = Entries /\ Stream' = Stream /\ (One' <=> One)
<1>1. Entries' = Entries
  BY DEF Entries
<1> QED
  BY <1>1 DEF Stream, One

\* The bytes to expect are units.
LEMMA StreamTyped ==
  ASSUME Uploaded
  PROVE  Stream \in Seq(Units)
<1>1. Len(sizes) \in 1 .. MaxFiles /\ sizes[1] \in 0 .. MaxLen
  BY Sizes, PackagingAssumption
<1>2. <<<<0, 0>>>> \in Seq(Units)
  BY PackagingAssumption DEF Units
<1>3. Entries[Len(sizes)] \in Seq(Units)
  BY <1>1, EntriesDef, PackagingAssumption
<1>4. Bytes(sizes[1]) \in Seq(Units) /\ Entries[Len(sizes)] \o <<<<0, 0>>>> \in Seq(Units)
  BY <1>1, <1>2, <1>3, BytesTyped, ConcatProperties
<1> QED
  BY <1>4 DEF Stream

\* The control invariant, action by action.
LEMMA ControlInit == Init => Control
  BY Zenon DEF Init, Control, Piped, ZipOver

LEMMA ControlStep == PackagingInv /\ Control /\ [Next]_vars => Control'
<1> SUFFICES ASSUME PackagingInv, Control, [Next]_vars PROVE Control'
  OBVIOUS
<1> USE DEF zipVars, encVars
<1>0. One \in BOOLEAN /\ key \in BOOLEAN /\ enc \in {"off", "header", "fill", "size", "done"}
  BY DEF One, PackagingInv, TypeOK
<1>1. CASE Begin
  <2>1. One' <=> One
    BY <1>1 DEF Begin, One
  <2> QED
    BY <1>0, <1>1, <2>1, Zenon DEF Begin, Control, Piped, ZipOver
<1>2. CASE ZipEntry \/ ZipClose
  <2>1. /\ UNCHANGED <<sizes, key, call, enc, encErr, zipErr>> /\ call = "running"
        /\ zip = "open" /\ zip' \in {"copy", "flushed"} /\ (Piped \/ offer' = offer)
    BY <1>2 DEF ZipEntry, ZipClose, Put, Writing
  <2>2. (One' <=> One) /\ ~One
    BY <2>1 DEF One, Control
  <2> QED
    BY <1>0, <2>1, <2>2, Zenon DEF Control, Piped, ZipOver
<1>3. CASE CopyUnit
  <2>1. /\ UNCHANGED <<sizes, key, call, zip, file, enc, encErr, zipErr>> /\ call = "running"
        /\ zip = "copy" /\ (Piped \/ offer' = offer)
    BY <1>3 DEF CopyUnit, Put, Writing
  <2>2. One' <=> One
    BY <2>1 DEF One
  <2> QED
    BY <1>0, <2>1, <2>2, Zenon DEF Control, Piped, ZipOver
<1>4. CASE CopyEnd
  <2>1. /\ UNCHANGED <<sizes, key, call, file, unit, enc, encErr, zipErr, offer>>
        /\ call = "running" /\ zip = "copy" /\ unit = sizes[file]
        /\ zip' = IF One THEN "flushed" ELSE "open"
    BY <1>4 DEF CopyEnd, Writing
  <2>2. One' <=> One
    BY <2>1 DEF One
  <2> QED
    BY <1>0, <2>1, <2>2, Zenon DEF Control, Piped, ZipOver
<1>5. CASE ZipDone \/ ZipFails
  <2>1. /\ UNCHANGED <<sizes, key, file, unit, enc, encErr, offer>> /\ offer = <<>>
        /\ call = "running" /\ zip \in {"open", "copy", "flushed"}
        /\ ZipDone => zip = "flushed"
        /\ zip' = IF Piped THEN "sent" ELSE "closed"
        /\ zipErr' = (IF ZipDone THEN FALSE ELSE TRUE)
        /\ call' = IF Piped THEN call ELSE IF zipErr' THEN "error" ELSE "ok"
    BY <1>5 DEF ZipDone, ZipFails, ZipReturns, Writing
  <2>2. One' <=> One
    BY <2>1 DEF One
  <2>3. key /\ ~Piped => FALSE
    BY <2>1 DEF Control, Piped
  <2>4. CASE Piped
    <3>1. zip' = "sent" /\ call' = call /\ key /\ ~One
      BY <2>1, <2>4 DEF Piped
    <3> QED
      BY <1>0, <2>1, <2>2, <2>4, <3>1, Zenon DEF Control, Piped, ZipOver
  <2>5. CASE ~Piped
    <3>1. /\ zip' = "closed" /\ ~key /\ ~zipErr
          /\ (call' = "ok" /\ ZipDone /\ ~zipErr') \/ (call' = "error" /\ zipErr')
      BY <2>1, <2>3, <2>5 DEF Control
    <3>2. enc = "off" /\ ~encErr
      BY <1>0, <3>1 DEF Control
    <3> QED
      BY <1>0, <2>1, <2>2, <2>5, <3>1, <3>2, Zenon DEF Control, Piped, ZipOver
  <2> QED
    BY <2>4, <2>5
<1>6. CASE PipeClose
  <2>1. /\ UNCHANGED <<sizes, key, call, file, unit, enc, encErr, offer, zipErr>>
        /\ zip = "sent" /\ zip' = "closed"
    BY <1>6 DEF PipeClose, ClosePipe
  <2>2. One' <=> One
    BY <2>1 DEF One
  <2> QED
    BY <1>0, <2>1, <2>2, Zenon DEF Control, Piped, ZipOver
<1>7. CASE EncStep \/ EncFails
  <2>1. /\ UNCHANGED <<sizes, key, call, zip, file, zipErr>>
        /\ encErr' = encErr \/ enc' = "done"
        /\ enc \in {"header", "fill", "size"} /\ enc' \in {"fill", "size", "done"}
        /\ offer' = offer \/ offer' = <<>>
        /\ unit' # unit => ~Piped
    BY <1>7 DEF EncStep, EncHeader, EncFill, EncSeal, EncEnd, EncSize, EncFails
  <2>2. One' <=> One
    BY <2>1 DEF One
  <2>3. key /\ call = "running" /\ (encErr' => enc' = "done")
    BY <1>0, <2>1 DEF Control
  <2>4. unit' = unit \/ (One /\ ~ZipOver)
    <3>1. unit' # unit => One /\ zip = "off"
      BY <2>1, <2>3 DEF Piped, Control
    <3> QED
      BY <3>1 DEF ZipOver
  <2> QED
    BY <1>0, <2>1, <2>2, <2>3, <2>4, Zenon DEF Control, Piped, ZipOver
<1>8. CASE CallerReturns
  <2>1. /\ UNCHANGED <<sizes, key, zip, file, unit, enc, encErr, offer, zipErr>>
        /\ enc = "done" /\ (call' = IF zipErr \/ encErr THEN "error" ELSE "ok")
    BY <1>8 DEF CallerReturns, Joined, Result
  <2>2. One' <=> One
    BY <2>1 DEF One
  <2>3. key
    BY <1>0, <2>1 DEF Control
  <2> QED
    BY <1>0, <2>1, <2>2, <2>3, Zenon DEF Control, Piped, ZipOver
<1>9. CASE UNCHANGED vars \/ \E h \in Ranges : Download(h)
  <2>1. UNCHANGED <<sizes, key, call, zip, file, unit, enc, encErr, offer, zipErr>>
    BY <1>9 DEF vars, Download
  <2>2. One' <=> One
    BY <2>1 DEF One
  <2> QED
    BY <1>0, <2>1, <2>2, Zenon DEF Control, Piped, ZipOver
<1> QED
  BY <1>1, <1>2, <1>3, <1>4, <1>5, <1>6, <1>7, <1>8, <1>9 DEF Next, ZipStep

(***************************************************************************)
(* Nothing is lost on the way to the artefact.                             *)
(***************************************************************************)
\* The inductive invariant.  Without a key, the artefact is what the zip side has put
\* out.  With one, that is the text already sealed, then what is in Encrypt's
\* buffer, then what is in the pipe; no unit is lost, repeated or reordered between
\* the three.
Encrypting(text) ==
    /\ Emitted = (text \o buf) \o offer /\ Len(text) = total
    /\ enc \in {"header", "fill"} => total = index * ChunkSize
    /\ enc = "header" => index = 0 /\ buf = <<>>
    /\ enc # "header" => Sealed(out.cells, text, index)
    /\ enc \in {"size", "done"} =>
          /\ total <= index * ChunkSize /\ index * ChunkSize < total + ChunkSize
          /\ buf = <<>> /\ SourceEnd
    /\ enc = "done" => out.size = total

Written ==
    /\ ~key /\ ~zipErr => out.cells = Emitted
    /\ key /\ ~zipErr /\ ~encErr =>
          /\ out.cells \in Seq(Cells(Units))
          /\ \E text \in Seq(Units) : Encrypting(text)

\* Emitted is a sequence of units.
LEMMA EmittedTyped ==
  ASSUME PackagingInv
  PROVE  Emitted \in Seq(Units)
<1>1. /\ Uploaded /\ unit \in 0 .. MaxLen /\ file \in 0 .. Len(sizes)
      /\ zip = "copy" => file \in 1 .. Len(sizes)
  BY DEF PackagingInv, TypeOK, Copying
<1>2. Len(sizes) \in 1 .. MaxFiles
  BY <1>1, Sizes
<1>3. Bytes(unit) \in Seq(Units) /\ Stream \in Seq(Units) /\ Entries[file] \in Seq(Units)
  BY <1>1, StreamTyped, BytesTyped, EntriesDef
<1>4. ASSUME zip = "copy" PROVE Entries[file - 1] \o Entry(file, unit) \in Seq(Units)
  <2>1. file \in 1 .. MaxFiles /\ file - 1 \in 0 .. Len(sizes)
    BY <1>1, <1>2, <1>4, PackagingAssumption
  <2>2. Entries[file - 1] \in Seq(Units) /\ Entry(file, unit) \in Seq(Units)
    BY <1>1, <2>1, EntriesDef, EntryTyped
  <2> QED
    BY <2>2, ConcatProperties
<1> QED
  BY <1>3, <1>4 DEF Emitted

\* What each step of buildZip adds to what it has emitted.
LEMMA ZipEntryEmits ==
  PackagingInv /\ Control /\ ZipEntry => Emitted' = Emitted \o <<<<file + 1, 0>>>>
<1> SUFFICES ASSUME PackagingInv, Control, ZipEntry
             PROVE  Emitted' = Emitted \o <<<<file + 1, 0>>>>
  OBVIOUS
<1>1. /\ sizes' = sizes /\ zip = "open" /\ zip' = "copy" /\ file' = file + 1 /\ unit' = 0
      /\ file < Len(sizes)
  BY DEF ZipEntry
<1>2. ~One /\ ~One' /\ Entries' = Entries
  BY <1>1, SameFiles DEF Control
<1>3. file \in Nat /\ file + 1 \in 1 .. MaxFiles
  BY <1>1, Sizes, PackagingAssumption DEF PackagingInv, TypeOK
<1>4. Emitted = Entries[file] /\ Emitted' = Entries[file] \o Entry(file + 1, 0)
  <2>1. (file + 1) - 1 = file
    BY <1>3
  <2>2. Emitted' = Entries[(file + 1) - 1] \o Entry(file + 1, 0)
    BY <1>1, <1>2 DEF Emitted, ZipOver
  <2>3. Emitted = Entries[file]
    BY <1>1, <1>2 DEF Emitted, ZipOver
  <2> QED
    BY <2>1, <2>2, <2>3
<1>5. Entry(file + 1, 0) = <<<<file + 1, 0>>>>
  <2>1. 0 \in 0 .. MaxLen
    BY PackagingAssumption
  <2> QED
    BY <1>3, <2>1, EntryTyped
<1> QED
  BY <1>4, <1>5

LEMMA CopyUnitEmits ==
  PackagingInv /\ Control /\ CopyUnit => Emitted' = Emitted \o <<<<file, unit + 1>>>>
<1> SUFFICES ASSUME PackagingInv, Control, CopyUnit
             PROVE  Emitted' = Emitted \o <<<<file, unit + 1>>>>
  OBVIOUS
<1>1. /\ sizes' = sizes /\ zip = "copy" /\ zip' = "copy" /\ file' = file /\ unit' = unit + 1
      /\ unit < sizes[file] /\ call = "running" /\ Uploaded
  BY DEF CopyUnit, Writing, PackagingInv
<1>2. (One' <=> One) /\ Entries' = Entries
  BY <1>1, SameFiles
<1>3. /\ unit \in 0 .. MaxLen /\ file \in 1 .. Len(sizes) /\ file \in 1 .. MaxFiles
  BY <1>1, Sizes, PackagingAssumption DEF PackagingInv, TypeOK, Copying
<1>4. CASE One
  <2>1. file = 1 /\ Emitted = Bytes(unit) /\ Emitted' = Bytes(unit + 1)
    BY <1>1, <1>2, <1>4 DEF Control, Emitted
  <2> QED
    BY <1>3, <2>1, BytesTyped
<1>5. CASE ~One
  <2>1. /\ Emitted = Entries[file - 1] \o Entry(file, unit)
        /\ Emitted' = Entries[file - 1] \o Entry(file, unit + 1)
    BY <1>1, <1>2, <1>5 DEF Emitted, ZipOver
  <2>2. Entry(file, unit + 1) = Entry(file, unit) \o <<<<file, unit + 1>>>>
    BY <1>3, EntryTyped
  <2>3. <<file, unit + 1>> \in Units
    <3>1. sizes[file] \in 0 .. MaxLen
      BY <1>1, <1>3, Sizes
    <3> QED
      BY <1>1, <1>3, <3>1, PackagingAssumption DEF Units
  <2>4. Entries[file - 1] \in Seq(Units) /\ Entry(file, unit) \in Seq(Units)
    <3>1. file - 1 \in 0 .. Len(sizes)
      BY <1>3
    <3> QED
      BY <1>1, <1>3, <3>1, EntryTyped, EntriesDef
  <2>5. <<<<file, unit + 1>>>> \in Seq(Units)
    BY <2>3
  <2>6. (Entries[file - 1] \o Entry(file, unit)) \o <<<<file, unit + 1>>>>
          = Entries[file - 1] \o (Entry(file, unit) \o <<<<file, unit + 1>>>>)
    <3> DEFINE a == Entries[file - 1]
               b == Entry(file, unit)
               c == <<<<file, unit + 1>>>>
    <3>1. a \in Seq(Units) /\ b \in Seq(Units) /\ c \in Seq(Units)
      BY <2>4, <2>5
    <3> HIDE DEF a, b, c
    <3>2. (a \o b) \o c = a \o (b \o c)
      BY <3>1, ConcatAssociative
    <3> QED
      BY <3>2 DEF a, b, c
  <2> QED
    BY <2>1, <2>2, <2>6, Zenon
<1> QED
  BY <1>4, <1>5

LEMMA CopyEndEmits == PackagingInv /\ Control /\ CopyEnd => Emitted' = Emitted
<1> SUFFICES ASSUME PackagingInv, Control, CopyEnd PROVE Emitted' = Emitted
  OBVIOUS
<1>1. /\ sizes' = sizes /\ zip = "copy" /\ file' = file /\ unit' = unit /\ Uploaded
      /\ unit = sizes[file] /\ (zip' = IF One THEN "flushed" ELSE "open")
  BY DEF CopyEnd, PackagingInv
<1>2. (One' <=> One) /\ Entries' = Entries
  BY <1>1, SameFiles
<1>3. file \in 1 .. Len(sizes)
  BY <1>1 DEF PackagingInv, Copying
<1>4. CASE One
  BY <1>1, <1>2, <1>4 DEF Emitted, Bytes
<1>5. CASE ~One
  <2>1. /\ Emitted = Entries[file - 1] \o Entry(file, unit)
        /\ Emitted' = Entries[file]
    BY <1>1, <1>2, <1>5 DEF Emitted, ZipOver
  <2> QED
    BY <1>1, <1>3, <2>1, EntriesDef
<1> QED
  BY <1>4, <1>5

LEMMA ZipCloseEmits ==
  PackagingInv /\ Control /\ ZipClose => Emitted' = Emitted \o <<<<0, 0>>>>
<1> SUFFICES ASSUME PackagingInv, Control, ZipClose PROVE Emitted' = Emitted \o <<<<0, 0>>>>
  OBVIOUS
<1>1. sizes' = sizes /\ zip = "open" /\ zip' = "flushed" /\ file = Len(sizes)
  BY DEF ZipClose
<1>2. ~One /\ ~One' /\ Stream' = Stream
  BY <1>1, SameFiles DEF Control
<1> QED
  BY <1>1, <1>2 DEF Emitted, ZipOver, Stream

\* A finished zip side stays finished.
LEMMA StillEmitted ==
  ASSUME sizes' = sizes, unit' = unit, file' = file, zip' = zip \/ (ZipOver /\ ZipOver')
  PROVE  Emitted' = Emitted
<1>1. (One' <=> One) /\ Entries' = Entries /\ Stream' = Stream
  BY SameFiles
<1> QED
  BY <1>1 DEF Emitted, ZipOver, Bytes, Entry

\* A Put moves the new unit to the artefact or into the pipe, behind all others.
LEMMA PutWritten ==
  ASSUME PackagingInv, Control, Written, NEW u \in Units, Put(u), Writing,
         UNCHANGED <<sizes, key, encVars>>, zipErr' = zipErr, Emitted' = Emitted \o <<u>>,
         enc \notin {"size", "done"} \/ encErr, ~(key /\ One)
  PROVE  Written'
<1> USE DEF encVars
<1>1. (One' <=> One) /\ (Piped' <=> Piped)
  BY DEF One, Piped
<1>2. CASE ~key
  <2>1. out'.cells = Append(out.cells, u)
    <3>1. out' = [out EXCEPT !.cells = Append(@, u)]
      BY <1>2 DEF Put, Piped
    <3>2. out = [size |-> out.size, cells |-> out.cells]
      BY DEF PackagingInv, PatchedLast
    <3> QED
      BY <3>1, <3>2, Zenon
  <2>2. ASSUME ~zipErr PROVE Append(out.cells, u) = Emitted \o <<u>>
    <3>1. out.cells = Emitted /\ Emitted \in Seq(Units)
      BY <1>2, <2>2, EmittedTyped DEF Written
    <3> QED
      BY <3>1, AppendIsConcat
  <2> QED
    BY <1>2, <2>1, <2>2 DEF Written
<1>3. CASE key /\ ~zipErr /\ ~encErr
  <2>1. offer = <<>> /\ offer' = <<u>> /\ out' = out
    BY <1>3 DEF Put, Piped, Writing
  <2>2. out.cells \in Seq(Cells(Units))
    BY <1>3 DEF Written
  <2>3. PICK text \in Seq(Units) : Encrypting(text)
    BY <1>3 DEF Written
  <2>4. (text \o buf) \o <<>> = text \o buf
    <3>1. text \o buf \in Seq(Units)
      BY ConcatProperties DEF PackagingInv, Buffers
    <3> QED
      BY <3>1, ConcatEmptySeq
  <2>5. Emitted' = (text \o buf) \o offer'
    BY <2>1, <2>3, <2>4 DEF Encrypting
  <2>6. enc \notin {"size", "done"}
    BY <1>3
  <2>7. Encrypting(text)'
    <3>1. /\ Len(text) = total'
          /\ enc' \in {"header", "fill"} => total' = index' * ChunkSize
          /\ enc' = "header" => index' = 0 /\ buf' = <<>>
          /\ enc' # "header" => Sealed(out'.cells, text, index')
      BY <2>1, <2>3 DEF Encrypting
    <3> QED
      BY <2>5, <2>6, <3>1 DEF Encrypting
  <2> QED
    BY <2>1, <2>2, <2>7, <1>3 DEF Written
<1> QED
  BY <1>2, <1>3 DEF Written

\* Steps that only move buildZip's control.
LEMMA MovesWritten ==
  ASSUME PackagingInv, Control, Written, UNCHANGED <<sizes, key, offer, encVars, out>>,
         zipErr' \/ (zipErr' = zipErr /\ Emitted' = Emitted),
         SourceEnd => SourceEnd'
  PROVE  Written'
<1> USE DEF encVars
<1>1. CASE zipErr'
  BY <1>1 DEF Written
<1>2. CASE ~zipErr' /\ ~key
  BY <1>2 DEF Written
<1>3. CASE ~zipErr' /\ ~encErr /\ key
  <2>1. PICK text \in Seq(Units) : Encrypting(text)
    BY <1>3 DEF Written
  <2>2. Encrypting(text)'
    BY <1>3, <2>1 DEF Encrypting
  <2> QED
    BY <1>3, <2>2 DEF Written
<1> QED
  BY <1>1, <1>2, <1>3 DEF Written

\* Begin starts from an empty artefact.
LEMMA BeginWritten == PackagingInv /\ Control /\ Begin => Written'
<1> SUFFICES ASSUME PackagingInv, Control, Begin PROVE Written'
  OBVIOUS
<1>1. /\ sizes' = sizes /\ unit' = 0 /\ zipErr' = FALSE /\ offer' = <<>> /\ buf' = <<>>
      /\ index' = 0 /\ total' = 0 /\ encErr' = FALSE /\ out' = NoFile
      /\ file' = (IF One THEN 1 ELSE 0) /\ Uploaded
      /\ zip' = IF One THEN IF key' THEN "off" ELSE "copy" ELSE "open"
      /\ enc' = IF key' THEN "header" ELSE "off"
  BY DEF Begin, PackagingInv
<1>2. (One' <=> One) /\ Entries' = Entries
  BY <1>1, SameFiles
<1>3. Emitted' = <<>>
  <2>1. CASE One
    BY <1>1, <1>2, <2>1 DEF Emitted, Bytes
  <2>2. CASE ~One
    BY <1>1, <1>2, <2>2, EntriesDef DEF Emitted, ZipOver
  <2> QED
    BY <2>1, <2>2
<1>4. /\ out'.cells = <<>> /\ <<>> \in Seq(Units) /\ <<>> \in Seq(Cells(Units))
      /\ <<>> = (<<>> \o <<>>) \o <<>>
  BY <1>1 DEF NoFile
<1>5. key' => Encrypting(<<>>)'
  <2> SUFFICES ASSUME key' PROVE Encrypting(<<>>)'
    OBVIOUS
  <2>1. 0 = 0 * ChunkSize
    BY FormatAssumption
  <2> QED
    BY <1>1, <1>3, <1>4, <2>1 DEF Encrypting
<1> QED
  BY <1>3, <1>4, <1>5 DEF Written

LEMMA HeaderWritten == PackagingInv /\ Control /\ Written /\ EncHeader => Written'
<1> SUFFICES ASSUME PackagingInv, Control, Written, EncHeader PROVE Written'
  OBVIOUS
<1>1. /\ UNCHANGED <<sizes, key, zip, file, unit, zipErr, offer, buf, index, total, encErr>>
      /\ enc = "header" /\ enc' = "fill" /\ out' = WithHeader
  BY DEF EncHeader, zipVars
<1>2. key /\ Emitted' = Emitted
  BY <1>1, StillEmitted DEF Control
<1>3. ASSUME ~zipErr, ~encErr
      PROVE  out'.cells \in Seq(Cells(Units)) /\ \E text \in Seq(Units) : Encrypting(text)'
  <2>1. PICK text \in Seq(Units) : Encrypting(text)
    BY <1>2, <1>3 DEF Written
  <2>2. index = 0 /\ text = <<>>
    BY <1>1, <2>1, FormatAssumption DEF Encrypting
  <2>3. out'.cells \in Seq(Cells(Units)) /\ Sealed(out'.cells, text, index')
    BY <1>1, <2>2, HeaderSealed
  <2>4. Encrypting(text)'
    BY <1>1, <1>2, <2>1, <2>3 DEF Encrypting
  <2> QED
    BY <2>3, <2>4
<1> QED
  BY <1>1, <1>2, <1>3 DEF Written

\* Encrypt moves units from the pipe, or the file, to its buffer.
LEMMA FillWritten == PackagingInv /\ Control /\ Written /\ EncFill => Written'
<1> SUFFICES ASSUME PackagingInv, Control, Written, EncFill PROVE Written'
  OBVIOUS
<1>1. /\ UNCHANGED <<sizes, key, zip, file, zipErr, enc, index, total, encErr, out>>
      /\ enc = "fill" /\ Uploaded
  BY DEF EncFill, PackagingInv
<1>2. key /\ (One' <=> One)
  BY <1>1, SameFiles DEF Control
<1>3. ASSUME ~zipErr, ~encErr PROVE \E text \in Seq(Units) : Encrypting(text)'
  <2>1. PICK text \in Seq(Units) : Encrypting(text)
    BY <1>2, <1>3 DEF Written
  <2>2. Emitted' = (text \o buf') \o offer'
    <3>1. Emitted = (text \o buf) \o offer /\ buf \in Seq(Units)
      BY <2>1 DEF Encrypting, PackagingInv, Buffers
    <3>2. CASE Piped
      <4>1. unit' = unit /\ buf' = buf \o offer /\ offer' = <<>>
        BY <3>2 DEF EncFill
      <4>2. Emitted' = Emitted
        BY <1>1, <4>1, StillEmitted
      <4>3. offer \in Seq(Units)
        <5>1. offer \in {<<>>} \cup {<<u>> : u \in Units}
          BY DEF PackagingInv, Buffers
        <5>2. <<>> \in Seq(Units) /\ \A u \in Units : <<u>> \in Seq(Units)
          OBVIOUS
        <5> QED
          BY <5>1, <5>2
      <4>4. (text \o buf) \o offer = text \o (buf \o offer)
        BY <3>1, <4>3, ConcatAssociative
      <4>5. text \o (buf \o offer) \in Seq(Units)
        BY <3>1, <4>3, ConcatProperties
      <4> QED
        BY <3>1, <4>1, <4>2, <4>4, <4>5, ConcatEmptySeq
    <3>3. CASE ~Piped
      <4>1. One /\ unit < sizes[1] /\ unit' = unit + 1 /\ offer' = offer /\ offer = <<>>
            /\ buf' = Append(buf, <<1, unit + 1>>)
        BY <1>2, <3>3 DEF EncFill, Piped, Control
      <4>2. unit \in 0 .. MaxLen /\ <<1, unit + 1>> \in Units
        <5>1. sizes[1] \in 0 .. MaxLen /\ unit \in 0 .. MaxLen
          BY <1>1, Sizes, PackagingAssumption DEF PackagingInv, TypeOK
        <5> QED
          BY <4>1, <5>1, PackagingAssumption DEF Units
      <4> DEFINE w == <<<<1, unit + 1>>>>
      <4>3. w \in Seq(Units) /\ buf' = buf \o w
        <5>1. w \in Seq(Units)
          BY <4>2
        <5>2. Append(buf, <<1, unit + 1>>) = buf \o w
          BY <3>1, <4>2, AppendIsConcat
        <5> QED
          BY <4>1, <5>1, <5>2
      <4>4. Emitted' = Emitted \o w
        <5>1. Emitted = Bytes(unit) /\ Emitted' = Bytes(unit + 1)
          BY <1>2, <4>1 DEF Emitted
        <5> QED
          BY <4>2, <5>1, BytesTyped
      <4> HIDE DEF w
      <4>5. /\ text \o buf \in Seq(Units) /\ (text \o buf) \o w = text \o (buf \o w)
            /\ text \o (buf \o w) \in Seq(Units)
        <5>1. buf \in Seq(Units) /\ text \in Seq(Units) /\ w \in Seq(Units)
          BY <3>1, <4>3
        <5>2. text \o buf \in Seq(Units) /\ buf \o w \in Seq(Units)
          BY <5>1, ConcatProperties
        <5>3. text \o (buf \o w) \in Seq(Units)
          BY <5>1, <5>2, ConcatProperties
        <5>4. (text \o buf) \o w = text \o (buf \o w)
          BY <5>1, ConcatAssociative
        <5> QED
          BY <5>2, <5>3, <5>4
      <4> QED
        BY <3>1, <4>1, <4>3, <4>4, <4>5, ConcatEmptySeq
    <3> QED
      BY <3>2, <3>3
  <2>3. Encrypting(text)'
    BY <1>1, <2>1, <2>2 DEF Encrypting
  <2> QED
    BY <2>3
<1> QED
  BY <1>1, <1>2, <1>3 DEF Written

\* Sealing moves the buffer into the text on disk, as its next chunk.
LEMMA SealWritten == PackagingInv /\ Control /\ Written /\ EncSeal => Written'
<1> SUFFICES ASSUME PackagingInv, Control, Written, EncSeal PROVE Written'
  OBVIOUS
<1> DEFINE seal == Seal(nonceFor(index), buf)
<1>1. /\ UNCHANGED <<sizes, key, zip, file, unit, zipErr, offer, encErr>>
      /\ enc = "fill" /\ buf # <<>> /\ (Len(buf) = ChunkSize \/ SourceEnd)
      /\ total' = total + Len(buf) /\ index' = index + 1 /\ buf' = <<>>
      /\ enc' = (IF Len(buf) = ChunkSize THEN "fill" ELSE "size")
      /\ out' = [out EXCEPT !.cells = @ \o seal]
  BY DEF EncSeal, zipVars
<1>2. key /\ Emitted' = Emitted /\ (SourceEnd' <=> SourceEnd)
  <2>1. (One' <=> One)
    BY <1>1, SameFiles
  <2>2. SourceEnd' <=> SourceEnd
    BY <1>1, <2>1 DEF SourceEnd, Piped
  <2> QED
    BY <1>1, <2>2, StillEmitted DEF Control
<1>3. out'.cells = out.cells \o seal
  <2>1. out = [size |-> out.size, cells |-> out.cells]
    BY DEF PackagingInv, PatchedLast
  <2> QED
    BY <1>1, <2>1, Zenon
<1>4. /\ buf \in Seq(Units) /\ Len(buf) \in Nat /\ Len(buf) > 0 /\ Len(buf) <= ChunkSize
      /\ index \in Nat /\ ChunkSize \in Nat
  <2>1. buf \in Seq(Units) /\ Len(buf) <= ChunkSize /\ index \in Nat
    BY DEF PackagingInv, TypeOK, Buffers
  <2> QED
    BY <1>1, <2>1, FormatAssumption
<1>5. ASSUME ~zipErr, ~encErr
      PROVE  out'.cells \in Seq(Cells(Units)) /\ \E text \in Seq(Units) : Encrypting(text)'
  <2>1. PICK text \in Seq(Units) : Encrypting(text)
    BY <1>2, <1>5 DEF Written
  <2> DEFINE ic == index * ChunkSize
  <2>0. PICK whole \in Seq(Units) : whole = text \o buf
    BY <1>4, ConcatProperties
  <2>2. out.cells \in Seq(Cells(Units))
    BY <1>2, <1>5 DEF Written
  <2>3. Len(text) = ic /\ Sealed(out.cells, text, index) /\ total = ic
        /\ Emitted = (text \o buf) \o offer
    BY <1>1, <2>1 DEF Encrypting
  <2>4. /\ out.cells \o seal \in Seq(Cells(Units))
        /\ Sealed(out.cells \o seal, whole, index + 1)
    BY <1>4, <2>0, <2>2, <2>3, SealExtends
  <2>5. Len(whole) = Len(text) + Len(buf) /\ whole \o <<>> = whole
    BY <1>4, <2>0, ConcatProperties, ConcatEmptySeq
  <2>6. (index + 1) * ChunkSize = ic + ChunkSize /\ ic \in Nat
    BY <1>4, Products
  <2>7. Len(whole) = total' /\ Emitted' = (whole \o buf') \o offer'
    BY <1>1, <1>2, <2>0, <2>3, <2>5
  <2>8. /\ enc' = "fill" => total' = index' * ChunkSize
        /\ enc' # "fill" => total' <= index' * ChunkSize
                           /\ index' * ChunkSize < total' + ChunkSize
    <3>1. total' = ic + Len(buf) /\ index' * ChunkSize = ic + ChunkSize
      BY <1>1, <2>3, <2>6
    <3>2. enc' = "fill" <=> Len(buf) = ChunkSize
      BY <1>1
    <3> HIDE DEF ic
    <3> QED
      BY <1>4, <2>6, <3>1, <3>2
  <2>9. enc' # "fill" => enc' = "size" /\ SourceEnd'
    BY <1>1, <1>2
  <2> HIDE DEF ic
  <2>10. Encrypting(whole)'
    <3>1. Sealed(out'.cells, whole, index')
      BY <1>1, <1>3, <2>4
    <3>2. enc' \in {"fill", "size"}
      BY <1>1
    <3> QED
      BY <1>1, <2>7, <2>8, <2>9, <3>1, <3>2 DEF Encrypting
  <2> QED
    BY <1>3, <2>4, <2>5, <2>10
<1> QED
  BY <1>1, <1>2, <1>5 DEF Written

\* At the end of the source nothing is left in pipe or buffer.
LEMMA EndWritten == PackagingInv /\ Control /\ Written /\ (EncEnd \/ EncSize) => Written'
<1> SUFFICES ASSUME PackagingInv, Control, Written, EncEnd \/ EncSize PROVE Written'
  OBVIOUS
<1>1. /\ UNCHANGED <<sizes, key, zip, file, unit, zipErr, offer, buf, index, total, encErr>>
      /\ out = [size |-> out.size, cells |-> out.cells]
      /\ \/ enc = "fill" /\ buf = <<>> /\ SourceEnd /\ enc' = "size" /\ out' = out
         \/ enc = "size" /\ enc' = "done" /\ out' = [out EXCEPT !.size = total]
  BY DEF EncEnd, EncSize, zipVars, PackagingInv, PatchedLast
<1>2. /\ out'.cells = out.cells /\ (enc' = "done" => out'.size = total)
      /\ (enc = "fill" /\ enc' = "size") \/ (enc = "size" /\ enc' = "done")
  <2>0. out = [size |-> out.size, cells |-> out.cells]
    BY <1>1
  <2>1. [out EXCEPT !.size = total] = [size |-> total, cells |-> out.cells]
    BY <2>0
  <2> QED
    BY <1>1, <2>1
<1>3. key /\ Emitted' = Emitted /\ (SourceEnd' <=> SourceEnd)
  <2>1. (One' <=> One)
    BY <1>1, SameFiles
  <2>2. SourceEnd' <=> SourceEnd
    BY <1>1, <2>1 DEF SourceEnd, Piped
  <2> QED
    BY <1>1, <2>2, StillEmitted DEF Control
<1>4. ASSUME ~zipErr, ~encErr PROVE \E text \in Seq(Units) : Encrypting(text)'
  <2>1. PICK text \in Seq(Units) : Encrypting(text)
    BY <1>3, <1>4 DEF Written
  <2>2. /\ total <= index * ChunkSize /\ index * ChunkSize < total + ChunkSize
        /\ buf = <<>> /\ SourceEnd
    <3>1. CASE enc = "fill"
      <4>1. total = index * ChunkSize /\ total \in Nat
        BY <2>1, <3>1 DEF Encrypting, PackagingInv, TypeOK
      <4> QED
        BY <1>1, <3>1, <4>1, FormatAssumption
    <3>2. CASE enc = "size"
      BY <2>1, <3>2 DEF Encrypting
    <3> QED
      BY <1>2, <3>1, <3>2
  <2>3. Sealed(out'.cells, text, index')
    BY <1>1, <1>2, <2>1 DEF Encrypting
  <2>4. Emitted' = (text \o buf') \o offer' /\ Len(text) = total'
    BY <1>1, <1>3, <2>1 DEF Encrypting
  <2>5. Encrypting(text)'
    BY <1>1, <1>2, <1>3, <2>2, <2>3, <2>4 DEF Encrypting
  <2> QED
    BY <2>5
<1> QED
  BY <1>1, <1>2, <1>3, <1>4 DEF Written

LEMMA WrittenInit == Init => Written
<1> SUFFICES ASSUME Init PROVE Written
  OBVIOUS
<1>1. key = FALSE /\ zip = "off" /\ unit = 0 /\ file = 0 /\ out.cells = <<>> /\ Uploaded
  BY DEF Init, NoFile, Uploaded
<1>2. Emitted = <<>>
  <2>1. CASE One
    BY <1>1, <2>1 DEF Emitted, Bytes
  <2>2. CASE ~One
    BY <1>1, <2>2, EntriesDef DEF Emitted, ZipOver
  <2> QED
    BY <2>1, <2>2
<1> QED
  BY <1>1, <1>2 DEF Written

\* Every step keeps the artefact, the buffer and the pipe in line with Emitted.
LEMMA WrittenStep == PackagingInv /\ Control /\ Written /\ [Next]_vars => Written'
<1> SUFFICES ASSUME PackagingInv, Control, Written, [Next]_vars PROVE Written'
  OBVIOUS
<1>1. CASE ZipEntry \/ CopyUnit \/ ZipClose
  <2>1. /\ UNCHANGED <<sizes, key, encVars>> /\ zipErr' = zipErr /\ Writing
        /\ zip \in {"open", "copy"} /\ call = "running"
    BY <1>1 DEF ZipEntry, CopyUnit, ZipClose, Writing
  <2>2. ~(key /\ One) /\ (enc \notin {"size", "done"} \/ encErr)
    <3>1. ~(key /\ One)
      BY <2>1 DEF Control
    <3>2. ASSUME enc \in {"size", "done"}, ~encErr PROVE FALSE
      <4>1. key /\ ~zipErr
        BY <2>1, <3>2 DEF Control
      <4>2. PICK text \in Seq(Units) : Encrypting(text)
        BY <3>2, <4>1 DEF Written
      <4>3. zip = "closed"
        BY <3>1, <3>2, <4>1, <4>2 DEF Encrypting, SourceEnd, Piped
      <4> QED
        BY <2>1, <4>3
    <3> QED
      BY <3>1, <3>2
  <2>3. Uploaded /\ Len(sizes) \in 1 .. MaxFiles
    BY Sizes DEF PackagingInv
  <2>4. CASE ZipEntry
    <3>1. Put(<<file + 1, 0>>) /\ <<file + 1, 0>> \in Units
      BY <2>3, <2>4, PackagingAssumption DEF ZipEntry, PackagingInv, TypeOK, Units
    <3> QED
      BY <2>1, <2>2, <2>4, <3>1, ZipEntryEmits, PutWritten
  <2>5. CASE CopyUnit
    <3>1. Put(<<file, unit + 1>>) /\ <<file, unit + 1>> \in Units
      <4>1. file \in 1 .. Len(sizes) /\ unit < sizes[file] /\ unit \in 0 .. MaxLen
        BY <2>5, PackagingAssumption DEF CopyUnit, PackagingInv, TypeOK, Copying
      <4>2. sizes[file] \in 0 .. MaxLen
        BY <2>3, <4>1, Sizes
      <4> QED
        BY <2>3, <2>5, <4>1, <4>2, PackagingAssumption DEF CopyUnit, Units
    <3> QED
      BY <2>1, <2>2, <2>5, <3>1, CopyUnitEmits, PutWritten
  <2>6. CASE ZipClose
    <3>1. Put(<<0, 0>>) /\ <<0, 0>> \in Units
      BY <2>6, PackagingAssumption DEF ZipClose, Units
    <3> QED
      BY <2>1, <2>2, <2>6, <3>1, ZipCloseEmits, PutWritten
  <2> QED
    BY <1>1, <2>4, <2>5, <2>6
<1>2. CASE CopyEnd
  <2>1. /\ UNCHANGED <<sizes, key, offer, encVars, out>> /\ zipErr' = zipErr
        /\ zip = "copy" /\ zip' # "off"
    BY <1>2 DEF CopyEnd
  <2>2. SourceEnd => SourceEnd'
    <3>1. SourceEnd => ~Piped /\ unit = sizes[1] /\ unit' = unit
      BY <1>2, <2>1 DEF SourceEnd, CopyEnd
    <3> QED
      BY <2>1, <3>1, SameFiles DEF SourceEnd, Piped
  <2> QED
    BY <1>2, <2>1, <2>2, CopyEndEmits, MovesWritten
<1>3. CASE ZipDone \/ ZipFails \/ PipeClose
  <2>1. /\ UNCHANGED <<sizes, key, unit, file, offer, encVars, out>>
        /\ zip' \in {"sent", "closed"}
        /\ zip = "closed" => zip' = "closed"
    BY <1>3 DEF ZipDone, ZipFails, PipeClose, ZipReturns, ClosePipe
  <2>2. SourceEnd => SourceEnd'
    BY <2>1, SameFiles DEF SourceEnd, Piped
  <2>3. zipErr' \/ (zipErr' = zipErr /\ ZipOver)
    <3>1. CASE ZipFails
      BY <3>1 DEF ZipFails, ZipReturns
    <3>2. CASE PipeClose
      BY <3>2 DEF PipeClose, ClosePipe, ZipOver
    <3>3. CASE ZipDone
      <4>1. zip = "flushed" /\ zipErr' = FALSE /\ zipErr \in BOOLEAN
        BY <3>3 DEF ZipDone, ZipReturns, PackagingInv, TypeOK
      <4> QED
        BY <4>1 DEF Control, ZipOver
    <3> QED
      BY <1>3, <3>1, <3>2, <3>3
  <2>4. ZipOver => Emitted' = Emitted
    <3>1. ZipOver'
      BY <2>1 DEF ZipOver
    <3> QED
      BY <2>1, <3>1, StillEmitted
  <2> QED
    BY <2>1, <2>2, <2>3, <2>4, MovesWritten
<1>4. CASE EncFails
  <2>1. encErr' = TRUE /\ key' = key /\ enc # "off"
    BY <1>4 DEF EncFails
  <2>2. key
    BY <2>1 DEF Control
  <2> QED
    BY <2>1, <2>2 DEF Written
<1>5. CASE CallerReturns \/ UNCHANGED vars \/ \E h \in Ranges : Download(h)
  <2>1. UNCHANGED <<sizes, key, zip, unit, file, zipErr, offer, encVars, out>>
    BY <1>5 DEF CallerReturns, vars, zipVars, Download
  <2>2. Emitted' = Emitted /\ (SourceEnd => SourceEnd')
    BY <2>1, SameFiles, StillEmitted DEF SourceEnd, Piped
  <2> QED
    BY <2>1, <2>2, MovesWritten
<1> QED
  BY <1>1, <1>2, <1>3, <1>4, <1>5,
     BeginWritten, HeaderWritten, FillWritten, SealWritten, EndWritten
  DEF Next, ZipStep, EncStep

WholeInv == PackagingInv /\ Control /\ Written

LEMMA WholeInvariant == Spec => []WholeInv
  BY PackagingInit, ControlInit, WrittenInit, PackagingStep, ControlStep, WrittenStep, PTL
  DEF Spec, WholeInv

\* What is on the disk when writeFinalArtifact has reported success.
LEMMA Finished ==
  ASSUME WholeInv, call = "ok"
  PROVE  /\ Stream \in Seq(Units)
         /\ ~key => out.cells = Stream
         /\ key => out.cells \in Seq(Cells(Units)) /\ Holds(out, Stream, index)
<1>1. /\ PackagingInv /\ Control /\ Written /\ Uploaded /\ ~zipErr /\ ~encErr
      /\ (key => enc = "done") /\ (~key => zip = "closed")
  BY DEF WholeInv, Control, PackagingInv
<1>2. Stream \in Seq(Units) /\ sizes[1] \in 0 .. MaxLen
  BY <1>1, StreamTyped, Sizes, PackagingAssumption
<1>3. CASE ~key
  <2>1. out.cells = Emitted /\ ZipOver
    BY <1>1, <1>3 DEF Written, ZipOver
  <2>2. Emitted = Stream
    BY <1>1, <2>1 DEF Emitted, Control, Stream
  <2> QED
    BY <1>2, <1>3, <2>1, <2>2
<1>4. CASE key
  <2>1. PICK text \in Seq(Units) : Encrypting(text)
    BY <1>1, <1>4 DEF Written
  <2>2. /\ Emitted = (text \o buf) \o offer /\ buf = <<>> /\ SourceEnd /\ enc = "done"
        /\ Len(text) = total /\ Sealed(out.cells, text, index) /\ out.size = total
        /\ total <= index * ChunkSize /\ index * ChunkSize < total + ChunkSize
    BY <1>1, <1>4, <2>1 DEF Encrypting
  <2>3. offer = <<>> /\ Emitted = Stream
    <3>1. CASE One
      <4>1. unit = sizes[1] /\ offer = <<>>
        BY <1>1, <2>2, <3>1 DEF SourceEnd, Piped, Control
      <4> QED
        BY <3>1, <4>1 DEF Emitted, Stream
    <3>2. CASE ~One
      <4>1. zip = "closed"
        BY <1>4, <2>2, <3>2 DEF SourceEnd, Piped
      <4> QED
        BY <1>1, <3>2, <4>1 DEF Emitted, ZipOver, Control
    <3> QED
      BY <3>1, <3>2
  <2>4. text = Stream
    BY <2>2, <2>3, ConcatEmptySeq
  <2>5. Holds(out, Stream, index)
    BY <1>1, <2>2, <2>4 DEF Holds, PackagingInv, TypeOK
  <2> QED
    BY <1>1, <1>2, <1>4, <2>5 DEF Written
<1> QED
  BY <1>3, <1>4

LEMMA WholeWhenOk == WholeInv => WholeOrError
<1> SUFFICES ASSUME WholeInv, call = "ok" PROVE Whole = Stream
  BY DEF WholeOrError
<1>1. Stream \in Seq(Units) /\ Len(Stream) \in Nat
  BY Finished
<1>2. CASE ~key
  BY <1>2, Finished DEF Whole
<1>3. CASE key
  <2>1. /\ out.cells \in Seq(Cells(Units)) /\ Holds(out, Stream, index)
        /\ TotalSize(out) = Len(Stream)
    BY <1>3, Finished DEF Holds, TotalSize
  <2>2. CASE Len(Stream) = 0
    BY <1>1, <1>3, <2>1, <2>2, EmptySeq DEF Whole
  <2>3. CASE Len(Stream) # 0
    <3> DEFINE end == Len(Stream) - 1
    <3>1. end \in Nat /\ 0 <= end /\ end < Len(Stream) /\ 0 \in Nat /\ end + 1 = Len(Stream)
      BY <1>1, <2>3
    <3> HIDE DEF end
    <3>2. WriteRange(out, 0, end) = [written |-> SubSeq(Stream, 0 + 1, end + 1), failed |-> FALSE]
      BY <1>1, <2>1, <3>1, RangeRoundTrip
    <3>3. WriteRange(out, 0, end).written = SubSeq(Stream, 1, Len(Stream))
      BY <3>1, <3>2
    <3>4. Whole = WriteRange(out, 0, end).written
      BY <1>3, <2>1, <2>3 DEF Whole, end
    <3> QED
      BY <1>1, <3>3, <3>4, SubSeqFull
  <2> QED
    BY <2>2, <2>3
<1> QED
  BY <1>2, <1>3

\* Whatever is uploaded, however it is cut into chunks and whatever fails, a call
\* that reports success leaves an artefact that decrypts to every byte, in order.
THEOREM ArtefactsAreWhole == Spec => []WholeOrError
  BY WholeInvariant, WholeWhenOk, PTL

\* The interval a header asks for lies in the file, or is empty in an empty one.
LEMMA WantedInside ==
  ASSUME NEW h \in Ranges, NEW size \in Nat, Wanted(h, size).ok
  PROVE  LET w == Wanted(h, size)
         IN  /\ w.start \in Nat /\ w.end \in Int /\ w.end < size
             /\ w.start <= w.end \/ (size = 0 /\ w.start = 0 /\ w.end = -1)
             /\ h.form = "none" => w.start = 0 /\ w.end = size - 1
<1> DEFINE w == Wanted(h, size)
<1>1. h.a \in Nat /\ h.b \in Nat
  BY PackagingAssumption DEF Ranges
<1>2. CASE h.form = "none"
  BY <1>2 DEF Wanted, Accepted
<1>3. CASE h.form # "none"
  <2>1. w = parseRangeHeader(h, size) /\ w # Refused
    BY <1>3 DEF Wanted, Refused
  <2>2. CASE h.form = "suffix" /\ h.b > 0
    BY <1>1, <2>1, <2>2 DEF parseRangeHeader, Accepted, AtMost
  <2>3. CASE h.form = "from" /\ h.a < size
    BY <1>1, <2>1, <2>3 DEF parseRangeHeader, Accepted
  <2>4. CASE h.form = "both" /\ h.a <= h.b /\ h.a < size
    BY <1>1, <2>1, <2>4 DEF parseRangeHeader, Accepted, AtMost
  <2> QED
    BY <2>1, <2>2, <2>3, <2>4 DEF parseRangeHeader
<1> QED
  BY <1>2, <1>3

Exact(r) ==
    r.status \in {200, 206} =>
        /\ r.body = SubSeq(Stream, r.start + 1, r.start + r.length)
        /\ Len(r.body) = r.length
        /\ r.status = 200 => r.body = Stream
        /\ r.complete = ~(key /\ Stream = <<>>)

\* An answer that carries the wanted interval is exact.
LEMMA AnswerExact ==
  ASSUME NEW h \in Ranges, NEW w, Stream \in Seq(Units), w = Wanted(h, Len(Stream)), w.ok,
         NEW failed \in BOOLEAN, NEW body,
         w.start <= w.end => body = SubSeq(Stream, w.start + 1, w.end + 1),
         w.start > w.end => body = <<>>,
         failed <=> (key /\ w.start > w.end)
  PROVE  Exact(Answer(h, w, body, failed))
<1> DEFINE s == w.start
           e == w.end
           len == Len(Stream)
<1>1. /\ s \in Nat /\ e \in Int /\ e < len /\ len \in Nat
      /\ s <= e \/ (len = 0 /\ s = 0 /\ e = -1)
      /\ h.form = "none" => s = 0 /\ e = len - 1
  BY WantedInside
<1>2. /\ Answer(h, w, body, failed).start = s /\ Answer(h, w, body, failed).length = e - s + 1
      /\ Answer(h, w, body, failed).body = body
      /\ Answer(h, w, body, failed).complete = ~failed
      /\ Answer(h, w, body, failed).status = IF h.form = "none" THEN 200 ELSE 206
  BY DEF Answer
<1>3. CASE s <= e
  <2>1. /\ Stream # <<>> /\ ~failed /\ s + (e - s + 1) = e + 1
        /\ h.form = "none" => s + 1 = 1 /\ e + 1 = len
    BY <1>1, <1>3
  <2>2. body = SubSeq(Stream, s + 1, e + 1) /\ Len(body) = e - s + 1
    BY <1>1, <1>3
  <2>3. h.form = "none" => body = Stream
    BY <2>1, <2>2, SubSeqFull
  <2> DEFINE r == Answer(h, w, body, failed)
  <2>4. /\ r.start = s /\ r.length = e - s + 1 /\ r.body = body /\ r.complete = ~failed
        /\ r.status = 200 => h.form = "none"
    BY <1>2
  <2> HIDE DEF r, s, e
  <2>5. r.start + 1 = s + 1 /\ r.start + r.length = e + 1
    BY <2>1, <2>4
  <2>6. r.body = SubSeq(Stream, r.start + 1, r.start + r.length)
    BY <2>2, <2>4, <2>5
  <2>7. Len(r.body) = r.length /\ (r.status = 200 => r.body = Stream)
    BY <2>2, <2>3, <2>4
  <2>8. r.complete = ~(key /\ Stream = <<>>)
    BY <2>1, <2>4
  <2>9. Exact(r)
    BY <2>6, <2>7, <2>8, Zenon DEF Exact
  <2> QED
    BY <2>9 DEF r
<1>4. CASE ~(s <= e)
  <2>1. len = 0 /\ s = 0 /\ e = -1 /\ Stream = <<>> /\ body = <<>>
    BY <1>1, <1>4
  <2>2. failed <=> key
    BY <1>1, <1>4
  <2>3. SubSeq(Stream, s + 1, s + (e - s + 1)) = <<>> /\ Len(body) = e - s + 1
    BY <2>1
  <2> QED
    BY <1>2, <2>1, <2>2, <2>3 DEF Exact
<1> QED
  BY <1>3, <1>4

\* Both readers give an exact answer from a finished artefact.
LEMMA DownloadExact ==
  ASSUME WholeInv, call = "ok", NEW h \in Ranges
  PROVE  Exact(IF key THEN streamEncryptedFile(h) ELSE streamPlainFile(h))
<1> DEFINE w == Wanted(h, Len(Stream))
<1>1. Stream \in Seq(Units) /\ Len(Stream) \in Nat
  BY Finished
<1>2. Exact(NotSatisfiable)
  BY DEF Exact, NotSatisfiable, NoReply
<1>3. CASE ~key
  <2>1. out.cells = Stream
    BY <1>3, Finished
  <2>2. CASE w.ok
    <3>1. streamPlainFile(h) = Answer(h, w, SubSeq(Stream, w.start + 1, w.end + 1), FALSE)
      BY <2>1, <2>2 DEF streamPlainFile
    <3>2. w.start > w.end => SubSeq(Stream, w.start + 1, w.end + 1) = <<>>
      BY <1>1, <2>2, WantedInside
    <3> HIDE DEF w
    <3>3. Exact(Answer(h, w, SubSeq(Stream, w.start + 1, w.end + 1), FALSE))
      BY <1>1, <1>3, <2>2, <3>2, AnswerExact DEF w
    <3> QED
      BY <1>3, <3>1, <3>3
  <2>3. CASE ~w.ok
    BY <1>2, <1>3, <2>1, <2>3 DEF streamPlainFile
  <2> QED
    BY <2>2, <2>3
<1>4. CASE key
  <2>1. /\ out.cells \in Seq(Cells(Units)) /\ Holds(out, Stream, index)
        /\ TotalSize(out) = Len(Stream) /\ out.size = Len(Stream)
    BY <1>4, Finished DEF Holds, TotalSize
  <2>2. CASE w.ok
    <3> DEFINE r == WriteRange(out, w.start, w.end)
    <3>1. streamEncryptedFile(h) = Answer(h, w, r.written, r.failed)
      BY <2>1, <2>2 DEF streamEncryptedFile
    <3>2. /\ w.start \in Nat /\ w.end \in Int /\ w.end < Len(Stream)
          /\ w.start <= w.end \/ (Len(Stream) = 0 /\ w.start = 0 /\ w.end = -1)
      BY <1>1, <2>2, WantedInside
    <3>3. w.start <= w.end =>
            r = [written |-> SubSeq(Stream, w.start + 1, w.end + 1), failed |-> FALSE]
      <4>1. ASSUME NEW s \in Nat, NEW e \in Nat, s <= e, e < Len(Stream)
            PROVE  WriteRange(out, s, e)
                     = [written |-> SubSeq(Stream, s + 1, e + 1), failed |-> FALSE]
        BY <1>1, <2>1, <4>1, RangeRoundTrip
      <4>2. w.start <= w.end => w.start \in Nat /\ w.end \in Nat /\ w.end < Len(Stream)
        BY <3>2
      <4> HIDE DEF w
      <4> QED
        BY <4>1, <4>2
    <3>4. w.start > w.end => r = [written |-> <<>>, failed |-> TRUE]
      BY <2>1, <3>2 DEF WriteRange, ValidRange
    <3> HIDE DEF r
    <3>5. /\ w.start <= w.end => r.written = SubSeq(Stream, w.start + 1, w.end + 1)
          /\ w.start > w.end => r.written = <<>>
          /\ r.failed \in BOOLEAN /\ (r.failed <=> (key /\ w.start > w.end))
      <4> HIDE DEF w
      <4>1. CASE w.start <= w.end
        <5>1. ~(w.start > w.end) /\ r.failed = FALSE
              /\ r.written = SubSeq(Stream, w.start + 1, w.end + 1)
          BY <3>2, <3>3, <4>1
        <5> QED
          BY <5>1, Zenon
      <4>2. CASE w.start > w.end
        <5>1. ~(w.start <= w.end) /\ r.failed = TRUE /\ r.written = <<>>
          BY <3>2, <3>4, <4>2
        <5> QED
          BY <1>4, <4>2, <5>1, Zenon
      <4> QED
        BY <3>2, <4>1, <4>2
    <3> HIDE DEF w
    <3>6. Exact(Answer(h, w, r.written, r.failed))
      BY <1>1, <2>2, <3>5, AnswerExact DEF w
    <3> QED
      BY <1>4, <3>1, <3>6
  <2>3. CASE ~w.ok
    BY <1>2, <1>4, <2>1, <2>3 DEF streamEncryptedFile
  <2> QED
    BY <2>2, <2>3
<1> QED
  BY <1>3, <1>4

\* Every range a finished artefact is asked for comes back as announced, byte for
\* byte, encrypted or not and wherever it falls across the chunks.
THEOREM RangesAreExact == Spec => []RangesExact
<1>1. Init => RangesExact
  BY DEF Init, NoReply, RangesExact
<1>2. WholeInv /\ RangesExact /\ [Next]_vars => RangesExact'
  <2> SUFFICES ASSUME WholeInv, RangesExact, [Next]_vars PROVE RangesExact'
    OBVIOUS
  <2>1. ASSUME NEW h \in Ranges, Download(h) PROVE RangesExact'
    <3>1. /\ sizes' = sizes /\ key' = key /\ call = "ok"
          /\ reply' = IF key THEN streamEncryptedFile(h) ELSE streamPlainFile(h)
      BY <2>1 DEF Download
    <3>2. Stream' = Stream
      BY <3>1, SameFiles
    <3>3. Exact(IF key THEN streamEncryptedFile(h) ELSE streamPlainFile(h))
      BY <3>1, DownloadExact
    <3>4. Exact(reply)'
      BY <3>1, <3>2, <3>3, Zenon DEF Exact
    <3> QED
      BY <3>4 DEF Exact, RangesExact
  <2>2. CASE Begin
    BY <2>2 DEF Begin, NoReply, RangesExact
  <2>3. CASE ZipStep \/ ZipFails \/ EncStep \/ EncFails \/ CallerReturns \/ UNCHANGED vars
    <3>1. UNCHANGED <<sizes, key, reply>>
      BY <2>3 DEF ZipStep, ZipEntry, CopyUnit, CopyEnd, ZipClose, ZipDone, PipeClose, ZipReturns,
                  ClosePipe, ZipFails, EncStep, EncHeader, EncFill, EncSeal, EncEnd, EncSize,
                  EncFails, CallerReturns, vars
    <3> QED
      BY <3>1, SameFiles DEF RangesExact
  <2> QED
    BY <2>1, <2>2, <2>3 DEF Next
<1> QED
  BY <1>1, <1>2, WholeInvariant, PTL DEF Spec

(***************************************************************************)
(* Nobody waits for ever.                                                  *)
(***************************************************************************)
\* When the zip side and the encrypting side can take a step: the guards of their
\* actions.
ZipCanMove == zip = "sent" \/ (Writing /\ zip \in {"open", "copy", "flushed"})
MoreToRead == IF Piped THEN offer # <<>> ELSE unit < sizes[1]
EncCanMove ==
    \/ enc \in {"header", "size"}
    \/ enc = "fill" /\ Room /\ MoreToRead
    \/ enc = "fill" /\ buf # <<>> /\ (Len(buf) = ChunkSize \/ SourceEnd)
    \/ enc = "fill" /\ buf = <<>> /\ SourceEnd

\* A call that goes through the zip side has started it, and no copy runs past its file.
Started ==
    /\ call = "running" /\ ~(key /\ One) => zip # "off"
    /\ One => unit <= sizes[1]

LEMMA StartedStep == PackagingInv /\ Control /\ Started /\ [Next]_vars => Started'
<1> SUFFICES ASSUME PackagingInv, Control, Started, [Next]_vars PROVE Started'
  OBVIOUS
<1>0. /\ One \in BOOLEAN /\ key \in BOOLEAN /\ unit \in Nat /\ sizes[1] \in Nat
  BY Sizes, PackagingAssumption DEF One, PackagingInv, TypeOK
<1>1. CASE Begin
  BY <1>0, <1>1, SameFiles DEF Begin, Started
<1>2. CASE ZipEntry \/ CopyUnit
  <2>1. /\ UNCHANGED <<sizes, key>> /\ zip' = "copy" /\ call = "running"
        /\ unit' = 0 \/ (unit' = unit + 1 /\ unit < sizes[file])
    BY <1>2 DEF ZipEntry, CopyUnit, Writing
  <2>2. One => unit' <= sizes[1]
    BY <1>0, <2>1 DEF Control
  <2> QED
    BY <2>1, <2>2, SameFiles DEF Started
<1>3. CASE CopyEnd \/ ZipClose \/ ZipDone \/ PipeClose \/ ZipFails
  <2>1. UNCHANGED <<sizes, key, unit>> /\ zip' # "off"
    BY <1>3 DEF ZipFails, CopyEnd, ZipClose, ZipDone, PipeClose, ClosePipe, ZipReturns
  <2> QED
    BY <2>1, SameFiles DEF Started
<1>4. CASE EncFill
  <2>1. /\ UNCHANGED <<sizes, key, call, zip>>
        /\ (unit' = unit \/ (unit' = unit + 1 /\ unit < sizes[1]))
    BY <1>4 DEF EncFill
  <2>2. One => unit' <= sizes[1]
    BY <1>0, <2>1 DEF Started
  <2> QED
    BY <2>1, <2>2, SameFiles DEF Started
<1>5. CASE EncHeader \/ EncSeal \/ EncEnd \/ EncSize \/ EncFails \/ UNCHANGED vars
  <2>1. UNCHANGED <<sizes, key, call, zip, unit>>
    BY <1>5 DEF EncFails, EncHeader, EncSeal, EncEnd, EncSize, zipVars, vars
  <2> QED
    BY <2>1, SameFiles DEF Started
<1>6. CASE CallerReturns \/ \E h \in Ranges : Download(h)
  <2>1. UNCHANGED <<sizes, key, zip, unit>> /\ call' # "running"
    BY <1>6 DEF CallerReturns, Result, Download, zipVars
  <2> QED
    BY <2>1, SameFiles DEF Started
<1> QED
  BY <1>1, <1>2, <1>3, <1>4, <1>5, <1>6 DEF Next, ZipStep, EncStep

\* A running call is never at a standstill: one of its goroutines can take a step, or
\* the request can return.  The exception is the one of CallReturns: once Encrypt
\* has failed nobody reads the pipe any more (upload_service.go, writeFinalArtifact).
GoesOn ==
    call = "running" => ZipCanMove \/ EncCanMove \/ Joined \/ (Piped /\ encErr)

THEOREM CallsGoOn == Spec => []GoesOn
<1>1. Init => Started
  <2> SUFFICES ASSUME Init PROVE Started
    OBVIOUS
  <2>1. Uploaded /\ unit = 0 /\ call = "idle"
    BY DEF Init, Uploaded
  <2>2. sizes[1] \in Nat
    BY <2>1, Sizes, PackagingAssumption
  <2> QED
    BY <2>1, <2>2 DEF Started
<1>2. WholeInv /\ Started /\ [Next]_vars => Started'
  BY StartedStep DEF WholeInv
<1>3. WholeInv /\ Started => GoesOn
  <2> SUFFICES ASSUME WholeInv, Started, call = "running", ~(Piped /\ encErr),
                      ~ZipCanMove
               PROVE  EncCanMove \/ Joined
    BY DEF GoesOn
  <2>1. /\ PackagingInv /\ Control /\ Written
        /\ zip \in {"off", "open", "copy", "flushed", "sent", "closed"}
        /\ enc \in {"off", "header", "fill", "size", "done"}
        /\ key \in BOOLEAN /\ zipErr \in BOOLEAN /\ encErr \in BOOLEAN
    BY DEF WholeInv, PackagingInv, TypeOK
  <2>2. key
    <3> SUFFICES ASSUME ~key PROVE FALSE
      BY <2>1
    <3>1. zip \in {"open", "copy", "flushed"} /\ offer = <<>>
      BY <2>1 DEF Control, Piped
    <3> QED
      BY <3>1 DEF ZipCanMove, Writing
  <2>3. CASE enc \in {"header", "size"}
    BY <2>3 DEF EncCanMove
  <2>4. CASE enc = "done"
    <3>1. CASE One
      BY <2>4, <3>1 DEF Joined, Piped
    <3>2. CASE ~One
      <4>1. Piped /\ ~encErr
        BY <2>2, <3>2 DEF Piped
      <4>2. CASE zipErr
        BY <2>1, <2>4, <4>2 DEF Control, Joined
      <4>3. CASE ~zipErr
        <5>1. PICK text \in Seq(Units) : Encrypting(text)
          BY <2>1, <2>2, <4>1, <4>3 DEF Written
        <5>2. zip = "closed"
          BY <2>4, <4>1, <5>1 DEF Encrypting, SourceEnd
        <5> QED
          BY <2>4, <5>2 DEF Joined
      <4> QED
        BY <4>2, <4>3
    <3> QED
      BY <3>1, <3>2
  <2>5. CASE enc = "fill"
    <3>1. /\ buf \in Seq(Units) /\ Len(buf) \in Nat /\ Len(buf) <= ChunkSize
          /\ ChunkSize \in Nat /\ ChunkSize > 0 /\ (buf = <<>> <=> Len(buf) = 0)
      <4>1. buf \in Seq(Units) /\ Len(buf) <= ChunkSize
        BY <2>1 DEF PackagingInv, Buffers, TypeOK
      <4> QED
        BY <4>1, FormatAssumption, EmptySeq
    <3>2. MoreToRead \/ SourceEnd
      <4>1. CASE One
        <5>1. ~Piped /\ unit \in Nat /\ sizes[1] \in Nat /\ unit <= sizes[1]
          BY <2>1, <4>1, Sizes, PackagingAssumption DEF Piped, PackagingInv, TypeOK, Started
        <5> QED
          BY <5>1 DEF MoreToRead, SourceEnd
      <4>2. CASE ~One
        <5>1. Piped /\ zip # "off"
          BY <2>2, <4>2 DEF Piped, Started
        <5>2. offer # <<>> \/ zip = "closed"
          BY <2>1, <5>1 DEF ZipCanMove, Writing
        <5> QED
          BY <5>1, <5>2 DEF MoreToRead, SourceEnd
      <4> QED
        BY <4>1, <4>2
    <3>3. Room \/ Len(buf) = ChunkSize
      BY <3>1 DEF Room
    <3>4. CASE buf = <<>>
      BY <2>5, <3>1, <3>2, <3>4 DEF EncCanMove, Room
    <3>5. CASE buf # <<>>
      BY <2>5, <3>2, <3>3, <3>5, Zenon DEF EncCanMove
    <3> QED
      BY <3>4, <3>5
  <2> QED
    BY <2>1, <2>2, <2>3, <2>4, <2>5 DEF Control
<1> QED
  BY <1>1, <1>2, <1>3, WholeInvariant, PTL DEF Spec

\* What is left to do in a call: units not yet read from the files, writes in the
\* pipe and bytes in the buffer, and the stages either side has before it.
ZipStages == [copy |-> 7, open |-> 6, flushed |-> 2, sent |-> 1, closed |-> 0, off |-> 0]
EncStages == [header |-> 3, fill |-> 2, size |-> 1, done |-> 0, off |-> 0]
Unread == (Len(sizes) - file) * (MaxLen + 1) + (MaxLen - unit)
Work == 6 * Unread + 3 * Len(offer) + 2 * Len(buf) + ZipStages[zip] + EncStages[enc]

\* Every step of a running call leaves less to do, or ends it.
WorkShrinks ==
    [][call = "running" => call' # "running" \/ (Work' \in Nat /\ Work' < Work)]_vars

WorkIsNat ==
    /\ Unread \in Nat /\ Len(offer) \in Nat /\ Len(buf) \in Nat
    /\ ZipStages[zip] \in Nat /\ EncStages[enc] \in Nat /\ Work \in Nat

LEMMA WorkTyped == PackagingInv => WorkIsNat
<1> SUFFICES ASSUME PackagingInv PROVE WorkIsNat
  OBVIOUS
<1>1. /\ Len(sizes) \in Nat /\ file \in Nat /\ file <= Len(sizes)
      /\ unit \in 0 .. MaxLen /\ MaxLen \in Nat
  BY Sizes, PackagingAssumption DEF PackagingInv, TypeOK
<1>2. Unread \in Nat
  <2>1. Len(sizes) - file \in Nat /\ MaxLen + 1 \in Nat /\ MaxLen - unit \in Nat
    BY <1>1
  <2> QED
    BY <2>1, Products DEF Unread
<1>3. Len(offer) \in Nat /\ Len(buf) \in Nat
  <2>1. buf \in Seq(Units) /\ offer \in {<<>>} \cup {<<u>> : u \in Units}
    BY DEF PackagingInv, Buffers
  <2>2. \A u \in Units : Len(<<u>>) = 1
    OBVIOUS
  <2>3. Len(offer) \in {0, 1}
    BY <2>1, <2>2
  <2> QED
    BY <2>1, <2>3
<1>4. ZipStages[zip] \in Nat /\ EncStages[enc] \in Nat
  BY DEF PackagingInv, TypeOK, ZipStages, EncStages
<1> HIDE DEF ZipStages, EncStages
<1>5. 6 * Unread + 3 * Len(offer) + 2 * Len(buf) + ZipStages[zip] + EncStages[enc] \in Nat
  BY <1>2, <1>3, <1>4
<1> QED
  BY <1>2, <1>3, <1>4, <1>5 DEF Work, WorkIsNat

LEMMA WorkTypedNext == PackagingInv' => WorkIsNat'
  BY WorkTyped, PTL

\* The next file, the next byte.
LEMMA UnreadShrinks ==
  ASSUME PackagingInv, sizes' = sizes,
         \/ file' = file + 1 /\ file < Len(sizes) /\ unit' = 0
         \/ file' = file /\ unit' = unit + 1 /\ unit < MaxLen
  PROVE  Unread' < Unread
<1> DEFINE k == MaxLen + 1
           p == (Len(sizes) - file) * k
<1>1. /\ Len(sizes) \in Nat /\ file \in Nat /\ file <= Len(sizes)
      /\ unit \in 0 .. MaxLen /\ MaxLen \in Nat /\ k \in Nat
  BY Sizes, PackagingAssumption DEF PackagingInv, TypeOK
<1>2. p \in Nat
  <2>1. Len(sizes) - file \in Nat
    BY <1>1
  <2> QED
    BY <1>1, <2>1, Products
<1>3. CASE file' = file /\ unit' = unit + 1 /\ unit < MaxLen
  <2>1. Unread = p + (MaxLen - unit) /\ Unread' = p + (MaxLen - (unit + 1))
    BY <1>3 DEF Unread
  <2> HIDE DEF p
  <2> QED
    BY <1>1, <1>2, <2>1
<1>4. CASE file' = file + 1 /\ file < Len(sizes) /\ unit' = 0
  <2> DEFINE rest == Len(sizes) - (file + 1)
  <2>1. rest \in Nat /\ rest + 1 = Len(sizes) - file
    BY <1>1, <1>4
  <2>2. rest * k \in Nat /\ p = rest * k + k
    <3> HIDE DEF k
    <3>1. (rest + 1) * k = rest * k + k /\ rest * k \in Nat
      BY <1>1, <2>1, Products
    <3> QED
      BY <2>1, <3>1
  <2>3. Unread = p + (MaxLen - unit) /\ Unread' = rest * k + (MaxLen - 0)
    BY <1>4 DEF Unread
  <2> DEFINE q == rest * k
  <2>4. q \in Nat /\ p = q + (MaxLen + 1) /\ Unread = p + (MaxLen - unit)
        /\ Unread' = q + (MaxLen - 0)
    BY <2>2, <2>3
  <2> HIDE DEF p, q
  <2> QED
    BY <1>1, <2>4
<1> QED
  BY <1>3, <1>4

LEMMA PutLength ==
  ASSUME NEW u, Put(u), offer = <<>>
  PROVE  Len(offer') \in {0, 1} /\ Len(offer) = 0
<1>1. Len(<<u>>) = 1 /\ Len(<<>>) = 0
  OBVIOUS
<1> QED
  BY <1>1 DEF Put

LEMMA ZipWorks ==
  ASSUME PackagingInv, PackagingInv', Control, ZipStep \/ ZipFails
  PROVE  Work' < Work
<1> DEFINE z == ZipStages[zip]
           zn == ZipStages'[zip']
           e == EncStages[enc]
           b == Len(buf)
           o == Len(offer)
           on == Len(offer')
           u == Unread
           un == Unread'
<1>1. /\ sizes' = sizes /\ enc' = enc /\ buf' = buf
  BY DEF ZipStep, ZipFails, ZipEntry, CopyUnit, CopyEnd, ZipClose, ZipDone, PipeClose,
         ClosePipe, ZipReturns, encVars
<1>2. Work = 6 * u + 3 * o + 2 * b + z + e /\ Work' = 6 * un + 3 * on + 2 * b + zn + e
  BY <1>1 DEF Work, EncStages
<1>3. u \in Nat /\ un \in Nat /\ o \in Nat /\ on \in Nat /\ b \in Nat /\ z \in Nat
      /\ zn \in Nat /\ e \in Nat
  BY WorkTyped, WorkTypedNext DEF WorkIsNat
<1>4. CASE ZipEntry \/ CopyUnit
  <2>1. un < u
    <3>1. CASE ZipEntry
      BY <1>1, <3>1, UnreadShrinks DEF ZipEntry
    <3>2. CASE CopyUnit
      <4>1. file' = file /\ unit' = unit + 1 /\ unit < sizes[file] /\ zip = "copy"
        BY <3>2 DEF CopyUnit
      <4>2. sizes[file] \in 0 .. MaxLen /\ unit \in 0 .. MaxLen
        BY <4>1, Sizes DEF PackagingInv, Copying, TypeOK
      <4>3. unit < MaxLen
        BY <4>1, <4>2, PackagingAssumption
      <4> QED
        BY <1>1, <4>1, <4>3, UnreadShrinks
    <3> QED
      BY <1>4, <3>1, <3>2
  <2>2. zn <= z + 1
    BY <1>4 DEF ZipStages, ZipEntry, CopyUnit
  <2>3. o = 0 /\ on \in {0, 1}
    BY <1>4, PutLength DEF ZipEntry, CopyUnit, Writing
  <2> HIDE DEF z, zn, e, b, o, on, u, un
  <2> QED
    BY <1>2, <1>3, <2>1, <2>2, <2>3
<1>5. CASE ZipClose
  <2>1. o = 0 /\ on \in {0, 1} /\ z = 6 /\ zn = 2 /\ un = u
    BY <1>1, <1>5, PutLength DEF ZipClose, Writing, ZipStages, Unread
  <2> HIDE DEF z, zn, e, b, o, on, u, un
  <2> QED
    BY <1>2, <1>3, <2>1
<1>6. CASE CopyEnd \/ ZipDone \/ PipeClose \/ ZipFails
  <2>1. /\ UNCHANGED <<file, unit, offer>> /\ zn < z
    BY <1>6 DEF CopyEnd, ZipDone, PipeClose, ClosePipe, ZipFails, ZipReturns, ZipStages
  <2>2. on = o /\ un = u
    BY <1>1, <2>1 DEF Unread
  <2> HIDE DEF z, zn, e, b, o, on, u, un
  <2> QED
    BY <1>2, <1>3, <2>1, <2>2
<1> QED
  BY <1>4, <1>5, <1>6 DEF ZipStep

LEMMA EncWorks ==
  ASSUME PackagingInv, PackagingInv', Control, EncStep \/ EncFails
  PROVE  Work' < Work
<1> DEFINE z == ZipStages[zip]
           e == EncStages[enc]
           en == EncStages'[enc']
           b == Len(buf)
           bn == Len(buf')
           o == Len(offer)
           on == Len(offer')
           u == Unread
           un == Unread'
<1>1. /\ sizes' = sizes /\ zip' = zip /\ file' = file
  BY DEF EncStep, EncFails, EncHeader, EncFill, EncSeal, EncEnd, EncSize, zipVars
<1>2. Work = 6 * u + 3 * o + 2 * b + z + e /\ Work' = 6 * un + 3 * on + 2 * bn + z + en
  BY <1>1 DEF Work, ZipStages
<1>3. u \in Nat /\ un \in Nat /\ o \in Nat /\ on \in Nat /\ b \in Nat /\ bn \in Nat /\ z \in Nat
      /\ e \in Nat /\ en \in Nat
  BY <1>1, WorkTyped, WorkTypedNext DEF WorkIsNat
<1>4. CASE EncFill
  <2>1. en = e
    BY <1>4 DEF EncFill, EncStages
  <2>2. CASE Piped
    <3>1. offer # <<>> /\ buf' = buf \o offer /\ offer' = <<>> /\ unit' = unit
      BY <1>4, <2>2 DEF EncFill
    <3>2. o = 1 /\ on = 0 /\ bn = b + 1 /\ un = u
      <4>1. buf \in Seq(Units) /\ offer \in {<<x>> : x \in Units}
        BY <3>1 DEF PackagingInv, Buffers
      <4>2. PICK x \in Units : offer = <<x>>
        BY <4>1
      <4>3. <<x>> \in Seq(Units) /\ Len(<<x>>) = 1
        OBVIOUS
      <4>4. Len(buf \o offer) = Len(buf) + 1 /\ Len(<<>>) = 0 /\ Len(offer) = 1
        BY <4>1, <4>2, <4>3, ConcatProperties
      <4> QED
        BY <1>1, <3>1, <4>4 DEF Unread
    <3> HIDE DEF z, e, en, b, bn, o, on, u, un
    <3> QED
      BY <1>2, <1>3, <2>1, <3>2
  <2>3. CASE ~Piped
    <3>1. /\ unit < sizes[1] /\ unit' = unit + 1 /\ offer' = offer
          /\ buf' = Append(buf, <<1, unit + 1>>)
      BY <1>4, <2>3 DEF EncFill
    <3>2. un < u
      <4>1. sizes[1] \in 0 .. MaxLen /\ unit \in 0 .. MaxLen
        BY Sizes, PackagingAssumption DEF PackagingInv, TypeOK
      <4>2. unit < MaxLen
        BY <3>1, <4>1, PackagingAssumption
      <4> QED
        BY <1>1, <3>1, <4>2, UnreadShrinks
    <3>3. bn = b + 1 /\ on = o
      <4>1. buf \in Seq(Units)
        BY DEF PackagingInv, Buffers
      <4> QED
        BY <3>1, <4>1
    <3> HIDE DEF z, e, en, b, bn, o, on, u, un
    <3> QED
      BY <1>2, <1>3, <2>1, <3>2, <3>3
  <2> QED
    BY <2>2, <2>3
<1>5. CASE EncSeal
  <2>1. un = u /\ on = o /\ bn = 0 /\ en <= e
    BY <1>1, <1>5 DEF EncSeal, zipVars, Unread, EncStages
  <2>2. b > 0
    <3>1. buf # <<>> /\ buf \in Seq(Units)
      BY <1>5 DEF EncSeal, PackagingInv, Buffers
    <3> QED
      BY <3>1, EmptySeq
  <2> HIDE DEF z, e, en, b, bn, o, on, u, un
  <2> QED
    BY <1>2, <1>3, <2>1, <2>2
<1>6. CASE EncHeader \/ EncEnd \/ EncSize \/ EncFails
  <2>1. UNCHANGED <<unit, offer, buf>> /\ en < e
    BY <1>6 DEF EncHeader, EncEnd, EncSize, EncFails, zipVars, EncStages
  <2>2. un = u /\ on = o /\ bn = b
    BY <1>1, <2>1 DEF Unread
  <2> HIDE DEF z, e, en, b, bn, o, on, u, un
  <2> QED
    BY <1>2, <1>3, <2>1, <2>2
<1> QED
  BY <1>4, <1>5, <1>6 DEF EncStep

\* A call takes no more steps than it had Work when it began: with CallsGoOn, the
\* safety part of CallReturns.
THEOREM CallsWearOut == Spec => WorkShrinks
<1>1. ASSUME WholeInv, WholeInv', Next, call = "running", call' = "running"
      PROVE  Work' \in Nat /\ Work' < Work
  <2>1. PackagingInv /\ PackagingInv' /\ Control
    BY <1>1 DEF WholeInv
  <2>2. ZipStep \/ ZipFails \/ EncStep \/ EncFails
    BY <1>1 DEF Next, Begin, CallerReturns, Result, Download
  <2> QED
    BY <2>1, <2>2, ZipWorks, EncWorks, WorkTypedNext DEF WorkIsNat
<1>2. WholeInv /\ WholeInv' /\ [Next]_vars
        => [call = "running" => call' # "running" \/ (Work' \in Nat /\ Work' < Work)]_vars
  BY <1>1
<1> QED
  BY <1>2, WholeInvariant, PTL DEF Spec, WorkShrinks
=============================================================================
