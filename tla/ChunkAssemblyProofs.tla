------------------------- MODULE ChunkAssemblyProofs -------------------------
(***************************************************************************)
(* Theorems about ChunkAssembly, for files of any number of chunks, any    *)
(* number of attempts and any number of times the user starts over, with   *)
(* every failure of the network and of the server that it models.          *)
(***************************************************************************)
EXTENDS ChunkAssembly, TLAPS

LEMMA CurrentIsARequest == TypeOK => Current \in Requests
  BY ChunkAssumption DEF TypeOK, Current, Requests, Sessions, Chunks

\* The client stays within its attempts, the server within the sessions and
\* chunks there are, whatever fails.
THEOREM ChunkTypeCorrect == Spec => []TypeOK
<1> USE ChunkAssumption
<1>1. Init => TypeOK
  BY DEF Init, TypeOK, Sessions, Chunks
<1>2. TypeOK /\ [Next]_vars => TypeOK'
  <2> SUFFICES ASSUME TypeOK, [Next]_vars PROVE TypeOK'
    OBVIOUS
  <2> USE DEF TypeOK, clientVars, serverVars, Goto, Answer, Handling, Answers
  <2>0. Current \in Requests
    BY CurrentIsARequest
  <2>r. ASSUME Retry PROVE /\ phase' \in {"sending", "waiting", "done", "failed"}
                           /\ session' \in Sessions /\ chunk' \in Chunks
                           /\ attempt' \in 1..MaxAttempts /\ failures' \in Nat
    BY <2>r DEF Retry, GivesUp
  <2>1. CASE Send
    BY <2>0, <2>1 DEF Send
  <2>2. CASE ReplyOk
    <3>1. chunk' \in Chunks /\ attempt' \in 1..MaxAttempts
      BY <2>2 DEF ReplyOk, Chunks
    <3> QED
      BY <2>0, <2>2, <3>1 DEF ReplyOk
  <2>3. CASE ReplyError
    BY <2>0, <2>3, <2>r DEF ReplyError
  <2>4. CASE ReplyRefused
    BY <2>4 DEF ReplyRefused
  <2>5. CASE StartOver
    BY <2>0, <2>5 DEF StartOver, Sessions, Chunks
  <2>6. CASE RequestLost
    BY <2>0, <2>6, <2>r DEF RequestLost
  <2>7. CASE ConnectionBreaks
    BY <2>0, <2>7, <2>r DEF ConnectionBreaks
  <2>8. ASSUME NEW r \in Requests, Handle(r) \/ ServerFails(r) PROVE TypeOK'
    <3>1. r[1] \in Sessions /\ r[2] \in Chunks
      BY DEF Requests
    <3>2. CASE Write(r)
      BY <3>1, <3>2 DEF Write
    <3>3. CASE Rename(r)
      BY <3>1, <3>3 DEF Rename, Move
    <3>4. CASE RenameMisses(r)
      BY <3>4 DEF RenameMisses
    <3>5. CASE Add(r)
      BY <3>1, <3>5 DEF Add
    <3>6. CASE Refuse(r)
      BY <3>6 DEF Refuse
    <3>7. CASE WriteFails(r)
      BY <3>1, <3>7 DEF WriteFails
    <3>8. CASE RenameFails(r)
      BY <3>1, <3>8 DEF RenameFails, Move
    <3>9. CASE AddFails(r)
      BY <3>1, <3>9 DEF AddFails
    <3> QED
      BY <2>8, <3>2, <3>3, <3>4, <3>5, <3>6, <3>7, <3>8, <3>9 DEF Handle, ServerFails
  <2>9. CASE UNCHANGED vars
    BY <2>9 DEF vars
  <2> QED
    BY <2>1, <2>2, <2>3, <2>4, <2>5, <2>6, <2>7, <2>8, <2>9 DEF Next
<1> QED
  BY <1>1, <1>2, PTL DEF Spec

(***************************************************************************)
(* The inductive invariant.  In a session without doubt the server handles *)
(* at most one request, and while no other session has the row, <id>.part  *)
(* grows in order until the last chunk completes it, is renamed, and gets  *)
(* its row.                                                                *)
(***************************************************************************)
Waiting(where) == phase = "waiting" /\ pc[Current] = where

Live(r)  == pc[r] \in Handling
Clean(s) == s \notin doubt /\ row \in {0, s}

\* A session that has not begun has left no trace.
Untouched ==
    \A s \in Sessions : s > session =>
        /\ part[s] = {} /\ temp[s] = {} /\ s \notin doubt /\ row # s
        /\ \A r \in Requests : r[1] = s => pc[r] = "unsent"

\* Of the current session, it is the request that the client waits for.
OneHandled ==
    \A r \in Requests : Live(r) /\ r[1] \notin doubt =>
        /\ r[1] = session => phase = "waiting" /\ r = Current
        /\ \A q \in Requests : Live(q) /\ q[1] = r[1] => q = r

HandledInOrder ==
    \A r \in Requests : Live(r) /\ Clean(r[1]) =>
        /\ row = 0
        /\ pc[r] = "writing" =>
              /\ temp[r[1]] = {} /\ 1 .. (r[2] - 1) \subseteq part[r[1]]
              /\ N \in part[r[1]] => r[2] = N
        /\ pc[r] = "renaming" => temp[r[1]] = {} /\ part[r[1]] = Chunks /\ r[2] = N
        /\ pc[r] = "adding" => temp[r[1]] = Chunks /\ r[2] = N

FilesWhole ==
    \A s \in Sessions : Clean(s) =>
        /\ temp[s] # {} => row = s \/ \E r \in Requests : r[1] = s /\ pc[r] = "adding"
        /\ N \in part[s] => part[s] = Chunks
        /\ row = s => temp[s] = Chunks

SentInOrder ==
    Clean(session) /\ phase \in {"sending", "waiting"} =>
        /\ row = session => chunk = N /\ Waiting("ok")
        /\ row = 0 /\ temp[session] = {} =>
              /\ 1 .. (chunk - 1) \subseteq part[session]
              /\ N \in part[session] => chunk = N
        /\ Waiting("ok") /\ chunk # N => chunk \in part[session]

\* The last chunk is answered 200 only by the request that adds the row.
LastIsRow == phase = "done" \/ (chunk = N /\ Waiting("ok")) => row = session

AssemblyInv ==
    Untouched /\ OneHandled /\ HandledInOrder /\ FilesWhole /\ SentInOrder /\ LastIsRow

LEMMA AssemblyInit == Init => AssemblyInv
<1> SUFFICES ASSUME Init PROVE AssemblyInv
  OBVIOUS
<1>1. \A r \in Requests : pc[r] = "unsent"
  BY DEF Init
<1>2. \A s \in Sessions : part[s] = {} /\ temp[s] = {} /\ s # 0
  BY DEF Init, Sessions
<1>3. session = 1 /\ chunk = 1 /\ phase = "sending" /\ row = 0 /\ doubt = {} /\ 1 \in Sessions
  BY ChunkAssumption DEF Init, Sessions
<1> QED
  BY <1>1, <1>2, <1>3, ChunkAssumption DEF AssemblyInv, Untouched, OneHandled, HandledInOrder,
     FilesWhole, SentInOrder, LastIsRow, Waiting, Live, Handling

\* What Retry leaves the client to do.
LEMMA RetryGoesOn ==
  ASSUME TypeOK, Retry PROVE
    /\ UNCHANGED <<session, chunk>> /\ failures' = failures + 1
    /\ \/ phase' = "failed" /\ attempt >= MaxAttempts /\ UNCHANGED attempt
       \/ phase' = "sending" /\ attempt' = attempt + 1
  BY DEF Retry, GivesUp

(***************************************************************************)
(* A step of the client changes no file; it sends a request, or closes at  *)
(* most the one it has waited for.                                         *)
(***************************************************************************)
LEMMA ClientStep ==
  ASSUME TypeOK, AssemblyInv,
         \/ Send \/ ReplyOk \/ ReplyError \/ ReplyRefused \/ StartOver
         \/ RequestLost \/ ConnectionBreaks
  PROVE  AssemblyInv'
<1> USE ChunkAssumption DEF TypeOK, AssemblyInv, clientVars, serverVars, Goto, Handling, Answers
<1>0. /\ Current \in Requests /\ session \in Nat /\ session # 0 /\ session \in Sessions
      /\ chunk \in Nat /\ chunk # 0 /\ N \in Nat
  BY CurrentIsARequest DEF Sessions, Chunks
<1>q. \A r \in Requests : r[1] \in Sessions /\ r[1] \in Nat /\ r[1] # 0 /\ r[2] \in Chunks
  BY DEF Requests, Sessions
<1>c. Current[1] = session /\ Current[2] = chunk
  BY DEF Current
<1>1. CASE Send
  <2>1. Current' = Current /\ pc' = [pc EXCEPT ![Current] = "writing"] /\ phase = "sending"
        /\ phase' = "waiting" /\ UNCHANGED <<session, chunk, attempt, part, temp, row, doubt>>
    BY <1>1 DEF Send, Current
  <2>2. Untouched'
    BY <1>0, <1>c, <2>1 DEF Untouched
  <2>3. OneHandled'
    BY <1>0, <1>c, <2>1 DEF OneHandled, Live
  <2>4. Clean(session) => row = 0 /\ temp[session] = {}
    BY <1>0, <1>c, <2>1 DEF Clean, SentInOrder, FilesWhole, OneHandled, Live, Waiting
  <2>5. HandledInOrder'
    <3>1. ASSUME NEW r \in Requests, r # Current, Live(r)', Clean(r[1])'
          PROVE  Live(r) /\ Clean(r[1]) /\ pc'[r] = pc[r]
      BY <1>0, <2>1, <3>1 DEF Live, Clean
    <3> QED
      BY <1>0, <1>c, <2>1, <2>4, <3>1 DEF HandledInOrder, SentInOrder, Live, Clean
  <2>6. FilesWhole'
    <3>1. \A r \in Requests : pc[r] = "adding" => pc'[r] = "adding" \/ r = Current
      BY <1>0, <2>1
    <3> QED
      BY <1>0, <1>c, <2>1, <2>4, <3>1 DEF FilesWhole, Clean
  <2>7. SentInOrder' /\ LastIsRow'
    BY <1>0, <2>1 DEF SentInOrder, LastIsRow, Waiting, Clean
  <2> QED
    BY <2>2, <2>3, <2>5, <2>6, <2>7
\* A step in which the client stops waiting.
<1>a. ASSUME phase = "waiting", UNCHANGED <<session, part, temp, row>>,
             doubt' \in {doubt, doubt \cup {session}},
             pc' \in {pc, [pc EXCEPT ![Current] = "closed"]}, pc' = pc \/ pc[Current] # "adding",
             session \in doubt' \/ pc'[Current] \notin Handling
      PROVE  Untouched' /\ OneHandled' /\ HandledInOrder' /\ FilesWhole'
  <2>1. \A r \in Requests :
            pc'[r] = pc[r] \/ (r = Current /\ pc'[r] = "closed" /\ pc[r] # "adding")
    BY <1>0, <1>a
  <2>2. Untouched'
    BY <1>0, <1>c, <1>a, <2>1 DEF Untouched
  <2>3. OneHandled'
    BY <1>0, <1>c, <1>a, <2>1 DEF OneHandled, Live
  <2>4. HandledInOrder'
    BY <1>0, <1>a, <2>1 DEF HandledInOrder, Live, Clean
  <2>5. FilesWhole'
    BY <1>0, <1>a, <2>1 DEF FilesWhole, Clean
  <2> QED
    BY <2>2, <2>3, <2>4, <2>5
<1>2. CASE ReplyOk
  <2>1. /\ Waiting("ok") /\ pc' = [pc EXCEPT ![Current] = "closed"]
        /\ UNCHANGED <<session, part, temp, row, doubt>>
        /\ \/ chunk = N /\ phase' = "done"
           \/ chunk # N /\ phase' = "sending" /\ chunk' = chunk + 1
    BY <1>2 DEF ReplyOk, Waiting
  <2>2. Untouched' /\ OneHandled' /\ HandledInOrder' /\ FilesWhole'
    BY <1>0, <1>a, <2>1 DEF Waiting
  <2>3. SentInOrder'
    BY <1>0, <2>1 DEF SentInOrder, Clean, Waiting
  <2>4. LastIsRow'
    BY <2>1 DEF LastIsRow, Waiting
  <2> QED
    BY <2>2, <2>3, <2>4
<1>3. CASE ReplyError \/ RequestLost \/ ConnectionBreaks
  <2>1. /\ phase = "waiting" /\ Retry /\ UNCHANGED <<part, temp, row>>
        /\ \/ /\ pc[Current] \in {"error", "writing"} /\ doubt' = doubt
              /\ pc' = [pc EXCEPT ![Current] = "closed"]
           \/ /\ pc[Current] \in Handling /\ doubt' = doubt \cup {session} /\ pc' = pc
           \/ /\ pc[Current] \in Answers /\ pc' = [pc EXCEPT ![Current] = "closed"]
              /\ doubt' = IF pc[Current] = "ok" /\ chunk = N THEN doubt \cup {session} ELSE doubt
    BY <1>3 DEF ReplyError, RequestLost, ConnectionBreaks
  <2>2. UNCHANGED <<session, chunk>> /\ phase' \in {"sending", "failed"}
    BY <2>1, RetryGoesOn
  <2>3. Untouched' /\ OneHandled' /\ HandledInOrder' /\ FilesWhole'
    BY <1>0, <1>a, <2>1, <2>2
  <2>4. SentInOrder'
    BY <1>0, <2>1, <2>2 DEF SentInOrder, Clean, Waiting
  <2>5. LastIsRow'
    BY <2>2 DEF LastIsRow, Waiting
  <2> QED
    BY <2>3, <2>4, <2>5
<1>4. CASE ReplyRefused
  <2>1. /\ phase = "waiting" /\ pc[Current] = "refused" /\ phase' = "failed"
        /\ UNCHANGED <<session, chunk, part, temp, row, pc, doubt>>
    BY <1>4 DEF ReplyRefused
  <2>2. Untouched' /\ OneHandled' /\ HandledInOrder' /\ FilesWhole'
    BY <1>0, <1>a, <2>1
  <2> QED
    BY <2>1, <2>2 DEF SentInOrder, LastIsRow, Waiting
<1>5. CASE StartOver
  <2>1. /\ session' = session + 1 /\ session + 1 \in Sessions /\ chunk' = 1 /\ phase' = "sending"
        /\ UNCHANGED <<part, temp, row, doubt>>
        /\ \A r \in Requests : pc'[r] = pc[r] \/ (pc[r] \in Answers /\ pc'[r] = "closed")
        /\ \A r \in Requests : r[1] > session => pc'[r] = pc[r]
    BY <1>0, <1>c, <1>5 DEF StartOver, Sessions
  <2>2. Untouched'
    <3>1. \A t \in Sessions : t > session + 1 => t > session
      BY <1>0 DEF Sessions
    <3> QED
      BY <1>q, <2>1, <3>1 DEF Untouched
  <2>3. OneHandled'
    BY <1>0, <1>q, <2>1 DEF OneHandled, Untouched, Live
  <2>4. HandledInOrder'
    BY <1>0, <2>1 DEF HandledInOrder, Live, Clean
  <2>5. FilesWhole'
    BY <1>0, <2>1 DEF FilesWhole, Clean
  <2>6. SentInOrder' /\ LastIsRow'
    BY <1>0, <2>1 DEF SentInOrder, LastIsRow, Untouched, Waiting
  <2> QED
    BY <2>2, <2>3, <2>4, <2>5, <2>6
<1> QED
  BY <1>1, <1>2, <1>3, <1>4, <1>5

\* The last chunk, written after all others, makes the file whole.
LEMMA WholeWhenLast ==
  ASSUME NEW file \in SUBSET Chunks, NEW k \in Chunks, 1 .. (k - 1) \subseteq file,
         N \in file => k = N /\ file = Chunks, N \in file \cup {k}
  PROVE  k = N /\ file \cup {k} = Chunks
<1>1. k = N
  OBVIOUS
<1>2. \A i \in Chunks : i \in 1 .. (k - 1) \/ i = k
  BY <1>1, ChunkAssumption DEF Chunks
<1> QED
  BY <1>1, <1>2

(***************************************************************************)
(* A step of a handler changes the state of one request, which it has in   *)
(* hand, and the files of that request's session.                          *)
(***************************************************************************)
LEMMA ServerStep ==
  ASSUME TypeOK, AssemblyInv, NEW r \in Requests, Handle(r) \/ ServerFails(r)
  PROVE  AssemblyInv'
<1> USE ChunkAssumption
    DEF TypeOK, AssemblyInv, clientVars, serverVars, Goto, Answer, Handling, Answers
<1> DEFINE s == r[1]
           k == r[2]
<1>0. /\ Current \in Requests /\ session \in Nat /\ session # 0 /\ session \in Sessions
      /\ chunk \in Nat /\ chunk # 0 /\ N \in Nat
  BY CurrentIsARequest DEF Sessions, Chunks
<1>q. \A q \in Requests : q[1] \in Sessions /\ q[1] \in Nat /\ q[1] # 0 /\ q[2] \in Chunks
  BY DEF Requests, Sessions
<1>c. Current[1] = session /\ Current[2] = chunk
  BY DEF Current
<1>l. Live(r) /\ UNCHANGED <<session, chunk, attempt, phase, Current>>
  BY DEF Handle, ServerFails, Write, Rename, RenameMisses, Add, Refuse, WriteFails, RenameFails,
     AddFails, Live, Move, Current
<1>s. s \in Sessions /\ s <= session /\ k \in Chunks
  BY <1>0, <1>q, <1>l DEF Untouched, Live
\* The request is answered, and has not touched a row or a completed file.
<1>a. ASSUME NEW reply \in {"ok", "error", "refused"},
             pc' = [pc EXCEPT ![r] = IF phase = "waiting" /\ r = Current THEN reply ELSE "closed"],
             UNCHANGED <<temp, row, doubt>>, pc[r] # "adding" \/ ~Clean(s),
             \/ UNCHANGED part
             \/ pc[r] = "writing" /\ part' = [part EXCEPT ![s] = @ \cup {k}],
             reply = "ok" => k # N /\ k \in part'[s]
      PROVE  AssemblyInv'
  <2>1. \A q \in Requests : pc'[q] = pc[q] \/ (q = r /\ pc'[q] \notin Handling /\ pc'[q] # "adding")
    BY <1>a
  <2>2. Untouched'
    BY <1>0, <1>s, <1>l, <1>a, <2>1 DEF Untouched
  <2>3. OneHandled'
    BY <1>0, <1>l, <1>a, <2>1 DEF OneHandled, Live
  <2>4. HandledInOrder'
    BY <1>0, <1>q, <1>l, <1>a, <2>1 DEF HandledInOrder, OneHandled, Live, Clean
  <2>5. FilesWhole'
    <3>1. ASSUME Clean(s) PROVE N \in part'[s] => part'[s] = Chunks
      <4>1. part[s] \in SUBSET Chunks /\ (N \in part[s] => part[s] = Chunks)
        BY <1>s, <3>1 DEF FilesWhole
      <4>2. CASE UNCHANGED part
        BY <4>1, <4>2
      <4>3. CASE pc[r] = "writing" /\ part' = [part EXCEPT ![s] = @ \cup {k}]
        <5>1. 1 .. (k - 1) \subseteq part[s] /\ (N \in part[s] => k = N)
          BY <1>l, <3>1, <4>3 DEF HandledInOrder
        <5>2. part'[s] = part[s] \cup {k}
          BY <1>s, <4>3
        <5> QED
          BY <1>s, <4>1, <5>1, <5>2, WholeWhenLast
      <4> QED
        BY <1>a, <4>2, <4>3
    <3>2. ASSUME Clean(s), temp[s] # {}
          PROVE  row = s \/ \E q \in Requests : q[1] = s /\ pc'[q] = "adding"
      <4>1. PICK q \in Requests : row = s \/ (q[1] = s /\ pc[q] = "adding")
        BY <1>s, <3>2 DEF FilesWhole
      <4>2. q # r \/ row = s
        BY <1>a, <3>2, <4>1
      <4> QED
        BY <2>1, <4>1, <4>2
    <3>3. \A t \in Sessions : t # s => part'[t] = part[t]
      BY <1>a
    <3>4. \A q \in Requests : pc[q] = "adding" /\ q[1] # s => pc'[q] = "adding"
      BY <2>1
    <3> QED
      BY <1>a, <3>1, <3>2, <3>3, <3>4 DEF FilesWhole, Clean
  <2>6. SentInOrder'
    BY <1>0, <1>c, <1>l, <1>a, <2>1 DEF SentInOrder, HandledInOrder, OneHandled, Live, Clean, Waiting
  <2>7. LastIsRow'
    BY <1>0, <1>c, <1>l, <1>a, <2>1 DEF LastIsRow, Waiting, Live
  <2> QED
    BY <2>2, <2>3, <2>4, <2>5, <2>6, <2>7
\* The request fails and leaves its session in doubt.
<1>b. ASSUME pc' = [pc EXCEPT ![r] = IF phase = "waiting" /\ r = Current THEN "error" ELSE "closed"],
             doubt' = doubt \cup {s}, row' = row \/ (row = 0 /\ row' = s),
             \A t \in Sessions : t # s => part'[t] = part[t] /\ temp'[t] = temp[t]
      PROVE  AssemblyInv'
  <2>1. \A q \in Requests : pc'[q] = pc[q] \/ (q = r /\ pc'[q] \in {"error", "closed"})
    BY <1>b
  <2>2. \A t \in Sessions : Clean(t)' => t # s /\ Clean(t) /\ row' = row
    BY <1>b, <1>s DEF Clean, Sessions
  <2>3. Untouched'
    BY <1>0, <1>s, <1>l, <1>b, <2>1 DEF Untouched
  <2>4. OneHandled'
    BY <1>l, <1>b, <2>1 DEF OneHandled, Live
  <2>5. HandledInOrder'
    BY <1>q, <1>b, <2>1, <2>2 DEF HandledInOrder, Live
  <2>6. FilesWhole'
    <3>1. \A q \in Requests : pc[q] = "adding" /\ q[1] # s => pc'[q] = "adding"
      BY <2>1
    <3> QED
      BY <1>b, <2>2, <3>1 DEF FilesWhole
  <2>7. SentInOrder'
    <3> SUFFICES ASSUME session \notin doubt', row' \in {0, session} PROVE SentInOrder'
      BY <1>l DEF SentInOrder, Clean
    <3>1. session # s /\ Clean(session) /\ row' = row /\ r # Current
      BY <1>0, <1>c, <2>2 DEF Clean
    <3> QED
      BY <1>0, <1>l, <1>b, <2>1, <3>1 DEF SentInOrder, Waiting
  <2>8. LastIsRow'
    BY <1>0, <1>l, <1>b, <2>1 DEF LastIsRow, Waiting
  <2> QED
    BY <2>3, <2>4, <2>5, <2>6, <2>7, <2>8
<1>1. CASE Write(r)
  <2>1. /\ pc[r] = "writing" /\ part' = [part EXCEPT ![s] = @ \cup {k}]
        /\ UNCHANGED <<temp, row, doubt>>
    BY <1>1 DEF Write
  <2>2. part'[s] = part[s] \cup {k} /\ k \in part'[s]
    BY <1>s, <2>1
  <2>3. CASE N \notin part'[s]
    BY <1>1, <1>a, <2>1, <2>2, <2>3 DEF Write, FullSize
  <2>4. CASE N \in part'[s]
    <3>1. pc' = [pc EXCEPT ![r] = "renaming"]
      BY <1>1, <2>4 DEF Write, FullSize
    <3>2. \A q \in Requests : pc'[q] = pc[q] \/ (q = r /\ pc'[q] = "renaming")
      BY <3>1
    <3>3. Clean(s) => temp[s] = {} /\ row = 0 /\ k = N /\ part'[s] = Chunks
      <4> SUFFICES ASSUME Clean(s)
                   PROVE  temp[s] = {} /\ row = 0 /\ k = N /\ part'[s] = Chunks
        OBVIOUS
      <4>1. /\ row = 0 /\ temp[s] = {} /\ 1 .. (k - 1) \subseteq part[s]
            /\ N \in part[s] => k = N
        BY <1>l, <2>1 DEF HandledInOrder
      <4>2. part[s] \in SUBSET Chunks /\ (N \in part[s] => part[s] = Chunks)
        BY <1>s DEF FilesWhole
      <4> QED
        BY <1>s, <2>2, <2>4, <4>1, <4>2, WholeWhenLast
    <3>4. Untouched'
      BY <1>0, <1>s, <1>l, <2>1, <3>2 DEF Untouched
    <3>5. OneHandled'
      BY <1>l, <2>1, <3>2 DEF OneHandled, Live
    <3>6. HandledInOrder'
      BY <1>q, <1>l, <2>1, <3>1, <3>2, <3>3 DEF HandledInOrder, OneHandled, Live, Clean
    <3>7. FilesWhole'
      <4>1. \A q \in Requests : pc[q] = "adding" => pc'[q] = "adding"
        BY <2>1, <3>2
      <4> QED
        BY <2>1, <3>3, <4>1 DEF FilesWhole, Clean
    <3>8. SentInOrder'
      BY <1>0, <1>c, <1>l, <2>1, <2>2, <3>1, <3>2, <3>3
        DEF SentInOrder, OneHandled, Live, Clean, Waiting
    <3>9. LastIsRow'
      BY <1>0, <1>l, <2>1, <3>2 DEF LastIsRow, Waiting
    <3> QED
      BY <3>4, <3>5, <3>6, <3>7, <3>8, <3>9
  <2> QED
    BY <2>3, <2>4
<1>2. CASE Rename(r)
  <2>1. /\ pc[r] = "renaming" /\ pc' = [pc EXCEPT ![r] = "adding"]
        /\ temp' = [temp EXCEPT ![s] = part[s]] /\ part' = [part EXCEPT ![s] = {}]
        /\ UNCHANGED <<row, doubt>>
    BY <1>2 DEF Rename, Move
  <2>2. \A q \in Requests : pc'[q] = pc[q] \/ (q = r /\ pc'[q] = "adding")
    BY <2>1
  <2>3. /\ temp'[s] = part[s] /\ part'[s] = {} /\ pc'[r] = "adding"
        /\ \A t \in Sessions : t # s => part'[t] = part[t] /\ temp'[t] = temp[t]
    BY <1>s, <2>1
  <2>4. Clean(s) => row = 0 /\ k = N /\ temp'[s] = Chunks
    BY <1>l, <2>1, <2>3 DEF HandledInOrder
  <2>5. Untouched'
    BY <1>0, <1>s, <1>l, <2>1, <2>2, <2>3 DEF Untouched
  <2>6. OneHandled'
    BY <1>l, <2>1, <2>2 DEF OneHandled, Live
  <2>7. HandledInOrder'
    BY <1>q, <1>l, <2>1, <2>2, <2>3, <2>4 DEF HandledInOrder, OneHandled, Live, Clean
  <2>8. FilesWhole'
    <3>1. \A q \in Requests : pc[q] = "adding" => pc'[q] = "adding"
      BY <2>1, <2>2
    <3> QED
      BY <1>0, <1>s, <2>1, <2>3, <2>4, <3>1 DEF FilesWhole, Clean
  <2>9. SentInOrder'
    <3> SUFFICES ASSUME Clean(session), phase \in {"sending", "waiting"} PROVE SentInOrder'
      BY <1>l, <2>1 DEF SentInOrder, Clean
    <3>1. Chunks # {} /\ s # 0
      BY <1>0, <1>q DEF Chunks
    <3>2. CASE s = session
      BY <1>0, <1>l, <2>1, <2>2, <2>3, <2>4, <3>1, <3>2
        DEF SentInOrder, OneHandled, Live, Clean, Waiting
    <3>3. CASE s # session
      BY <1>0, <1>c, <1>l, <2>1, <2>2, <2>3, <3>3 DEF SentInOrder, Waiting
    <3> QED
      BY <3>2, <3>3
  <2>10. LastIsRow'
    BY <1>0, <1>l, <2>1, <2>2 DEF LastIsRow, Waiting
  <2> QED
    BY <2>5, <2>6, <2>7, <2>8, <2>9, <2>10
<1>3. CASE Add(r)
  <2>1. pc[r] = "adding" /\ UNCHANGED <<part, temp, doubt>>
    BY <1>3 DEF Add
  <2>2. CASE row # 0
    <3>1. ~Clean(s)
      BY <1>l, <2>2 DEF HandledInOrder
    <3> QED
      BY <1>3, <1>a, <2>1, <2>2, <3>1 DEF Add
  <2>3. CASE row = 0
    <3>1. /\ row' = s /\ s # 0
          /\ pc' = [pc EXCEPT ![r] = IF phase = "waiting" /\ r = Current THEN "ok" ELSE "closed"]
      BY <1>3, <1>q, <2>3 DEF Add
    <3>2. \A q \in Requests : IF q = r THEN pc'[q] \in {"ok", "closed"} ELSE pc'[q] = pc[q]
      BY <3>1
    <3>3. \A t \in Sessions : Clean(t)' => t = s /\ Clean(t)
      BY <2>1, <2>3, <3>1 DEF Clean, Sessions
    <3>4. Clean(s) => temp[s] = Chunks /\ k = N
      BY <1>l, <2>1 DEF HandledInOrder
    <3>5. Untouched'
      BY <1>0, <1>s, <1>l, <2>1, <3>1, <3>2 DEF Untouched
    <3>6. OneHandled'
      BY <1>l, <2>1, <3>2 DEF OneHandled, Live
    <3>7. HandledInOrder'
      <4>1. ASSUME NEW q \in Requests, Live(q)', Clean(q[1])' PROVE FALSE
        <5>1. q # r /\ Live(q)
          BY <3>2, <4>1 DEF Live
        <5>2. q[1] = s /\ s \notin doubt
          BY <1>q, <3>3, <4>1 DEF Clean
        <5> QED
          BY <1>l, <5>1, <5>2 DEF OneHandled
      <4> QED
        BY <4>1 DEF HandledInOrder
    <3>8. FilesWhole'
      BY <2>1, <3>1, <3>3, <3>4 DEF FilesWhole
    <3>9. SentInOrder'
      <4> SUFFICES ASSUME Clean(session)', phase \in {"sending", "waiting"} PROVE SentInOrder'
        BY <1>l DEF SentInOrder, Clean
      <4>1. s = session /\ Clean(session) /\ r = Current /\ phase = "waiting" /\ chunk = N
        BY <1>0, <1>c, <1>l, <3>3, <3>4 DEF OneHandled, Clean
      <4> QED
        BY <1>l, <3>1, <4>1 DEF SentInOrder, Waiting
    <3>10. LastIsRow'
      BY <1>0, <1>c, <1>l, <2>3, <3>1, <3>2 DEF LastIsRow, Waiting
    <3> QED
      BY <3>5, <3>6, <3>7, <3>8, <3>9, <3>10
  <2> QED
    BY <2>2, <2>3
<1>4. CASE RenameMisses(r) \/ Refuse(r)
  BY <1>4, <1>a DEF RenameMisses, Refuse
<1>5. CASE WriteFails(r)
  BY <1>5, <1>a DEF WriteFails
<1>6. CASE RenameFails(r)
  <2>1. /\ pc[r] = "renaming" /\ row' = row
        /\ pc' = [pc EXCEPT ![r] = IF phase = "waiting" /\ r = Current THEN "error" ELSE "closed"]
    BY <1>6 DEF RenameFails
  <2>2. CASE UNCHANGED <<part, temp, doubt>>
    BY <1>a, <2>1, <2>2
  <2>3. CASE Move(s) /\ doubt' = doubt \cup {s}
    <3>1. \A t \in Sessions : t # s => part'[t] = part[t] /\ temp'[t] = temp[t]
      BY <2>3 DEF Move
    <3> QED
      BY <1>b, <2>1, <2>3, <3>1
  <2> QED
    BY <1>6, <2>2, <2>3 DEF RenameFails
<1>7. CASE AddFails(r)
  BY <1>7, <1>b DEF AddFails
<1> QED
  BY <1>1, <1>2, <1>3, <1>4, <1>5, <1>6, <1>7 DEF Handle, ServerFails

LEMMA AssemblyInductive == Spec => []AssemblyInv
<1>1. TypeOK /\ AssemblyInv /\ [Next]_vars => AssemblyInv'
  <2> SUFFICES ASSUME TypeOK, AssemblyInv, [Next]_vars PROVE AssemblyInv'
    OBVIOUS
  <2>1. CASE UNCHANGED vars
    BY <2>1 DEF vars, clientVars, serverVars, AssemblyInv, Untouched, OneHandled, HandledInOrder,
       FilesWhole, SentInOrder, LastIsRow, Waiting, Live, Clean, Current
  <2>2. CASE \/ Send \/ ReplyOk \/ ReplyError \/ ReplyRefused \/ StartOver
             \/ RequestLost \/ ConnectionBreaks
    BY <2>2, ClientStep
  <2>3. ASSUME NEW r \in Requests, Handle(r) \/ ServerFails(r) PROVE AssemblyInv'
    BY <2>3, ServerStep
  <2> QED
    BY <2>1, <2>2, <2>3 DEF Next
<1> QED
  BY <1>1, AssemblyInit, ChunkTypeCorrect, PTL DEF Spec

\* Whatever is lost, refused, fails or is sent again: a file whose row exists waits in
\* storage/temp with every one of its chunks, unless an attempt of its session failed
\* or was given up when it might have renamed <id>.part.
THEOREM WaitingFilesAreWhole == Spec => []WaitsWhole
<1>1. TypeOK /\ AssemblyInv => WaitsWhole
  BY DEF TypeOK, AssemblyInv, FilesWhole, Clean, WaitsWhole
<1> QED
  BY <1>1, AssemblyInductive, ChunkTypeCorrect, PTL

\* A client that is told that its file has arrived has its row in its own session, and
\* the file there is whole unless an attempt of the session left it in doubt.
THEOREM ToldFilesAreStored == Spec => []ToldIsStored
<1>1. TypeOK /\ AssemblyInv => ToldIsStored
  BY DEF TypeOK, AssemblyInv, LastIsRow, FilesWhole, Clean, ToldIsStored
<1> QED
  BY <1>1, AssemblyInductive, ChunkTypeCorrect, PTL

(***************************************************************************)
(* The protocol implements FileTransfer: the steps in which the file       *)
(* becomes whole or damaged, the client learns the outcome, or an attempt  *)
(* is in doubt for the first time map to steps of FileTransfer, all others *)
(* to stutters.                                                            *)
(***************************************************************************)
Stored  == row # 0 /\ temp[row] = Chunks
Told    == IF phase \in {"done", "failed"} THEN phase ELSE "waiting"
Unclear == doubt # {}

LEMMA TransferStep ==
  TypeOK /\ AssemblyInv /\ [Next]_vars => [Transfer!Next]_Transfer!vars
<1> SUFFICES ASSUME TypeOK, AssemblyInv, [Next]_vars
             PROVE  Transfer!Next \/ UNCHANGED <<Stored, Told, Unclear>>
  BY DEF Transfer!vars, Stored, Told, Unclear
<1> USE DEF clientVars, serverVars
<1>0. /\ Stored \in BOOLEAN /\ Stored' \in BOOLEAN /\ Unclear \in BOOLEAN /\ Unclear' \in BOOLEAN
      /\ Told \in {"waiting", "done", "failed"}
  BY DEF Stored, Unclear, Told, TypeOK
<1>s. UNCHANGED <<row, temp>> => UNCHANGED Stored
  BY DEF Stored
<1>d. UNCHANGED doubt => UNCHANGED Unclear
  BY DEF Unclear
<1>3. CASE ReplyOk
  <2>1. phase = "waiting" /\ UNCHANGED <<Stored, Unclear>>
    BY <1>3, <1>s, <1>d DEF ReplyOk
  <2>2. CASE chunk = N
    <3>1. phase' = "done" /\ Waiting("ok")
      BY <1>3, <2>2 DEF ReplyOk, Waiting
    <3>2. row = session /\ row # 0
      BY <2>2, <3>1 DEF AssemblyInv, LastIsRow, TypeOK, Sessions
    <3>3. Stored \/ Unclear
      BY <3>2 DEF AssemblyInv, FilesWhole, Clean, TypeOK, Stored, Unclear
    <3> QED
      BY <2>1, <3>1, <3>3 DEF Transfer!Next, Transfer!Tell, Told, Stored, Unclear
  <2>3. CASE chunk # N
    BY <1>3, <2>1, <2>3 DEF ReplyOk, Told
  <2> QED
    BY <2>2, <2>3
<1>4. CASE ReplyError \/ ReplyRefused \/ RequestLost \/ ConnectionBreaks
  <2>1. /\ phase = "waiting" /\ phase' \in {"sending", "failed"} /\ UNCHANGED <<row, temp>>
        /\ doubt' = doubt \/ doubt' = doubt \cup {session}
    BY <1>4, RetryGoesOn DEF ReplyError, ReplyRefused, RequestLost, ConnectionBreaks
  <2>2. Told = "waiting" /\ Told' \in {"waiting", "failed"} /\ UNCHANGED Stored
    BY <1>s, <2>1 DEF Told
  <2>3. CASE UNCHANGED Unclear
    BY <2>2, <2>3 DEF Transfer!Next, Transfer!GiveUp, Stored, Told, Unclear
  <2>4. CASE ~Unclear /\ Unclear'
    BY <2>2, <2>4 DEF Transfer!Next, Transfer!LoseTrack, Stored, Told, Unclear
  <2> QED
    BY <1>0, <2>1, <2>3, <2>4 DEF Unclear
<1>5. CASE StartOver
  <2>1. Told' = "waiting" /\ UNCHANGED <<Stored, Unclear>>
    BY <1>5, <1>s, <1>d DEF StartOver, Told
  <2> QED
    BY <1>0, <2>1 DEF Transfer!Next, Transfer!TryAgain, Stored, Told, Unclear
\* In a session without doubt, no request is handled any more once the row is there.
<1>h. ASSUME NEW r \in Requests, Live(r), row = r[1] PROVE Unclear
  <2>1. r[1] \in Sessions /\ r[1] # 0
    BY DEF Requests, Sessions
  <2>2. r[1] \in doubt
    BY <1>h, <2>1 DEF AssemblyInv, HandledInOrder, Clean
  <2> QED
    BY <2>2 DEF Unclear
<1>6. ASSUME NEW r \in Requests, Handle(r) \/ ServerFails(r)
      PROVE  Transfer!Next \/ UNCHANGED <<Stored, Told, Unclear>>
  <2>l. Live(r) /\ UNCHANGED Told
    BY <1>6 DEF Handle, ServerFails, Write, Rename, RenameMisses, Add, Refuse, WriteFails,
       RenameFails, AddFails, Move, Live, Handling, Told
  \* Once an attempt is in doubt the file may become whole or damaged.
  <2>1. CASE Unclear /\ Unclear'
    <3>1. \/ UNCHANGED Stored
          \/ Stored = FALSE /\ Stored' = TRUE
          \/ Stored = TRUE /\ Stored' = FALSE
      BY <1>0
    <3> QED
      BY <2>l, <2>1, <3>1 DEF Transfer!Next, Transfer!Store, Transfer!Spoil, Stored, Told, Unclear
  <2>2. CASE Write(r) \/ RenameMisses(r) \/ Refuse(r) \/ WriteFails(r)
    BY <1>s, <1>d, <2>l, <2>2 DEF Write, RenameMisses, Refuse, WriteFails
  <2>3. CASE Rename(r)
    <3>1. UNCHANGED <<row, doubt>> /\ temp' = [temp EXCEPT ![r[1]] = part[r[1]]]
      BY <2>3 DEF Rename, Move
    <3>2. CASE row = r[1]
      BY <1>d, <1>h, <2>l, <2>1, <3>1, <3>2
    <3>3. CASE row # r[1]
      <4>1. row # 0 => temp'[row] = temp[row]
        BY <3>1, <3>3 DEF TypeOK
      <4> QED
        BY <1>d, <2>l, <3>1, <4>1 DEF Stored
    <3> QED
      BY <3>2, <3>3
  <2>4. CASE Add(r)
    <3>1. UNCHANGED <<temp, doubt>> /\ (row = 0 \/ row' = row)
      BY <2>4 DEF Add
    <3>2. CASE row = 0
      <4>1. Stored = FALSE /\ Stored' \in {FALSE, TRUE} /\ UNCHANGED Unclear
        BY <1>0, <1>d, <3>1, <3>2 DEF Stored
      <4> QED
        BY <2>l, <4>1 DEF Transfer!Next, Transfer!Store, Stored, Told, Unclear
    <3>3. CASE row' = row
      BY <1>s, <1>d, <2>l, <3>1, <3>3
    <3> QED
      BY <3>1, <3>2, <3>3
  <2>5. CASE RenameFails(r)
    <3>1. CASE UNCHANGED <<part, temp, doubt>>
      BY <1>s, <1>d, <2>l, <2>5, <3>1 DEF RenameFails
    <3>2. CASE Move(r[1]) /\ doubt' = doubt \cup {r[1]}
      <4>1. Unclear' /\ UNCHANGED row /\ temp' = [temp EXCEPT ![r[1]] = part[r[1]]]
        BY <2>5, <3>2 DEF RenameFails, Move, Unclear
      <4>2. CASE Unclear
        BY <2>1, <4>1, <4>2
      <4>3. CASE ~Unclear
        <5>1. row # 0 => temp'[row] = temp[row]
          BY <1>h, <2>l, <4>1, <4>3 DEF TypeOK
        <5>2. UNCHANGED Stored
          BY <4>1, <5>1 DEF Stored
        <5> QED
          BY <2>l, <4>1, <4>3, <5>2 DEF Transfer!Next, Transfer!LoseTrack, Stored, Told, Unclear
      <4> QED
        BY <4>2, <4>3
    <3> QED
      BY <2>5, <3>1, <3>2 DEF RenameFails
  <2>6. CASE AddFails(r)
    <3>1. Unclear' /\ UNCHANGED temp /\ (row = 0 \/ row' = row)
      BY <2>6 DEF AddFails, Unclear
    <3>2. CASE Unclear
      BY <2>1, <3>1, <3>2
    <3>3. CASE ~Unclear
      <4>1. Stored' \in {Stored, TRUE}
        BY <1>0, <1>s, <3>1 DEF Stored
      <4> QED
        BY <2>l, <3>1, <3>3, <4>1 DEF Transfer!Next, Transfer!LoseTrack, Stored, Told, Unclear
    <3> QED
      BY <3>2, <3>3
  <2> QED
    BY <1>6, <2>2, <2>3, <2>4, <2>5, <2>6 DEF Handle, ServerFails
<1>7. CASE Send \/ UNCHANGED vars
  BY <1>7, <1>s, <1>d DEF Send, vars, Told
<1> QED
  BY <1>3, <1>4, <1>5, <1>6, <1>7 DEF Next

\* Whatever fails, the chunked upload implements FileTransfer: until an attempt is in
\* doubt a file is stored once and stays, and the client is told only then.
THEOREM UploadIsATransfer == Spec => ImplementsTransfer
<1> SUFFICES Spec => Transfer!Spec
  BY DEF ImplementsTransfer
<1>1. Init => Transfer!Init
  BY DEF Init, Transfer!Init
<1> QED
  BY <1>1, TransferStep, AssemblyInductive, ChunkTypeCorrect, PTL DEF Spec, Transfer!Spec

(***************************************************************************)
(* What RetrySucceeds rests on: the client always has an answer to come,   *)
(* it gives up only for a refusal or when all its attempts have failed,    *)
(* and a session takes a bounded number of steps.                          *)
(***************************************************************************)

\* A client that waits for a reply waits for a request that the server handles
\* or has answered.
Awaited == phase = "waiting" => pc[Current] \in Handling \cup Answers

\* Every attempt but the first is for one that failed.
TriesCounted ==
    /\ phase = "failed" => failures >= MaxAttempts \/ Refused
    /\ phase \in {"sending", "waiting"} => attempt <= failures + 1

LEMMA TriesStep ==
  TypeOK /\ Awaited /\ TriesCounted /\ [Next]_vars => Awaited' /\ TriesCounted'
<1> SUFFICES ASSUME TypeOK, Awaited, TriesCounted, [Next]_vars
             PROVE  Awaited' /\ TriesCounted'
  OBVIOUS
<1> USE ChunkAssumption DEF clientVars, serverVars, Goto, Answer, Handling, Answers, Refused
<1>0. /\ Current \in Requests
      /\ pc \in [Requests -> {"unsent", "closed"} \cup Handling \cup Answers]
      /\ attempt \in Nat /\ attempt <= MaxAttempts /\ failures \in Nat
  BY CurrentIsARequest DEF TypeOK
<1>1. CASE Send
  <2>1. Current' = Current /\ pc' = [pc EXCEPT ![Current] = "writing"]
        /\ UNCHANGED <<attempt, failures>> /\ phase = "sending" /\ phase' = "waiting"
    BY <1>1 DEF Send, Current
  <2> QED
    BY <1>0, <2>1 DEF Awaited, TriesCounted
<1>2. CASE ReplyOk
  <2>1. /\ failures' = failures /\ phase = "waiting"
        /\ phase' \in {"sending", "done"} /\ (phase' = "sending" => attempt' = 1)
    BY <1>2 DEF ReplyOk
  <2> QED
    BY <1>0, <2>1 DEF Awaited, TriesCounted
<1>3. CASE ReplyError \/ RequestLost \/ ConnectionBreaks
  <2>1. phase = "waiting" /\ Retry
    BY <1>3 DEF ReplyError, RequestLost, ConnectionBreaks
  <2>2. /\ failures' = failures + 1
        /\ \/ phase' = "failed" /\ attempt >= MaxAttempts
           \/ phase' = "sending" /\ attempt' = attempt + 1
    BY <2>1, RetryGoesOn
  <2> QED
    BY <1>0, <2>1, <2>2 DEF Awaited, TriesCounted
<1>4. CASE ReplyRefused
  BY <1>4 DEF ReplyRefused, Awaited, TriesCounted, Current
<1>5. CASE StartOver
  BY <1>5 DEF StartOver, Awaited, TriesCounted
<1>6. ASSUME NEW r \in Requests, Handle(r) \/ ServerFails(r) PROVE Awaited' /\ TriesCounted'
  <2>1. UNCHANGED <<session, chunk, attempt, phase, failures, Current>> /\ pc[r] \in Handling
    BY <1>6 DEF Handle, ServerFails, Write, Rename, RenameMisses, Add, Refuse, WriteFails,
       RenameFails, AddFails, Move, Current
  <2>2. \E to \in {"renaming", "adding"} \cup Answers :
            pc' = [pc EXCEPT ![r] = IF to \in Answers /\ ~(phase = "waiting" /\ r = Current)
                                      THEN "closed" ELSE to]
    BY <1>6 DEF Handle, ServerFails, Write, Rename, RenameMisses, Add, Refuse, WriteFails,
       RenameFails, AddFails
  <2>3. phase = "waiting" => pc'[Current] \in Handling \cup Answers
    BY <1>0, <2>2 DEF Awaited
  <2>4. phase = "failed" /\ pc[Current] = "refused" => pc'[Current] = "refused"
    BY <1>0, <2>1, <2>2
  <2> QED
    BY <2>1, <2>3, <2>4 DEF Awaited, TriesCounted
<1>7. CASE UNCHANGED vars
  BY <1>7 DEF vars, Awaited, TriesCounted, Current
<1> QED
  BY <1>1, <1>2, <1>3, <1>4, <1>5, <1>6, <1>7 DEF Next

\* No client is left waiting, and none gives a session up in which fewer attempts have
\* failed, by a broken connection or a 5xx, than a chunk has, unless it is refused
\* (upload-client.ts, uploadChunkWithRetry).
SessionHolds ==
    /\ Awaited
    /\ failures < MaxAttempts /\ ~Refused => phase # "failed"

THEOREM FirstTriesAreEnough == Spec => []SessionHolds
<1>1. Init => Awaited /\ TriesCounted
  BY DEF Init, Awaited, TriesCounted
<1>2. TypeOK /\ Awaited /\ TriesCounted => SessionHolds
  BY ChunkAssumption DEF TypeOK, TriesCounted, SessionHolds
<1> QED
  BY <1>1, <1>2, TriesStep, ChunkTypeCorrect, PTL DEF Spec

\* What is left to do in a session: the chunks after this one with all their
\* attempts, the attempts left for this one, and the steps of the current one.
Steps == [writing |-> 4, renaming |-> 3, adding |-> 2, ok |-> 1, error |-> 1, refused |-> 1,
          closed |-> 0, unsent |-> 0]
ToDo == IF phase = "sending" THEN 5 ELSE IF phase = "waiting" THEN Steps[pc[Current]] ELSE 0
Attempts == (N - chunk) * MaxAttempts + (MaxAttempts - attempt)
Work == 6 * Attempts + ToDo

\* Within a session, every step of the client and of the request it waits for leaves
\* less to do, and the requests it has given up leave as much.
WorkStays == Work' = Work /\ UNCHANGED clientVars /\ (phase = "waiting" => pc'[Current] = pc[Current])
WorkShrinks ==
    [][session' = session => Work' \in Nat /\ (Work' < Work \/ WorkStays)]_vars

LEMMA WorkTyped == TypeOK => Attempts \in Nat /\ ToDo \in 0 .. 5
<1> SUFFICES ASSUME TypeOK PROVE Attempts \in Nat /\ ToDo \in 0 .. 5
  OBVIOUS
<1>1. N - chunk \in Nat /\ MaxAttempts \in Nat /\ MaxAttempts - attempt \in Nat
  BY ChunkAssumption DEF TypeOK, Chunks
<1>2. (N - chunk) * MaxAttempts \in Nat
  BY <1>1
<1>3. pc[Current] \in {"unsent", "ok", "error", "refused", "closed",
                       "writing", "renaming", "adding"}
  BY CurrentIsARequest DEF TypeOK, Handling, Answers
<1> QED
  BY <1>1, <1>2, <1>3 DEF Attempts, ToDo, Steps

LEMMA AttemptsShrink ==
  ASSUME TypeOK,
         \/ chunk' = chunk /\ attempt' = attempt + 1
         \/ chunk' = chunk + 1 /\ attempt' = 1
  PROVE  Attempts' + 1 <= Attempts
<1>1. /\ N \in Nat /\ chunk \in Nat /\ attempt \in Nat
      /\ MaxAttempts \in Nat /\ attempt <= MaxAttempts
  BY ChunkAssumption DEF TypeOK, Chunks
<1>2. (N - (chunk + 1)) * MaxAttempts + MaxAttempts = (N - chunk) * MaxAttempts
  BY <1>1
<1>3. CASE chunk' = chunk /\ attempt' = attempt + 1
  BY <1>1, <1>3 DEF Attempts
<1>4. CASE chunk' = chunk + 1 /\ attempt' = 1
  BY <1>1, <1>2, <1>4 DEF Attempts
<1> QED
  BY <1>3, <1>4

LEMMA Lower ==
  ASSUME NEW a \in Nat, NEW b \in Nat, NEW s \in 0 .. 5, NEW t \in 0 .. 5,
         (b + 1 <= a /\ s >= 1) \/ (b = a /\ t < s)
  PROVE  6 * b + t \in Nat /\ 6 * b + t < 6 * a + s
  OBVIOUS

LEMMA WorkStep ==
  ASSUME TypeOK, TypeOK', Awaited, Next, session' = session
  PROVE  Work' \in Nat /\ (Work' < Work \/ WorkStays)
<1> USE DEF clientVars, serverVars, Goto, Answer, Handling, Answers
<1>0. Attempts \in Nat /\ ToDo \in 0 .. 5 /\ Current \in Requests
  BY WorkTyped, CurrentIsARequest
<1>t. Attempts' \in Nat /\ ToDo' \in 0 .. 5
  <2>1. TypeOK' => (Attempts \in Nat /\ ToDo \in 0 .. 5)'
    BY WorkTyped, PTL
  <2> QED
    BY <2>1
<1>s. UNCHANGED <<chunk, attempt>> => Attempts' = Attempts
  BY DEF Attempts
<1>w. \/ Attempts' + 1 <= Attempts /\ ToDo >= 1
      \/ Attempts' = Attempts /\ ToDo' < ToDo
      => Work' \in Nat /\ Work' < Work
  BY <1>0, <1>t, Lower DEF Work
<1>p. pc \in [Requests -> {"unsent", "ok", "error", "refused", "closed",
                           "writing", "renaming", "adding"}]
  BY DEF TypeOK
<1>1. CASE Send
  <2>1. ToDo = 5 /\ ToDo' = 4
    <3>1. phase = "sending" /\ phase' = "waiting" /\ Current' = Current
          /\ pc'[Current] = "writing"
      BY <1>0, <1>1, <1>p DEF Send, Current
    <3> QED
      BY <3>1 DEF ToDo, Steps
  <2>2. UNCHANGED <<chunk, attempt>>
    BY <1>1 DEF Send
  <2> QED
    BY <1>s, <1>w, <2>1, <2>2
<1>2. CASE ReplyOk
  <2>1. ToDo = 1
    BY <1>2 DEF ReplyOk, ToDo, Steps
  <2>2. CASE chunk = N
    <3>1. ToDo' = 0 /\ UNCHANGED <<chunk, attempt>>
      BY <1>2, <2>2 DEF ReplyOk, ToDo
    <3> QED
      BY <1>s, <1>w, <2>1, <3>1
  <2>3. CASE chunk # N
    <3>1. chunk' = chunk + 1 /\ attempt' = 1
      BY <1>2, <2>3 DEF ReplyOk
    <3>2. Attempts' + 1 <= Attempts
      BY <3>1, AttemptsShrink
    <3> QED
      BY <1>w, <2>1, <3>2
  <2> QED
    BY <2>2, <2>3
<1>3. CASE ReplyError \/ RequestLost \/ ConnectionBreaks
  <2>1. phase = "waiting" /\ Retry /\ pc[Current] \in Handling \cup Answers
    BY <1>3 DEF ReplyError, RequestLost, ConnectionBreaks
  <2>2. ToDo >= 1
    BY <2>1 DEF ToDo, Steps
  <2>3. CASE GivesUp
    <3>1. ToDo' = 0 /\ UNCHANGED <<chunk, attempt>>
      BY <2>1, <2>3 DEF Retry, ToDo
    <3> QED
      BY <1>0, <1>s, <1>w, <2>2, <3>1
  <2>4. CASE ~GivesUp
    <3>1. chunk' = chunk /\ attempt' = attempt + 1
      BY <2>1, <2>4 DEF Retry
    <3>2. Attempts' + 1 <= Attempts
      BY <3>1, AttemptsShrink
    <3> QED
      BY <1>w, <2>2, <3>2
  <2> QED
    BY <2>3, <2>4
<1>4. CASE ReplyRefused
  <2>1. ToDo = 1 /\ ToDo' = 0 /\ UNCHANGED <<chunk, attempt>>
    BY <1>4 DEF ReplyRefused, ToDo, Steps
  <2> QED
    BY <1>s, <1>w, <2>1
<1>5. ASSUME NEW r \in Requests, Handle(r) \/ ServerFails(r)
      PROVE  Work' \in Nat /\ (Work' < Work \/ WorkStays)
  <2>1. Current' = Current /\ UNCHANGED clientVars
    BY <1>5 DEF Handle, ServerFails, Write, Rename, RenameMisses, Add, Refuse, WriteFails,
       RenameFails, AddFails, Move, Current
  <2>2. CASE r = Current /\ phase = "waiting"
    <3>1. \/ pc[r] = "writing" /\ pc'[r] \in {"renaming", "ok", "error", "refused"}
          \/ pc[r] = "renaming" /\ pc'[r] \in {"adding", "error"}
          \/ pc[r] = "adding" /\ pc'[r] \in {"ok", "error"}
      BY <1>5, <1>p, <2>2 DEF Handle, ServerFails, Write, Rename, RenameMisses, Add, Refuse,
         WriteFails, RenameFails, AddFails
    <3>2. ToDo' < ToDo
      BY <2>1, <2>2, <3>1 DEF ToDo, Steps
    <3> QED
      BY <1>s, <1>w, <2>1, <3>2
  <2>3. CASE ~(r = Current /\ phase = "waiting")
    <3>1. phase = "waiting" => pc'[Current] = pc[Current]
      BY <1>5, <1>0, <1>p, <2>3 DEF Handle, ServerFails, Write, Rename, RenameMisses, Add, Refuse,
         WriteFails, RenameFails, AddFails
    <3>2. ToDo' = ToDo /\ Attempts' = Attempts
      BY <1>s, <2>1, <3>1 DEF ToDo
    <3> QED
      BY <1>0, <2>1, <3>1, <3>2 DEF Work, WorkStays
  <2> QED
    BY <2>2, <2>3
<1>6. ~StartOver
  BY DEF StartOver, TypeOK, Sessions
<1> QED
  BY <1>1, <1>2, <1>3, <1>4, <1>5, <1>6 DEF Next

\* A session ends after a bounded number of steps of the client and of the requests it
\* waits for, whatever fails in it: each of them lowers the natural number Work, and
\* no other step raises it.
THEOREM SessionsWearOut == Spec => WorkShrinks
<1>1. TypeOK /\ TypeOK' /\ SessionHolds /\ [Next]_vars
        => [session' = session => Work' \in Nat /\ (Work' < Work \/ WorkStays)]_vars
  BY WorkStep DEF SessionHolds
<1> QED
  BY <1>1, FirstTriesAreEnough, ChunkTypeCorrect, PTL DEF Spec, WorkShrinks
=============================================================================
