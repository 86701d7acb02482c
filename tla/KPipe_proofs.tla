---------------------------- MODULE KPipe_proofs ----------------------------
(* Proofs about KPipe, for every set of file nodes, buffer size and length of a call. *)
EXTENDS KPipe, FiniteSetTheorems, SequenceTheorems, TLAPS

USE EndsAssumption

\* All that the proofs use of the size of the buffer.
LEMMA PipeSize == PIPE_BUF_SIZE \in Nat \ {0} /\ MaxLength \in Nat \ {0}
  BY SizeAssumption

TypeInv == /\ m_Buffer \in [Positions -> Bytes \cup {Nothing}]
           /\ m_ReadPos \in Positions /\ m_WritePos \in Positions
           /\ m_BytesAvailable \in 0..PIPE_BUF_SIZE
           /\ readCondition \subseteq ReadEnds /\ writeCondition \subseteq WriteEnds
           /\ listening \in BOOLEAN /\ inMap \in BOOLEAN
           /\ creator \in {"start", "openRead", "openWrite", "done", "unwind", "failed"}
           /\ owner \in Ends \cup {NoEnd}
           /\ pc \in [Ends -> {"closed", "erasing", "idle", "reading", "readWait",
                               "writeEnter", "writing", "writeWait"}]
           /\ length \in [Ends -> 0..MaxLength] /\ written \in [Ends -> 0..MaxLength]
           /\ nonblock \in [Ends -> BOOLEAN]
           /\ canceled \subseteq Ends

\* The write position is where the contents end.
RingInv == m_WritePos = IF m_ReadPos + m_BytesAvailable < PIPE_BUF_SIZE
                        THEN m_ReadPos + m_BytesAvailable
                        ELSE m_ReadPos + m_BytesAvailable - PIPE_BUF_SIZE

\* The counters count the open nodes.
OpenReaders == {e \in ReadEnds : Open(e)}
OpenWriters == {e \in WriteEnds : Open(e)}
CountInv == /\ m_ReaderCount = Cardinality(OpenReaders)
            /\ m_WriterCount = Cardinality(OpenWriters)

\* A call is made on a node of its kind and has something left to do; a short write has
\* written nothing yet, and a long one between two pieces keeps the mutex.
Reading(e) == pc[e] \in {"reading", "readWait"}
CallInv ==
    \A e \in Ends :
        /\ Reading(e) => e \in ReadEnds /\ length[e] > 0
        /\ Writing(e) => e \in WriteEnds /\ written[e] < length[e]
        /\ Writing(e) /\ Atomic(e) => written[e] = 0 /\ pc[e] # "writing"
        /\ ~Writing(e) \/ pc[e] = "writeEnter" => written[e] = 0
        /\ owner = e <=> pc[e] = "writing"

\* The nodes in the wait lists belong to waiting calls that have to wait.
WaitInv ==
    /\ \A e \in readCondition : pc[e] = "readWait"
    /\ \A e \in writeCondition : pc[e] = "writeWait"
    /\ WaitersMustWait

\* Nothing is open before kpipe_trw opens it, or while the inode is being erased.
MapInv ==
    /\ (\E e \in Ends : Open(e)) => inMap /\ creator \in {"openWrite", "done", "unwind"}
    /\ inMap /\ creator = "done" => \E e \in Ends : Open(e) \/ pc[e] = "erasing"
    /\ creator = "failed" => ~inMap
    /\ creator \in {"openRead", "openWrite"} => inMap
    /\ \A e \in Ends : pc[e] = "erasing" =>
          creator \in {"done", "unwind"} /\ \A f \in Ends : ~Open(f)

IInv == TypeInv /\ RingInv /\ CountInv /\ CallInv /\ WaitInv /\ MapInv

-----------------------------------------------------------------------------
\* What a remainder is in the first two rounds of the ring.
LEMMA Wrap ==
    ASSUME NEW x \in 0..(2 * PIPE_BUF_SIZE - 1)
    PROVE  x % PIPE_BUF_SIZE = IF x < PIPE_BUF_SIZE THEN x ELSE x - PIPE_BUF_SIZE
<1>1. CASE x < PIPE_BUF_SIZE
  BY <1>1, PipeSize
<1>2. CASE x >= PIPE_BUF_SIZE
  <2>1. x = PIPE_BUF_SIZE * 1 + (x - PIPE_BUF_SIZE) /\ x - PIPE_BUF_SIZE \in 0..(PIPE_BUF_SIZE - 1)
    BY <1>2, PipeSize
  <2> QED BY <1>2, <2>1, PipeSize
<1> QED BY <1>1, <1>2, PipeSize

\* A position advanced by no more than the size of the buffer.
LEMMA AdvanceWraps ==
    ASSUME NEW pos \in Positions, NEW n \in 0..PIPE_BUF_SIZE
    PROVE  /\ Advance(pos, n) = IF pos + n < PIPE_BUF_SIZE THEN pos + n
                                                           ELSE pos + n - PIPE_BUF_SIZE
           /\ Advance(pos, n) \in Positions
<1>1. pos + n \in 0..(2 * PIPE_BUF_SIZE - 1) /\ pos \in 0..(PIPE_BUF_SIZE - 1)
  BY PipeSize DEF Positions
<1>2. (pos + n) % PIPE_BUF_SIZE = IF pos + n < PIPE_BUF_SIZE THEN pos + n
                                                             ELSE pos + n - PIPE_BUF_SIZE
  <2> DEFINE x == pos + n
  <2> HIDE DEF x
  <2>1. x % PIPE_BUF_SIZE = IF x < PIPE_BUF_SIZE THEN x ELSE x - PIPE_BUF_SIZE
    <3>1. x \in 0..(2 * PIPE_BUF_SIZE - 1)
      BY <1>1 DEF x
    <3> QED BY <3>1, Wrap
  <2> QED BY <1>1, <2>1, PipeSize DEF x
<1> QED BY <1>1, <1>2, PipeSize DEF Advance, Positions

\* The open nodes can be counted.
LEMMA Sizes ==
    /\ IsFiniteSet(OpenReaders) /\ Cardinality(OpenReaders) \in Nat
    /\ IsFiniteSet(OpenWriters) /\ Cardinality(OpenWriters) \in Nat
    /\ Cardinality(OpenReaders) <= Cardinality(ReadEnds)
    /\ Cardinality(OpenWriters) <= Cardinality(WriteEnds)
    /\ Cardinality(ReadEnds) \in Nat /\ Cardinality(WriteEnds) \in Nat
<1>1. OpenReaders \subseteq ReadEnds /\ OpenWriters \subseteq WriteEnds
  BY DEF OpenReaders, OpenWriters
<1> QED BY <1>1, FS_Subset, FS_CardinalityType

\* A counter is zero exactly when no node of its kind is open.
LEMMA CountZero ==
    ASSUME CountInv
    PROVE  /\ m_ReaderCount \in Nat /\ m_WriterCount \in Nat
           /\ m_ReaderCount = 0 <=> OpenReaders = {}
           /\ m_WriterCount = 0 <=> OpenWriters = {}
  BY Sizes, FS_EmptySet DEF CountInv

\* A pipe that does not exist yet satisfies the invariant.
LEMMA InitIInv == Init => IInv
<1> SUFFICES ASSUME Init PROVE IInv
  OBVIOUS
<1> USE PipeSize DEF Init
<1>1. TypeInv
  <2>1. /\ m_Buffer \in [Positions -> Bytes \cup {Nothing}]
        /\ m_ReadPos \in Positions /\ m_WritePos \in Positions
        /\ m_BytesAvailable \in 0..PIPE_BUF_SIZE
        /\ length \in [Ends -> 0..MaxLength] /\ written \in [Ends -> 0..MaxLength]
    BY DEF Positions
  <2>2. nonblock \in [Ends -> BOOLEAN]
    BY Zenon
  <2> QED BY <2>1, <2>2 DEF TypeInv
<1>2. RingInv /\ CallInv /\ WaitInv /\ MapInv
  BY DEF RingInv, CallInv, WaitInv, WaitersMustWait, MapInv, Reading, Writing, Open, Ends
<1>3. OpenReaders = {} /\ OpenWriters = {}
  BY DEF OpenReaders, OpenWriters, Open, Ends
<1>4. CountInv
  BY <1>3, FS_EmptySet DEF CountInv
<1> QED BY <1>1, <1>2, <1>4 DEF IInv

-----------------------------------------------------------------------------
\* A step that opens and closes nothing keeps the counters and the map.
LEMMA SameEnds ==
    ASSUME CountInv, MapInv, UNCHANGED <<countVars, inMap, creator>>,
           \A e \in Ends : Open(e)' = Open(e),
           \A e \in Ends : (pc'[e] = "erasing") = (pc[e] = "erasing")
    PROVE  CountInv' /\ MapInv'
<1>1. OpenReaders' = OpenReaders /\ OpenWriters' = OpenWriters
  BY DEF OpenReaders, OpenWriters, Ends
<1>2. CountInv'
  BY <1>1 DEF CountInv, countVars
<1>3. MapInv'
  BY DEF MapInv
<1> QED BY <1>2, <1>3

\* The same for a step of the call on e.
LEMMA CallKeepsEnds ==
    ASSUME TypeInv, CountInv, MapInv, UNCHANGED <<countVars, inMap, creator>>, NEW e \in Ends,
           NEW label \in {"idle", "reading", "readWait", "writeEnter", "writing", "writeWait"},
           pc[e] \notin {"closed", "erasing"}, pc' = [pc EXCEPT ![e] = label]
    PROVE  CountInv' /\ MapInv'
<1>1. /\ \A f \in Ends : Open(f)' = Open(f)
      /\ \A f \in Ends : (pc'[f] = "erasing") = (pc[f] = "erasing")
  BY DEF Open, TypeInv
<1> QED BY <1>1, SameEnds

-----------------------------------------------------------------------------
\* A call that returns, and what that leaves of the invariant.
LEMMA ReturnKeeps ==
    ASSUME IInv, NEW e \in Ends, Reading(e) \/ Writing(e), owner \in {NoEnd, e}, Return(e),
           UNCHANGED <<countVars, inMap, creator>>
    PROVE  /\ CountInv' /\ MapInv' /\ CallInv'
           /\ owner' \in Ends \cup {NoEnd}
           /\ pc' \in [Ends -> {"closed", "erasing", "idle", "reading", "readWait",
                                "writeEnter", "writing", "writeWait"}]
           /\ length' \in [Ends -> 0..MaxLength] /\ written' \in [Ends -> 0..MaxLength]
           /\ nonblock' \in [Ends -> BOOLEAN]
           /\ \A f \in Ends \ {e} : /\ pc'[f] = pc[f] /\ length'[f] = length[f]
                                    /\ written'[f] = written[f]
<1> USE PipeSize DEF IInv, Return
<1>1. pc[e] \notin {"closed", "erasing"} /\ pc' = [pc EXCEPT ![e] = "idle"]
  BY DEF Reading, Writing
<1>2. CountInv' /\ MapInv'
  BY <1>1, CallKeepsEnds
<1>3. /\ owner' \in Ends \cup {NoEnd}
      /\ pc' \in [Ends -> {"closed", "erasing", "idle", "reading", "readWait",
                           "writeEnter", "writing", "writeWait"}]
      /\ length' \in [Ends -> 0..MaxLength] /\ written' \in [Ends -> 0..MaxLength]
      /\ \A f \in Ends \ {e} : /\ pc'[f] = pc[f] /\ length'[f] = length[f]
                               /\ written'[f] = written[f]
  BY DEF TypeInv
<1>4. nonblock' \in [Ends -> BOOLEAN]
  BY DEF TypeInv
<1>5. CallInv'
  BY <1>3 DEF CallInv, TypeInv, Reading, Writing, Atomic, Ends
<1> QED BY <1>2, <1>3, <1>4, <1>5

\* A call that returns without having moved anything.
LEMMA GiveUpStep ==
    ASSUME IInv, NEW e \in Ends, Reading(e) \/ Writing(e), owner \in {NoEnd, e}, GiveUp(e),
           e \notin readCondition, e \notin writeCondition,
           UNCHANGED <<countVars, inMap, creator, canceled>>
    PROVE  IInv'
<1> USE DEF IInv, GiveUp
<1>1. TypeInv' /\ CountInv' /\ MapInv' /\ CallInv'
  BY ReturnKeeps DEF TypeInv, ringVars, waitVars
<1>2. RingInv'
  BY DEF RingInv, ringVars
<1>3. \A f \in Ends \ {e} : pc'[f] = pc[f] /\ length'[f] = length[f] /\ written'[f] = written[f]
  BY ReturnKeeps
<1>4. WaitInv'
  BY <1>3 DEF WaitInv, WaitersMustWait, ringVars, waitVars, countVars, FreeSpace, Needed, Atomic,
              TypeInv, Ends
<1> QED BY <1>1, <1>2, <1>4

\* The steps of Read.
LEMMA ReadStep ==
    ASSUME IInv, NEW e \in ReadEnds, Read(e) \/ ReadInterrupted(e)
    PROVE  IInv'
<1> USE PipeSize DEF IInv
<1>1. /\ e \in Ends /\ Reading(e) /\ owner = NoEnd /\ e \notin writeCondition
      /\ UNCHANGED <<countVars, inMap, creator, canceled>>
  BY DEF Read, ReadInterrupted, Reading, WaitInv, Ends, TypeInv
<1>2. CASE ReadInterrupted(e)
  <2>1. Return(e) /\ readCondition' = readCondition \ {e}
        /\ UNCHANGED <<ringVars, writeCondition, listening>>
    BY <1>2 DEF ReadInterrupted
  <2>2. TypeInv' /\ CountInv' /\ MapInv' /\ CallInv' /\ RingInv'
    BY <1>1, <2>1, ReturnKeeps DEF TypeInv, RingInv, ringVars
  <2>3. \A f \in Ends \ {e} : pc'[f] = pc[f] /\ length'[f] = length[f] /\ written'[f] = written[f]
    BY <1>1, <2>1, ReturnKeeps
  <2>4. WaitInv'
    BY <1>1, <2>1, <2>3 DEF WaitInv, WaitersMustWait, ringVars, countVars, FreeSpace, Needed, Atomic,
                TypeInv, Ends
  <2> QED BY <2>2, <2>4
<1>3. CASE Read(e) /\ m_BytesAvailable > 0
  <2> DEFINE n == Smaller(length[e], m_BytesAvailable)
  <2>1. /\ m_ReadPos' = Advance(m_ReadPos, n) /\ m_BytesAvailable' = m_BytesAvailable - n
        /\ writeCondition' = {} /\ Return(e)
        /\ UNCHANGED <<m_Buffer, m_WritePos, readCondition, listening>>
    BY <1>3 DEF Read, ReadData, WakeWriters
  <2>2. n \in 1..m_BytesAvailable
    BY <1>1, <1>3 DEF CallInv, TypeInv, Smaller
  <2>3. readCondition = {} /\ ~listening
    BY <1>3 DEF WaitInv, WaitersMustWait
  <2> HIDE DEF n
  <2>4. /\ m_ReadPos' = IF m_ReadPos + n < PIPE_BUF_SIZE THEN m_ReadPos + n
                                                         ELSE m_ReadPos + n - PIPE_BUF_SIZE
        /\ m_ReadPos' \in Positions
    BY <2>1, <2>2, AdvanceWraps DEF TypeInv
  <2>5. RingInv' /\ m_BytesAvailable' \in 0..PIPE_BUF_SIZE
    BY <2>1, <2>2, <2>4 DEF RingInv, TypeInv, Positions
  <2>6. TypeInv' /\ CountInv' /\ MapInv' /\ CallInv'
    BY <1>1, <2>1, <2>4, <2>5, ReturnKeeps DEF TypeInv
  <2>7. WaitInv'
    BY <2>1, <2>3 DEF WaitInv, WaitersMustWait
  <2> QED BY <2>5, <2>6, <2>7
<1>4. CASE Read(e) /\ m_BytesAvailable = 0 /\ ReadFails(e)
  <2>1. GiveUp(e) /\ e \notin readCondition
    BY <1>1, <1>4 DEF Read, WaitInv
  <2> QED BY <1>1, <2>1, GiveUpStep
<1>5. CASE Read(e) /\ m_BytesAvailable = 0 /\ ~ReadFails(e)
  <2>1. /\ readCondition' = readCondition \cup {e} /\ pc' = [pc EXCEPT ![e] = "readWait"]
        /\ m_WriterCount # 0
        /\ UNCHANGED <<ringVars, writeCondition, listening, owner, length, written, nonblock>>
    BY <1>5 DEF Read, ReadWait, ReadFails
  <2>2. m_WriterCount > 0
    BY <2>1, CountZero
  <2>3. TypeInv' /\ RingInv'
    BY <1>1, <2>1 DEF TypeInv, RingInv, ringVars
  <2>4. CountInv' /\ MapInv'
    BY <1>1, <2>1, CallKeepsEnds DEF Reading
  <2>5. CallInv'
    BY <1>1, <2>1 DEF CallInv, TypeInv, Reading, Writing, Atomic
  <2>6. WaitInv'
    BY <1>1, <1>5, <2>1, <2>2 DEF WaitInv, WaitersMustWait, ringVars, countVars, FreeSpace, Needed,
                Atomic, TypeInv, Ends, Reading
  <2> QED BY <2>3, <2>4, <2>5, <2>6
<1>6. m_BytesAvailable > 0 \/ m_BytesAvailable = 0
  BY DEF TypeInv
<1> QED BY <1>2, <1>3, <1>4, <1>5, <1>6

-----------------------------------------------------------------------------
\* Where the i-th byte behind pos is.
Place(pos, i) == IF pos + i - 1 < PIPE_BUF_SIZE THEN pos + i - 1 ELSE pos + i - 1 - PIPE_BUF_SIZE

\* The b bytes from pos on.
Ring(buf, pos, b) == [i \in 1..b |-> buf[(pos + i - 1) % PIPE_BUF_SIZE]]

Cells == Bytes \cup {Nothing}

\* The ring read from a position on is a sequence, byte by byte what lies at its places.
LEMMA RingPlaces ==
    ASSUME NEW buf \in [Positions -> Cells], NEW pos \in Positions, NEW b \in 0..PIPE_BUF_SIZE
    PROVE  /\ Ring(buf, pos, b) \in Seq(Cells) /\ Len(Ring(buf, pos, b)) = b
           /\ \A i \in 1..b : /\ Ring(buf, pos, b)[i] = buf[Place(pos, i)]
                             /\ Place(pos, i) \in Positions
<1> USE PipeSize DEF Positions
<1>1. ASSUME NEW i \in 1..b
      PROVE  (pos + i - 1) % PIPE_BUF_SIZE = Place(pos, i) /\ Place(pos, i) \in Positions
  <2> DEFINE x == pos + i - 1
  <2>1. x \in 0..(2 * PIPE_BUF_SIZE - 1)
    OBVIOUS
  <2> HIDE DEF x
  <2>2. x % PIPE_BUF_SIZE = IF x < PIPE_BUF_SIZE THEN x ELSE x - PIPE_BUF_SIZE
    BY <2>1, Wrap
  <2> QED BY <2>1, <2>2 DEF x, Place
<1>2. Ring(buf, pos, b) \in [1..b -> Cells]
  BY <1>1 DEF Ring
<1>3. Ring(buf, pos, b) \in Seq(Cells) /\ Len(Ring(buf, pos, b)) = b
  BY <1>2
<1> QED BY <1>1, <1>3 DEF Ring

\* What a write of the next n bytes puts where.
LEMMA WriteCopies ==
    ASSUME IInv, NEW e \in WriteEnds, Writing(e), FreeSpace >= Needed(e), WriteData(e)
    PROVE  LET n == ToCopy(e) IN
           /\ n \in 1..FreeSpace /\ written[e] + n <= length[e]
           /\ Atomic(e) => written[e] = 0 /\ n = length[e]
           /\ m_BytesAvailable' = m_BytesAvailable + n
           /\ m_Buffer' \in [Positions -> Bytes \cup {Nothing}]
           /\ m_WritePos' \in Positions /\ m_ReadPos' = m_ReadPos
           /\ m_BytesAvailable' \in 0..PIPE_BUF_SIZE
           /\ RingInv'
           /\ \A i \in 1..m_BytesAvailable : m_Buffer'[Place(m_ReadPos, i)] = m_Buffer[Place(m_ReadPos, i)]
           /\ \A i \in 1..n : m_Buffer'[Place(m_ReadPos, m_BytesAvailable + i)] = Byte(e, written[e] + i)
<1> USE PipeSize DEF IInv, TypeInv
<1> DEFINE n == ToCopy(e)
           data == [i \in 1..n |-> Byte(e, written[e] + i)]
           first == Contiguous(n, m_WritePos)
<1>0. e \in Ends /\ length[e] \in 0..MaxLength /\ written[e] \in 0..MaxLength
      /\ written[e] < length[e] /\ (Atomic(e) => written[e] = 0)
  BY DEF Ends, CallInv
<1>1. /\ n \in 1..FreeSpace /\ written[e] + n <= length[e]
      /\ Atomic(e) => n = length[e]
  BY <1>0 DEF ToCopy, Smaller, FreeSpace, Needed, Atomic
<1>2. /\ m_Buffer' = CopyIn(data) /\ m_WritePos' = Advance(m_WritePos, n)
      /\ m_BytesAvailable' = m_BytesAvailable + n /\ m_ReadPos' = m_ReadPos
  BY DEF WriteData
<1> HIDE DEF n
<1>3. Len(data) = n /\ \A i \in 1..n : data[i] = Byte(e, written[e] + i)
  BY <1>1 DEF FreeSpace
<1>4. \A i \in 1..n : Byte(e, written[e] + i) \in Bytes
  <2> SUFFICES ASSUME NEW i \in 1..n PROVE Byte(e, written[e] + i) \in Bytes
    OBVIOUS
  <2>1. written[e] + i \in 1..MaxLength
    BY <1>0, <1>1 DEF FreeSpace
  <2> QED BY <2>1 DEF Bytes
<1>5. first = IF n <= PIPE_BUF_SIZE - m_WritePos THEN n ELSE PIPE_BUF_SIZE - m_WritePos
  BY DEF Contiguous, Smaller
<1> HIDE DEF data
<1>6. \A p \in Positions :
         m_Buffer'[p] = IF p \in m_WritePos..m_WritePos + first - 1 THEN data[p - m_WritePos + 1]
                        ELSE IF p < n - first THEN data[first + p + 1]
                        ELSE m_Buffer[p]
  BY <1>2, <1>3 DEF CopyIn
<1> USE DEF Positions
<1>7. m_Buffer' \in [Positions -> Bytes \cup {Nothing}]
  <2>1. ASSUME NEW p \in Positions PROVE m_Buffer'[p] \in Bytes \cup {Nothing}
    <3>1. CASE p \in m_WritePos..m_WritePos + first - 1
      <4>1. p - m_WritePos + 1 \in 1..n
        BY <1>1, <1>5, <3>1 DEF FreeSpace
      <4>2. m_Buffer'[p] = data[p - m_WritePos + 1]
        BY <1>6, <3>1
      <4> QED BY <1>3, <1>4, <4>1, <4>2
    <3>2. CASE p \notin m_WritePos..m_WritePos + first - 1 /\ p < n - first
      <4>1. first + p + 1 \in 1..n
        BY <1>1, <1>5, <3>2 DEF FreeSpace
      <4> QED BY <1>3, <1>4, <1>6, <3>2, <4>1
    <3>3. CASE p \notin m_WritePos..m_WritePos + first - 1 /\ ~(p < n - first)
      BY <1>6, <3>3
    <3> QED BY <3>1, <3>2, <3>3
  <2>2. m_Buffer' = [p \in Positions |-> m_Buffer'[p]]
    BY <1>2 DEF CopyIn
  <2> QED BY <2>1, <2>2
<1>8. n \in 0..PIPE_BUF_SIZE
  BY <1>1 DEF FreeSpace
<1>9. /\ m_WritePos' = IF m_WritePos + n < PIPE_BUF_SIZE THEN m_WritePos + n
                                                         ELSE m_WritePos + n - PIPE_BUF_SIZE
      /\ m_WritePos' \in Positions
  BY <1>2, <1>8, AdvanceWraps
<1> HIDE DEF first
<1>10. m_BytesAvailable' \in 0..PIPE_BUF_SIZE /\ RingInv'
  BY <1>1, <1>2, <1>9 DEF RingInv, FreeSpace
<1>11. ASSUME NEW i \in 1..m_BytesAvailable PROVE m_Buffer'[Place(m_ReadPos, i)] = m_Buffer[Place(m_ReadPos, i)]
  <2>1. Place(m_ReadPos, i) \in Positions
    BY DEF Place
  <2>2. Place(m_ReadPos, i) \notin m_WritePos..m_WritePos + first - 1 /\ ~(Place(m_ReadPos, i) < n - first)
    BY <1>1, <1>5 DEF Place, RingInv, FreeSpace
  <2> QED BY <1>6, <2>1, <2>2
<1>12. ASSUME NEW i \in 1..n
       PROVE  m_Buffer'[Place(m_ReadPos, m_BytesAvailable + i)] = Byte(e, written[e] + i)
  <2> DEFINE p == Place(m_ReadPos, m_BytesAvailable + i)
  <2>1. p \in Positions
    BY <1>1 DEF Place, FreeSpace
  <2>2. CASE i <= first
    <3>1. p \in m_WritePos..m_WritePos + first - 1 /\ p - m_WritePos + 1 = i
      BY <1>1, <1>5, <2>2 DEF Place, RingInv, FreeSpace
    <3> QED BY <1>3, <1>6, <2>1, <3>1
  <2>3. CASE i > first
    <3>1. /\ p \notin m_WritePos..m_WritePos + first - 1 /\ p < n - first
          /\ first + p + 1 = i
      BY <1>1, <1>5, <2>3 DEF Place, RingInv, FreeSpace
    <3> QED BY <1>3, <1>6, <2>1, <3>1
  <2> QED BY <1>1, <1>5, <2>2, <2>3 DEF FreeSpace
<1> QED BY <1>0, <1>1, <1>2, <1>7, <1>9, <1>10, <1>11, <1>12 DEF n

\* The steps of Write.
LEMMA WriteStep ==
    ASSUME IInv, NEW e \in WriteEnds, WriteEnter(e) \/ WriteContinue(e) \/ WriteInterrupted(e)
    PROVE  IInv'
<1> USE PipeSize DEF IInv
<1>1. /\ e \in Ends /\ Writing(e) /\ owner \in {NoEnd, e} /\ e \notin readCondition
      /\ UNCHANGED <<countVars, inMap, creator, canceled>>
  BY DEF WriteEnter, WriteContinue, WriteInterrupted, Writing, WaitInv, Ends, TypeInv
<1>2. CASE WriteInterrupted(e)
  <2>1. Return(e) /\ writeCondition' = writeCondition \ {e}
        /\ UNCHANGED <<ringVars, readCondition, listening>>
    BY <1>2 DEF WriteInterrupted
  <2>2. TypeInv' /\ CountInv' /\ MapInv' /\ CallInv' /\ RingInv'
    BY <1>1, <2>1, ReturnKeeps DEF TypeInv, RingInv, ringVars
  <2>3. \A f \in Ends \ {e} : pc'[f] = pc[f] /\ length'[f] = length[f] /\ written'[f] = written[f]
    BY <1>1, <2>1, ReturnKeeps
  <2>4. WaitInv'
    BY <1>1, <2>1, <2>3 DEF WaitInv, WaitersMustWait, ringVars, countVars, FreeSpace, Needed, Atomic,
                TypeInv, Ends
  <2> QED BY <2>2, <2>4
<1>3. ASSUME e \notin writeCondition, GiveUp(e) PROVE IInv'
  BY <1>1, <1>3, GiveUpStep
<1>4. ASSUME e \notin writeCondition, FreeSpace >= Needed(e), WriteData(e) PROVE IInv'
  <2> DEFINE n == ToCopy(e)
  <2>1. /\ n \in 1..FreeSpace /\ written[e] + n <= length[e]
        /\ Atomic(e) => written[e] = 0 /\ n = length[e]
        /\ m_BytesAvailable' = m_BytesAvailable + n
        /\ m_Buffer' \in [Positions -> Bytes \cup {Nothing}]
        /\ m_WritePos' \in Positions /\ m_ReadPos' = m_ReadPos
        /\ m_BytesAvailable' \in 0..PIPE_BUF_SIZE
        /\ RingInv'
    BY <1>1, <1>4, WriteCopies
  <2>2. /\ readCondition' = {} /\ listening' = FALSE /\ UNCHANGED writeCondition
        /\ \/ Return(e)
           \/ /\ ~Atomic(e) /\ written[e] + n # length[e]
              /\ written' = [written EXCEPT ![e] = @ + n]
              /\ pc' = [pc EXCEPT ![e] = "writing"]
              /\ owner' = e
              /\ UNCHANGED <<length, nonblock>>
    BY <1>4 DEF WriteData
  <2> HIDE DEF n
  <2>3. ASSUME \A f \in Ends \ {e} : /\ pc'[f] = pc[f] /\ length'[f] = length[f]
                                     /\ written'[f] = written[f]
        PROVE  WaitInv'
    <3>1. m_BytesAvailable' >= m_BytesAvailable
      BY <2>1 DEF TypeInv, FreeSpace
    <3> QED BY <1>1, <1>4, <2>1, <2>2, <2>3, <3>1 DEF WaitInv, WaitersMustWait, countVars, FreeSpace, Needed,
                Atomic, TypeInv, Ends
  <2>4. CASE Return(e)
    <3>1. TypeInv' /\ CountInv' /\ MapInv' /\ CallInv'
      BY <1>1, <2>1, <2>2, <2>4, ReturnKeeps DEF TypeInv
    <3>2. \A f \in Ends \ {e} : pc'[f] = pc[f] /\ length'[f] = length[f] /\ written'[f] = written[f]
      BY <1>1, <2>4, ReturnKeeps
    <3> QED BY <2>1, <2>3, <3>1, <3>2
  <2>5. CASE /\ ~Atomic(e) /\ written[e] + n # length[e]
             /\ written' = [written EXCEPT ![e] = @ + n]
             /\ pc' = [pc EXCEPT ![e] = "writing"]
             /\ owner' = e
             /\ UNCHANGED <<length, nonblock>>
    <3>1. /\ written[e] + n < length[e] /\ written[e] + n \in 0..MaxLength
      BY <1>1, <2>1, <2>5 DEF TypeInv, FreeSpace
    <3>2. TypeInv'
      BY <1>1, <2>1, <2>2, <2>5, <3>1 DEF TypeInv
    <3>3. CountInv' /\ MapInv'
      BY <1>1, <2>5, CallKeepsEnds DEF Writing
    <3>4. CallInv'
      BY <1>1, <2>5, <3>1 DEF CallInv, TypeInv, Reading, Writing, Atomic, Ends
    <3> QED BY <2>1, <2>3, <2>5, <3>2, <3>3, <3>4 DEF TypeInv
  <2> QED BY <2>2, <2>4, <2>5
<1>5. ASSUME e \notin writeCondition, FreeSpace < Needed(e), ~WriteFails(e), WriteWait(e) PROVE IInv'
  <2>1. /\ writeCondition' = writeCondition \cup {e} /\ pc' = [pc EXCEPT ![e] = "writeWait"]
        /\ owner' = NoEnd /\ m_ReaderCount # 0
        /\ UNCHANGED <<ringVars, readCondition, listening, length, written, nonblock>>
    BY <1>5 DEF WriteWait, WriteFails
  <2>2. m_ReaderCount > 0
    BY <2>1, CountZero
  <2>3. TypeInv' /\ RingInv'
    BY <1>1, <2>1 DEF TypeInv, RingInv, ringVars
  <2>4. CountInv' /\ MapInv'
    BY <1>1, <2>1, CallKeepsEnds DEF Writing
  <2>5. CallInv'
    BY <1>1, <2>1 DEF CallInv, TypeInv, Reading, Writing, Atomic, Ends
  <2>6. WaitInv'
    BY <1>1, <1>5, <2>1, <2>2 DEF WaitInv, WaitersMustWait, ringVars, countVars, FreeSpace, Needed,
                Atomic, TypeInv, Ends, Writing
  <2> QED BY <2>3, <2>4, <2>5, <2>6
<1>6. CASE WriteEnter(e) \/ WriteContinue(e)
  <2>1. e \notin writeCondition
    BY <1>6 DEF WriteEnter, WriteContinue, WaitInv
  <2>2. WritePass(e) \/ GiveUp(e)
    BY <1>6 DEF WriteEnter, WriteContinue
  <2> QED BY <2>1, <2>2, <1>3, <1>4, <1>5 DEF WritePass
<1> QED BY <1>2, <1>6

-----------------------------------------------------------------------------
\* A new node for the pipe; a creation under way moves on.
LEMMA OpenStep ==
    ASSUME IInv, NEW e \in Ends, OpenFile(e), UNCHANGED <<ringVars, waitVars, inMap, owner, length,
             written, nonblock, canceled>>,
           \/ creator = "openRead" /\ creator' = "openWrite"
           \/ creator = "openWrite" /\ creator' = "done"
           \/ creator = "done" /\ creator' = "done" /\ \E f \in Ends : Open(f)
    PROVE  IInv'
<1> USE DEF IInv
<1>1. pc[e] = "closed" /\ pc' = [pc EXCEPT ![e] = "idle"]
  BY DEF OpenFile
<1>2. TypeInv' /\ RingInv'
  BY <1>1 DEF TypeInv, RingInv, ringVars, waitVars
<1>3. CallInv'
  BY <1>1 DEF CallInv, TypeInv, Reading, Writing, Atomic
<1>4. Open(e)' /\ ~Open(e) /\ \A f \in Ends \ {e} : Open(f)' = Open(f)
  BY <1>1 DEF Open, TypeInv
<1>5. MapInv'
  BY <1>1, <1>4 DEF MapInv, TypeInv, Open
<1>6. CASE e \in WriteEnds
  <2>1. OpenReaders' = OpenReaders /\ OpenWriters' = OpenWriters \cup {e} /\ e \notin OpenWriters
    BY <1>4, <1>6 DEF OpenReaders, OpenWriters, Ends
  <2>2. Cardinality(OpenWriters') = Cardinality(OpenWriters) + 1
    BY <2>1, Sizes, FS_AddElement
  <2>3. m_WriterCount' = m_WriterCount + 1 /\ UNCHANGED m_ReaderCount
    BY <1>6 DEF OpenFile
  <2> QED BY <2>1, <2>2, <2>3, <1>1, <1>2, <1>3, <1>5, CountZero DEF CountInv, WaitInv, WaitersMustWait,
         ringVars, waitVars, FreeSpace, Needed, Atomic, TypeInv, Ends
<1>7. CASE e \notin WriteEnds
  <2>1. OpenReaders' = OpenReaders \cup {e} /\ OpenWriters' = OpenWriters /\ e \notin OpenReaders
    BY <1>4, <1>7 DEF OpenReaders, OpenWriters, Ends
  <2>2. Cardinality(OpenReaders') = Cardinality(OpenReaders) + 1
    BY <2>1, Sizes, FS_AddElement
  <2>3. m_ReaderCount' = m_ReaderCount + 1 /\ UNCHANGED m_WriterCount
    BY <1>7 DEF OpenFile
  <2> QED BY <2>1, <2>2, <2>3, <1>1, <1>2, <1>3, <1>5, CountZero DEF CountInv, WaitInv, WaitersMustWait,
         ringVars, waitVars, FreeSpace, Needed, Atomic, TypeInv, Ends
<1> QED BY <1>6, <1>7

\* The last reference to a node is gone.
LEMMA CloseStep ==
    ASSUME IInv, NEW e \in Ends, CloseFile(e), creator \in {"done", "unwind"}
    PROVE  IInv'
<1> USE DEF IInv
<1>1. /\ pc[e] = "idle" /\ owner = NoEnd /\ canceled' = canceled \ {e}
      /\ pc' = [pc EXCEPT ![e] = IF ShouldErase THEN "erasing" ELSE "closed"]
      /\ UNCHANGED <<ringVars, inMap, creator, owner, length, written, nonblock>>
  BY DEF CloseFile
<1>2. Open(e) /\ ~Open(e)' /\ \A f \in Ends \ {e} : Open(f)' = Open(f)
  BY <1>1 DEF Open, TypeInv
<1>3. CountInv'
  <2>1. CASE e \in WriteEnds
    <3>1. OpenReaders' = OpenReaders /\ OpenWriters' = OpenWriters \ {e} /\ e \in OpenWriters
      BY <1>2, <2>1 DEF OpenReaders, OpenWriters, Ends
    <3>2. Cardinality(OpenWriters') = Cardinality(OpenWriters) - 1
      BY <3>1, Sizes, FS_RemoveElement
    <3>3. m_WriterCount' = m_WriterCount - 1 /\ UNCHANGED m_ReaderCount
      BY <2>1 DEF CloseFile
    <3> QED BY <3>1, <3>2, <3>3 DEF CountInv
  <2>2. CASE e \notin WriteEnds
    <3>1. OpenReaders' = OpenReaders \ {e} /\ OpenWriters' = OpenWriters /\ e \in OpenReaders
      BY <1>2, <2>2 DEF OpenReaders, OpenWriters, Ends
    <3>2. Cardinality(OpenReaders') = Cardinality(OpenReaders) - 1
      BY <3>1, Sizes, FS_RemoveElement
    <3>3. m_ReaderCount' = m_ReaderCount - 1 /\ UNCHANGED m_WriterCount
      BY <2>2 DEF CloseFile
    <3> QED BY <3>1, <3>2, <3>3 DEF CountInv
  <2> QED BY <2>1, <2>2
<1>4. /\ m_ReaderCount' \in Nat /\ m_WriterCount' \in Nat
      /\ (m_ReaderCount' = 0) = (OpenReaders' = {})
      /\ (m_WriterCount' = 0) = (OpenWriters' = {})
  <2>1. OpenReaders' \subseteq ReadEnds /\ OpenWriters' \subseteq WriteEnds
    BY DEF OpenReaders, OpenWriters
  <2>2. IsFiniteSet(OpenReaders') /\ IsFiniteSet(OpenWriters')
    BY <2>1, FS_Subset
  <2> QED BY <1>3, <2>2, FS_EmptySet, FS_CardinalityType DEF CountInv
<1>5. ShouldErase <=> \A f \in Ends : ~Open(f)'
  BY <1>4 DEF ShouldErase, OpenReaders, OpenWriters, Ends
<1>6. MapInv'
  <2>1. CASE ShouldErase
    BY <1>1, <1>2, <1>5, <2>1 DEF MapInv, TypeInv, Open
  <2>2. CASE ~ShouldErase
    BY <1>1, <1>2, <1>5, <2>2 DEF MapInv, TypeInv, Open
  <2> QED BY <2>1, <2>2
<1>7. TypeInv' /\ RingInv' /\ CallInv'
  <2>1. /\ pc' \in [Ends -> {"closed", "erasing", "idle", "reading", "readWait",
                             "writeEnter", "writing", "writeWait"}]
        /\ \A f \in Ends \ {e} : pc'[f] = pc[f]
        /\ pc'[e] \in {"closed", "erasing"}
    BY <1>1 DEF TypeInv
  <2>2. readCondition' \subseteq readCondition /\ writeCondition' \subseteq writeCondition
    BY DEF CloseFile
  <2>3. listening' \in BOOLEAN
    BY DEF CloseFile, TypeInv
  <2>4. TypeInv' /\ RingInv'
    BY <1>1, <2>1, <2>2, <2>3 DEF TypeInv, RingInv, ringVars
  <2>5. CallInv'
    BY <1>1, <2>1 DEF CallInv, TypeInv, Reading, Writing, Atomic
  <2> QED BY <2>4, <2>5
<1>8. WaitInv'
  <2>1. /\ readCondition' \subseteq readCondition /\ writeCondition' \subseteq writeCondition
        /\ readCondition' # {} => m_WriterCount' > 0
        /\ listening' => listening
        /\ writeCondition' # {} => m_ReaderCount' > 0
    <3>1. CASE e \in WriteEnds
      <4>1. /\ readCondition' = IF m_WriterCount' = 0 THEN {} ELSE readCondition
            /\ listening' => listening
            /\ UNCHANGED <<m_ReaderCount, writeCondition>>
        BY <3>1, Zenon DEF CloseFile, LastWriterGone
      <4> QED BY <1>4, <4>1 DEF WaitInv, WaitersMustWait
    <3>2. CASE e \notin WriteEnds
      <4>1. /\ writeCondition' = IF m_ReaderCount' = 0 THEN {} ELSE writeCondition
            /\ UNCHANGED <<m_WriterCount, readCondition, listening>>
        BY <3>2, Zenon DEF CloseFile, LastReaderGone
      <4> QED BY <1>4, <4>1 DEF WaitInv, WaitersMustWait
    <3> QED BY <3>1, <3>2
  <2>2. \A f \in Ends \ {e} : pc'[f] = pc[f]
    BY <1>1 DEF TypeInv
  <2> QED BY <1>1, <2>1, <2>2 DEF WaitInv, WaitersMustWait, ringVars, FreeSpace, Needed, Atomic, TypeInv, Ends
<1> QED BY <1>3, <1>6, <1>7, <1>8

\* The other steps: creation, the erase, calls that begin, cancellation, listeners.
LEMMA OtherStep ==
    ASSUME IInv,
           \/ CreateInode \/ OpenReadFails \/ OpenWriteFails \/ EraseOnUnwind
           \/ \E e \in Ends : \/ \E n \in 1..MaxLength, flag \in BOOLEAN : Call(e, n, flag)
                              \/ EraseInode(e) \/ Cancel(e)
           \/ \E mode \in {"Read", "Write", "ReadWrite"} : AddListener(mode)
           \/ DetachListener
    PROVE  IInv'
<1> USE DEF IInv
<1>1. CASE CreateInode \/ OpenReadFails \/ OpenWriteFails \/ EraseOnUnwind
  <2>1. UNCHANGED <<ringVars, countVars, waitVars, owner, callVars, canceled>>
    BY <1>1 DEF CreateInode, OpenReadFails, OpenWriteFails, EraseOnUnwind, Creating, callVars
  <2>2. creator' \in {"start", "openRead", "openWrite", "done", "unwind", "failed"} /\ inMap' \in BOOLEAN
    BY <1>1 DEF CreateInode, OpenReadFails, OpenWriteFails, EraseOnUnwind, Creating, TypeInv
  <2>3. TypeInv' /\ RingInv'
    BY <2>1, <2>2 DEF TypeInv, RingInv, ringVars, waitVars, callVars
  <2>4. CallInv' /\ WaitInv'
    BY <2>1 DEF CallInv, WaitInv, WaitersMustWait, Reading, Writing, Atomic, Needed, FreeSpace, ringVars,
                countVars, waitVars, callVars
  <2>5. OpenReaders' = OpenReaders /\ OpenWriters' = OpenWriters
    BY <2>1 DEF OpenReaders, OpenWriters, Open, callVars
  <2>6. CountInv'
    BY <2>1, <2>5 DEF CountInv, countVars
  <2>7. MapInv'
    BY <1>1, <2>1 DEF CreateInode, OpenReadFails, OpenWriteFails, EraseOnUnwind, Creating, callVars, MapInv,
                Open
  <2> QED BY <2>3, <2>4, <2>6, <2>7
<1>2. ASSUME NEW e \in Ends, NEW n \in 1..MaxLength, NEW flag \in BOOLEAN, Call(e, n, flag)
      PROVE  IInv'
  <2> DEFINE label == IF e \in ReadEnds THEN "reading" ELSE "writeEnter"
  <2>1. /\ pc[e] = "idle" /\ pc' = [pc EXCEPT ![e] = label]
        /\ length' = [length EXCEPT ![e] = n] /\ nonblock' = [nonblock EXCEPT ![e] = flag]
        /\ UNCHANGED <<ringVars, countVars, waitVars, inMap, creator, owner, written, canceled>>
    BY <1>2 DEF Call
  <2>2. CountInv' /\ MapInv'
    BY <2>1, CallKeepsEnds
  <2>3. TypeInv' /\ RingInv'
    BY <2>1, PipeSize DEF TypeInv, RingInv, ringVars, waitVars
  <2>4. written[e] = 0
    BY <2>1 DEF CallInv, Writing
  <2>5. CallInv'
    BY <2>1, <2>4, PipeSize DEF CallInv, TypeInv, Reading, Writing, Atomic, Ends
  <2>6. WaitInv'
    BY <2>1 DEF WaitInv, WaitersMustWait, ringVars, waitVars, countVars, FreeSpace, Needed, Atomic,
                TypeInv, Ends
  <2> QED BY <2>2, <2>3, <2>5, <2>6
<1>3. ASSUME NEW e \in Ends, EraseInode(e) PROVE IInv'
  <2>1. /\ pc[e] = "erasing" /\ pc' = [pc EXCEPT ![e] = "closed"] /\ inMap' = FALSE
        /\ UNCHANGED <<ringVars, countVars, waitVars, creator, owner, length, written, nonblock, canceled>>
    BY <1>3 DEF EraseInode
  <2>2. TypeInv' /\ RingInv'
    BY <2>1 DEF TypeInv, RingInv, ringVars, waitVars
  <2>3. CallInv' /\ WaitInv'
    BY <2>1 DEF CallInv, WaitInv, WaitersMustWait, Reading, Writing, Atomic, Needed, FreeSpace, ringVars,
                countVars, waitVars, TypeInv, Ends
  <2>4. \A f \in Ends : Open(f)' = Open(f)
    BY <2>1 DEF Open, TypeInv
  <2>5. OpenReaders' = OpenReaders /\ OpenWriters' = OpenWriters
    BY <2>4 DEF OpenReaders, OpenWriters, Ends
  <2>6. CountInv'
    BY <2>1, <2>5 DEF CountInv, countVars
  <2>7. MapInv'
    BY <2>1, <2>4 DEF MapInv, TypeInv
  <2> QED BY <2>2, <2>3, <2>6, <2>7
<1>4. CASE \/ \E e \in Ends : Cancel(e)
           \/ \E mode \in {"Read", "Write", "ReadWrite"} : AddListener(mode)
           \/ DetachListener
  <2>1. /\ UNCHANGED <<ringVars, countVars, readCondition, writeCondition, inMap, creator, owner, callVars>>
        /\ canceled' \subseteq Ends
        /\ listening' \in BOOLEAN
        /\ listening' => listening \/ m_BytesAvailable = 0
    <3>1. CASE \E e \in Ends : Cancel(e)
      BY <3>1 DEF Cancel, waitVars, TypeInv
    <3>2. CASE \E mode \in {"Read", "Write", "ReadWrite"} : AddListener(mode)
      BY <3>2 DEF AddListener, Queues, TypeInv
    <3>3. CASE DetachListener
      BY <3>3 DEF DetachListener, TypeInv
    <3> QED BY <1>4, <3>1, <3>2, <3>3
  <2>2. TypeInv' /\ RingInv'
    BY <2>1 DEF TypeInv, RingInv, ringVars, callVars
  <2>3. CallInv' /\ WaitInv'
    BY <2>1 DEF CallInv, WaitInv, WaitersMustWait, Reading, Writing, Atomic, Needed, FreeSpace, ringVars,
                countVars, callVars
  <2>4. CountInv' /\ MapInv'
    BY <2>1, SameEnds DEF Open, callVars
  <2> QED BY <2>2, <2>3, <2>4
<1> QED BY <1>1, <1>2, <1>3, <1>4

\* Every step keeps the invariant.
LEMMA NextIInv == IInv /\ [Next]_vars => IInv'
<1> SUFFICES ASSUME IInv, [Next]_vars PROVE IInv'
  OBVIOUS
<1>1. CASE UNCHANGED vars
  <2> USE <1>1 DEF vars, ringVars, countVars, waitVars, callVars, IInv
  <2>1. TypeInv' /\ RingInv'
    BY DEF TypeInv, RingInv
  <2>2. CallInv' /\ WaitInv'
    BY DEF CallInv, WaitInv, WaitersMustWait, Reading, Writing, Atomic, Needed, FreeSpace
  <2>3. CountInv' /\ MapInv'
    BY SameEnds DEF Open
  <2> QED BY <2>1, <2>2, <2>3
<1>2. CASE OpenReadEnd \/ OpenWriteEnd
  BY <1>2, OpenStep DEF OpenReadEnd, OpenWriteEnd, Creating, Ends
<1>3. CASE CloseOnUnwind
  BY <1>3, CloseStep DEF CloseOnUnwind, Ends
<1>4. ASSUME NEW e \in Ends, CallStep(e) PROVE IInv'
  BY <1>4, ReadStep, WriteStep DEF CallStep
<1>5. ASSUME NEW e \in Ends, creator = "done", CloseFile(e) PROVE IInv'
  BY <1>5, CloseStep
<1>6. ASSUME NEW e \in Ends, Reopen(e) PROVE IInv'
  BY <1>6, OpenStep DEF Reopen
<1> QED BY <1>1, <1>2, <1>3, <1>4, <1>5, <1>6, OtherStep DEF Next, CreateStep

\* The inductive invariant holds in every reachable state.
LEMMA Inductive == Spec => []IInv
  BY InitIInv, NextIInv, PTL DEF Spec

-----------------------------------------------------------------------------
(***************************************************************************)
(* Positions stay inside the buffer, it never holds more than it can, and  *)
(* the counters of the open nodes neither wrap below zero nor grow beyond  *)
(* the nodes there are.                                                    *)
(***************************************************************************)
THEOREM TypeCorrect == Spec => []TypeOK
<1>1. IInv => TypeOK
  BY Sizes DEF IInv, TypeInv, CountInv, TypeOK
<1> QED BY Inductive, <1>1, PTL

(***************************************************************************)
(* Nobody waits in vain: a linked reader has nothing to read and somebody  *)
(* to write, a linked writer no room and somebody to make some.            *)
(***************************************************************************)
THEOREM NobodyWaitsInVain == Spec => []WaitersMustWait
<1>1. IInv => WaitersMustWait
  BY DEF IInv, WaitInv
<1> QED BY Inductive, <1>1, PTL

(***************************************************************************)
(* The map has the inode exactly as long as somebody can use it, is making *)
(* it or is about to erase it.                                             *)
(***************************************************************************)
THEOREM MappedWhileOpen == Spec => []OpenPipeIsMapped
<1>1. IInv => OpenPipeIsMapped
  BY DEF IInv, MapInv, TypeInv, OpenPipeIsMapped
<1> QED BY Inductive, <1>1, PTL

-----------------------------------------------------------------------------
\* A step that is no read and no write leaves the ring alone.
LEMMA RingSteps ==
    ASSUME IInv, [Next]_vars
    PROVE  \/ UNCHANGED ringVars
           \/ \E e \in ReadEnds : m_BytesAvailable > 0 /\ Reading(e) /\ ReadData(e)
           \/ \E e \in WriteEnds : Writing(e) /\ FreeSpace >= Needed(e) /\ WriteData(e)
<1>1. CASE UNCHANGED vars
  BY <1>1 DEF vars
<1>2. CASE CreateStep
  BY <1>2 DEF CreateStep, CreateInode, OpenReadEnd, OpenWriteEnd, OpenReadFails, OpenWriteFails, CloseOnUnwind,
              EraseOnUnwind, Creating, CloseFile
<1>3. ASSUME NEW e \in ReadEnds, Read(e) \/ ReadInterrupted(e)
      PROVE  UNCHANGED ringVars \/ (m_BytesAvailable > 0 /\ Reading(e) /\ ReadData(e))
  BY <1>3 DEF Read, ReadInterrupted, GiveUp, ReadWait, Reading
<1>4. ASSUME NEW e \in WriteEnds, WriteEnter(e) \/ WriteContinue(e) \/ WriteInterrupted(e)
      PROVE  UNCHANGED ringVars \/ (Writing(e) /\ FreeSpace >= Needed(e) /\ WriteData(e))
  BY <1>4 DEF WriteEnter, WriteContinue, WriteInterrupted, WritePass, GiveUp, WriteWait, Writing
<1>5. ASSUME NEW e \in Ends, \/ \E n \in 1..MaxLength, flag \in BOOLEAN : Call(e, n, flag)
                             \/ CloseFile(e) \/ EraseInode(e) \/ Reopen(e) \/ Cancel(e)
      PROVE  UNCHANGED ringVars
  BY <1>5 DEF Call, CloseFile, EraseInode, Reopen, Cancel
<1>6. ASSUME \/ \E mode \in {"Read", "Write", "ReadWrite"} : AddListener(mode)
             \/ DetachListener
      PROVE  UNCHANGED ringVars
  BY <1>6 DEF AddListener, DetachListener
<1> QED BY <1>1, <1>2, <1>3, <1>4, <1>5, <1>6 DEF Next, CallStep

\* A write appends the next bytes of its call to the contents.
LEMMA WriteAppends ==
    ASSUME IInv, IInv', NEW e \in WriteEnds, Writing(e), FreeSpace >= Needed(e), WriteData(e)
    PROVE  /\ m_BytesAvailable' - m_BytesAvailable = ToCopy(e) /\ ToCopy(e) \in Nat \ {0}
           /\ Contents' = Contents \o [i \in 1..ToCopy(e) |-> Byte(e, written[e] + i)]
           /\ \A i \in m_BytesAvailable + 1..m_BytesAvailable' :
                 Contents'[i] = Byte(e, written[e] + (i - m_BytesAvailable))
<1> USE PipeSize
<1> DEFINE n == ToCopy(e)
           b == m_BytesAvailable
           old == Contents
           new == Contents'
           data == [i \in 1..n |-> Byte(e, written[e] + i)]
           at(i) == Place(m_ReadPos, i)
<1>1. /\ n \in Nat \ {0} /\ b \in Nat /\ m_BytesAvailable' = b + n /\ m_ReadPos' = m_ReadPos
      /\ written[e] \in Nat /\ written[e] + n <= MaxLength
      /\ \A i \in 1..b : m_Buffer'[at(i)] = m_Buffer[at(i)]
      /\ \A i \in 1..n : m_Buffer'[at(b + i)] = Byte(e, written[e] + i)
  BY WriteCopies DEF IInv, TypeInv, FreeSpace, Ends
<1>2. /\ old \in Seq(Cells) /\ Len(old) = b
      /\ \A i \in 1..b : old[i] = m_Buffer[at(i)]
  <2>1. /\ m_Buffer \in [Positions -> Cells] /\ m_ReadPos \in Positions /\ b \in 0..PIPE_BUF_SIZE
    BY DEF IInv, TypeInv, Cells
  <2>2. old = Ring(m_Buffer, m_ReadPos, b)
    BY DEF Contents, Ring
  <2> HIDE DEF b, old
  <2>3. /\ Ring(m_Buffer, m_ReadPos, b) \in Seq(Cells) /\ Len(Ring(m_Buffer, m_ReadPos, b)) = b
        /\ \A i \in 1..b : Ring(m_Buffer, m_ReadPos, b)[i] = m_Buffer[Place(m_ReadPos, i)]
    BY <2>1, RingPlaces
  <2> QED BY <2>2, <2>3
<1>3. /\ new \in Seq(Cells) /\ Len(new) = b + n
      /\ \A i \in 1..(b + n) : new[i] = m_Buffer'[at(i)]
  <2> DEFINE c == b + n
             buf == m_Buffer'
  <2>1. /\ buf \in [Positions -> Cells] /\ m_ReadPos \in Positions /\ c \in 0..PIPE_BUF_SIZE
    BY <1>1 DEF IInv, TypeInv, Cells
  <2>2. new = Ring(buf, m_ReadPos, c)
    BY <1>1 DEF Contents, Ring
  <2> HIDE DEF b, n, c, buf, new
  <2>3. /\ Ring(buf, m_ReadPos, c) \in Seq(Cells) /\ Len(Ring(buf, m_ReadPos, c)) = c
        /\ \A i \in 1..c : Ring(buf, m_ReadPos, c)[i] = buf[Place(m_ReadPos, i)]
    BY <2>1, RingPlaces
  <2> QED BY <2>2, <2>3 DEF c, buf
<1> HIDE DEF n, b, old, new, at
<1>4. data \in Seq(Cells) /\ Len(data) = n /\ \A i \in 1..n : data[i] = Byte(e, written[e] + i)
  <2>1. \A i \in 1..n : Byte(e, written[e] + i) \in Cells
    BY <1>1 DEF Bytes, Cells
  <2>2. data \in [1..n -> Cells]
    BY <2>1
  <2> QED BY <1>1, <2>2
<1> HIDE DEF data
<1>5. /\ old \o data \in Seq(Cells) /\ Len(old \o data) = b + n
      /\ \A i \in 1..(b + n) : (old \o data)[i] = IF i <= b THEN old[i] ELSE data[i - b]
  BY <1>2, <1>4, ConcatProperties
<1>6. \A i \in b + 1..b + n : new[i] = Byte(e, written[e] + (i - b))
  <2> SUFFICES ASSUME NEW i \in b + 1..b + n
               PROVE  new[i] = Byte(e, written[e] + (i - b))
    OBVIOUS
  <2>1. i - b \in 1..n /\ b + (i - b) = i /\ i \in 1..(b + n)
    BY <1>1
  <2> QED BY <1>1, <1>3, <2>1
<1>7. ASSUME NEW i \in 1..(b + n) PROVE new[i] = (old \o data)[i]
  <2>1. CASE i <= b
    <3>1. i \in 1..b
      BY <1>1, <2>1
    <3> QED BY <1>1, <1>2, <1>3, <1>5, <2>1, <3>1
  <2>2. CASE ~(i <= b)
    <3>1. i - b \in 1..n /\ i \in b + 1..b + n
      BY <1>1, <2>2
    <3> QED BY <1>4, <1>5, <1>6, <2>2, <3>1
  <2> QED BY <2>1, <2>2
<1>8. new = old \o data
  BY <1>3, <1>5, <1>7, SeqEqual
<1>9. m_BytesAvailable' - m_BytesAvailable = ToCopy(e) /\ ToCopy(e) \in Nat \ {0}
  BY <1>1 DEF n, b
<1>10. Contents' = Contents \o [i \in 1..ToCopy(e) |-> Byte(e, written[e] + i)]
  BY <1>8 DEF n, old, new, data
<1>11. \A i \in m_BytesAvailable + 1..m_BytesAvailable' :
          Contents'[i] = Byte(e, written[e] + (i - m_BytesAvailable))
  BY <1>1, <1>6 DEF b, new
<1> QED BY <1>9, <1>10, <1>11

\* What is cut off the head of the ring is its first n bytes, and what is left the others.
LEMMA ReadShrinks ==
    ASSUME IInv, NEW n \in 0..m_BytesAvailable, m_Buffer' = m_Buffer,
           m_ReadPos' = Advance(m_ReadPos, n), m_BytesAvailable' = m_BytesAvailable - n
    PROVE  /\ Contents' = SubSeq(Contents, n + 1, m_BytesAvailable)
           /\ CopyOut(n) = SubSeq(Contents, 1, n)
<1> USE PipeSize
<1> DEFINE b == m_BytesAvailable
           c == b - n
           pos == m_ReadPos
           next == Advance(pos, n)
           old == Contents
           new == Contents'
           out == CopyOut(n)
           tail == SubSeq(old, n + 1, b)
           head == SubSeq(old, 1, n)
<1>1. /\ m_Buffer \in [Positions -> Cells] /\ pos \in Positions
      /\ b \in 0..PIPE_BUF_SIZE /\ n \in 0..b /\ c \in 0..PIPE_BUF_SIZE /\ c = b - n
  BY DEF IInv, TypeInv, Cells
<1>2. /\ next = (IF pos + n < PIPE_BUF_SIZE THEN pos + n ELSE pos + n - PIPE_BUF_SIZE)
      /\ next \in Positions
  <2> HIDE DEF pos, b
  <2>1. pos \in Positions /\ n \in 0..PIPE_BUF_SIZE
    BY <1>1
  <2> QED BY <2>1, AdvanceWraps
<1>3. old = Ring(m_Buffer, pos, b) /\ new = Ring(m_Buffer, next, c)
  BY DEF Contents, Ring
<1>4. out = [i \in 1..n |-> IF i <= Contiguous(n, pos) THEN m_Buffer[pos + i - 1]
                                                    ELSE m_Buffer[i - Contiguous(n, pos) - 1]]
  BY DEF CopyOut
<1> HIDE DEF b, c, pos, next, old, new, out
<1>5. /\ old \in Seq(Cells) /\ Len(old) = b
      /\ \A i \in 1..b : old[i] = m_Buffer[Place(pos, i)] /\ Place(pos, i) \in Positions
  BY <1>1, <1>3, RingPlaces
<1>6. /\ new \in Seq(Cells) /\ Len(new) = c
      /\ \A i \in 1..c : new[i] = m_Buffer[Place(next, i)] /\ Place(next, i) \in Positions
  <2>1. next \in Positions /\ c \in 0..PIPE_BUF_SIZE /\ m_Buffer \in [Positions -> Cells]
    BY <1>1, <1>2
  <2>2. /\ Ring(m_Buffer, next, c) \in Seq(Cells) /\ Len(Ring(m_Buffer, next, c)) = c
        /\ \A i \in 1..c : Ring(m_Buffer, next, c)[i] = m_Buffer[Place(next, i)]
                           /\ Place(next, i) \in Positions
    BY <2>1, RingPlaces
  <2> QED BY <1>3, <2>2
<1>7. \A i \in 1..b : old[i] \in Cells
  BY <1>1, <1>5
<1>8. new = tail
  <2>1. /\ tail \in Seq(Cells) /\ Len(tail) = c
        /\ \A i \in 1..c : tail[i] = old[n + i]
    <3>1. n + 1 \in Int /\ b \in Int /\ \A i \in n + 1..b : old[i] \in Cells
      BY <1>1, <1>7
    <3>2. /\ tail \in Seq(Cells) /\ Len(tail) = (IF n + 1 <= b THEN b - (n + 1) + 1 ELSE 0)
          /\ \A i \in 1..b - (n + 1) + 1 : tail[i] = old[(n + 1) + i - 1]
      BY <3>1, SubSeqProperties
    <3> HIDE DEF tail
    <3> QED BY <1>1, <3>2
  <2> HIDE DEF tail
  <2>2. ASSUME NEW i \in 1..c PROVE new[i] = tail[i]
    <3>1. n + i \in 1..b
      BY <1>1
    <3>2. Place(next, i) = Place(pos, n + i)
      BY <1>1, <1>2 DEF Place, Positions
    <3> QED BY <1>5, <1>6, <2>1, <3>1, <3>2
  <2> QED BY <1>1, <1>6, <2>1, <2>2, SeqEqual
<1>9. out = head
  <2>1. /\ head \in Seq(Cells) /\ Len(head) = n
        /\ \A i \in 1..n : head[i] = old[i]
    <3>1. n \in Int /\ 1 \in Int /\ \A i \in 1..n : old[i] \in Cells
      BY <1>1, <1>7
    <3>2. /\ head \in Seq(Cells) /\ Len(head) = (IF 1 <= n THEN n - 1 + 1 ELSE 0)
          /\ \A i \in 1..n - 1 + 1 : head[i] = old[1 + i - 1]
      BY <3>1, SubSeqProperties
    <3> HIDE DEF head
    <3> QED BY <1>1, <3>2
  <2> HIDE DEF head
  <2>2. ASSUME NEW i \in 1..n
        PROVE  (IF i <= Contiguous(n, pos) THEN m_Buffer[pos + i - 1]
                                           ELSE m_Buffer[i - Contiguous(n, pos) - 1]) = old[i]
    <3>1. i \in 1..b
      BY <1>1
    <3>2. (IF i <= Contiguous(n, pos) THEN pos + i - 1 ELSE i - Contiguous(n, pos) - 1) = Place(pos, i)
      BY <1>1 DEF Place, Contiguous, Smaller, Positions
    <3> QED BY <1>5, <3>1, <3>2
  <2>3. \A i \in 1..n : out[i] = old[i]
    BY <1>4, <2>2
  <2>4. out \in [1..n -> Cells]
    BY <1>1, <1>4, <1>7, <2>2
  <2>5. out \in Seq(Cells) /\ Len(out) = n
    BY <1>1, <2>4
  <2> QED BY <1>1, <2>1, <2>3, <2>5, SeqEqual
<1> QED BY <1>8, <1>9 DEF b, old, new, out

\* Every step leaves the contents alone, takes from their head or appends to them.
LEMMA ContentSteps ==
    ASSUME IInv, IInv', [Next]_vars
    PROVE  \/ /\ m_BytesAvailable - m_BytesAvailable' \in 0..m_BytesAvailable
              /\ LET read == m_BytesAvailable - m_BytesAvailable'
                 IN  /\ Contents' = SubSeq(Contents, read + 1, m_BytesAvailable)
                     /\ CopyOut(read) = SubSeq(Contents, 1, read)
           \/ \E e \in WriteEnds : Writing(e) /\ FreeSpace >= Needed(e) /\ WriteData(e)
<1> USE PipeSize DEF IInv, TypeInv
<1>1. ASSUME NEW n \in 0..m_BytesAvailable, m_Buffer' = m_Buffer,
             m_ReadPos' = Advance(m_ReadPos, n), m_BytesAvailable' = m_BytesAvailable - n
      PROVE  /\ m_BytesAvailable - m_BytesAvailable' \in 0..m_BytesAvailable
             /\ LET read == m_BytesAvailable - m_BytesAvailable'
                IN  /\ Contents' = SubSeq(Contents, read + 1, m_BytesAvailable)
                    /\ CopyOut(read) = SubSeq(Contents, 1, read)
  <2>1. m_BytesAvailable - m_BytesAvailable' = n
    BY <1>1
  <2>2. Contents' = SubSeq(Contents, n + 1, m_BytesAvailable) /\ CopyOut(n) = SubSeq(Contents, 1, n)
    BY <1>1, ReadShrinks
  <2> QED BY <2>1, <2>2
<1>2. CASE UNCHANGED ringVars
  <2>1. Advance(m_ReadPos, 0) = m_ReadPos
    BY AdvanceWraps DEF Positions
  <2>2. 0 \in 0..m_BytesAvailable /\ m_BytesAvailable' = m_BytesAvailable - 0
    BY <1>2 DEF ringVars
  <2> QED BY <1>1, <1>2, <2>1, <2>2 DEF ringVars
<1>3. ASSUME NEW e \in ReadEnds, m_BytesAvailable > 0, Reading(e), ReadData(e)
      PROVE  /\ m_BytesAvailable - m_BytesAvailable' \in 0..m_BytesAvailable
             /\ LET read == m_BytesAvailable - m_BytesAvailable'
                IN  /\ Contents' = SubSeq(Contents, read + 1, m_BytesAvailable)
                    /\ CopyOut(read) = SubSeq(Contents, 1, read)
  <2> DEFINE n == Smaller(length[e], m_BytesAvailable)
  <2>1. n \in 0..m_BytesAvailable
    BY DEF Smaller, Ends
  <2>2. /\ m_Buffer' = m_Buffer /\ m_ReadPos' = Advance(m_ReadPos, n)
        /\ m_BytesAvailable' = m_BytesAvailable - n
    BY <1>3 DEF ReadData
  <2> HIDE DEF n
  <2> QED BY <1>1, <2>1, <2>2
<1>4. \/ UNCHANGED ringVars
      \/ \E e \in ReadEnds : m_BytesAvailable > 0 /\ Reading(e) /\ ReadData(e)
      \/ \E e \in WriteEnds : Writing(e) /\ FreeSpace >= Needed(e) /\ WriteData(e)
  BY RingSteps
<1> QED BY <1>2, <1>3, <1>4

(***************************************************************************)
(* The ring is a FIFO: through every wrap, split copy, partial write and   *)
(* mix of callers, bytes go in at the end in the order of the call and     *)
(* come out at the head as they went in.                                   *)
(***************************************************************************)
THEOREM FirstInFirstOut == Spec => RingIsFifo
<1> DEFINE Fifo == LET read == m_BytesAvailable - m_BytesAvailable'
                   IN  IF read < 0 THEN \E w \in WriteEnds : Appended(w, -read)
                       ELSE /\ Contents' = SubSeq(Contents, read + 1, m_BytesAvailable)
                            /\ CopyOut(read) = SubSeq(Contents, 1, read)
<1>1. IInv /\ IInv' /\ [Next]_vars => [Fifo]_vars
  <2> SUFFICES ASSUME IInv, IInv', [Next]_vars PROVE Fifo
    OBVIOUS
  <2>1. ASSUME NEW e \in WriteEnds, Writing(e), FreeSpace >= Needed(e), WriteData(e)
        PROVE  Fifo
    <3> DEFINE n == ToCopy(e)
    <3>1. /\ m_BytesAvailable' - m_BytesAvailable = n /\ n \in Nat \ {0}
          /\ Contents' = Contents \o [i \in 1..n |-> Byte(e, written[e] + i)]
      BY <2>1, WriteAppends
    <3>2. written[e] + n <= length[e] /\ (Atomic(e) => written[e] = 0 /\ n = length[e])
      BY <2>1, WriteCopies
    <3>3. \/ written'[e] = written[e] + n
          \/ pc'[e] = "idle" /\ written[e] + n = length[e]
      <4>1. CASE Atomic(e) \/ written[e] + n = length[e]
        <5>1. pc'[e] = "idle"
          BY <2>1, <4>1 DEF WriteData, Return, IInv, TypeInv, Ends
        <5>2. written[e] + n = length[e]
          BY <3>2, <4>1 DEF IInv, TypeInv, Ends
        <5> QED BY <5>1, <5>2
      <4>2. CASE ~(Atomic(e) \/ written[e] + n = length[e])
        BY <2>1, <4>2 DEF WriteData, IInv, TypeInv, Ends
      <4> QED BY <4>1, <4>2
    <3> HIDE DEF n
    <3>4. /\ m_BytesAvailable - m_BytesAvailable' < 0
          /\ -(m_BytesAvailable - m_BytesAvailable') = n
      <4> DEFINE c == m_BytesAvailable'
      <4>1. m_BytesAvailable \in Nat /\ c \in Nat
        BY PipeSize DEF IInv, TypeInv
      <4>2. c - m_BytesAvailable = n /\ n \in Nat \ {0}
        BY <3>1
      <4> HIDE DEF c
      <4>3. m_BytesAvailable - c < 0 /\ -(m_BytesAvailable - c) = n
        BY <4>1, <4>2
      <4> QED BY <4>3 DEF c
    <3>5. Appended(e, n)
      BY <2>1, <3>1, <3>3 DEF Appended
    <3> QED BY <3>4, <3>5
  <2>2. CASE /\ m_BytesAvailable - m_BytesAvailable' \in 0..m_BytesAvailable
             /\ LET read == m_BytesAvailable - m_BytesAvailable'
                IN  /\ Contents' = SubSeq(Contents, read + 1, m_BytesAvailable)
                    /\ CopyOut(read) = SubSeq(Contents, 1, read)
    <3>1. ~(m_BytesAvailable - m_BytesAvailable' < 0)
      <4> DEFINE c == m_BytesAvailable'
      <4>1. m_BytesAvailable \in Nat /\ c \in Nat
        BY PipeSize DEF IInv, TypeInv
      <4>2. m_BytesAvailable - c \in 0..m_BytesAvailable
        BY <2>2
      <4> HIDE DEF c
      <4>3. ~(m_BytesAvailable - c < 0)
        BY <4>1, <4>2
      <4> QED BY <4>3 DEF c
    <3> QED BY <2>2, <3>1
  <2> QED BY <2>1, <2>2, ContentSteps
<1> HIDE DEF Fifo
<1>2. Spec => [][Fifo]_vars
  BY Inductive, <1>1, PTL DEF Spec
<1> QED BY <1>2 DEF RingIsFifo, Fifo

(***************************************************************************)
(* A write of at most PIPE_BUF bytes is all or nothing: no step puts only  *)
(* part of it into the pipe.                                               *)
(***************************************************************************)
THEOREM ShortWritesAreAtomic == Spec => AtomicWrites
<1> DEFINE Whole(w) == \/ Contents' = Contents \o [i \in 1..length[w] |-> Byte(w, i)]
                       \/ \A i \in m_BytesAvailable + 1..m_BytesAvailable' : Contents'[i][1] # w
           Statement == \A w \in WriteEnds : Writing(w) /\ length[w] <= PIPE_BUF_SIZE =>
                          \/ Contents' = Contents \o [i \in 1..length[w] |-> Byte(w, i)]
                          \/ \A i \in m_BytesAvailable + 1..m_BytesAvailable' : Contents'[i][1] # w
<1>1. IInv /\ IInv' /\ [Next]_vars => [Statement]_vars
  <2> SUFFICES ASSUME IInv, IInv', [Next]_vars, NEW w \in WriteEnds, Writing(w), length[w] <= PIPE_BUF_SIZE
               PROVE  Whole(w)
    OBVIOUS
  <2>1. ASSUME NEW e \in WriteEnds, Writing(e), FreeSpace >= Needed(e), WriteData(e)
        PROVE  Whole(w)
    <3>1. /\ Contents' = Contents \o [i \in 1..ToCopy(e) |-> Byte(e, written[e] + i)]
          /\ \A i \in m_BytesAvailable + 1..m_BytesAvailable' :
                Contents'[i] = Byte(e, written[e] + (i - m_BytesAvailable))
      BY <2>1, WriteAppends
    <3>2. CASE e = w
      <4>1. written[w] = 0 /\ ToCopy(w) = length[w]
        BY <2>1, <3>2, WriteCopies DEF Atomic
      <4>2. [i \in 1..length[w] |-> Byte(w, written[w] + i)] = [i \in 1..length[w] |-> Byte(w, i)]
        BY <4>1
      <4> QED BY <3>1, <3>2, <4>1, <4>2
    <3>3. CASE e # w
      <4>1. \A k : Byte(e, k)[1] = e
        BY DEF Byte
      <4> QED BY <3>1, <3>3, <4>1
    <3> QED BY <3>2, <3>3
  <2>2. CASE m_BytesAvailable - m_BytesAvailable' \in 0..m_BytesAvailable
    <3>1. m_BytesAvailable + 1..m_BytesAvailable' = {}
      <4> DEFINE c == m_BytesAvailable'
      <4>1. m_BytesAvailable \in Nat /\ c \in Nat
        BY PipeSize DEF IInv, TypeInv
      <4>2. m_BytesAvailable - c \in 0..m_BytesAvailable
        BY <2>2
      <4> HIDE DEF c
      <4>3. m_BytesAvailable + 1..c = {}
        BY <4>1, <4>2
      <4> QED BY <4>3 DEF c
    <3> QED BY <3>1
  <2> QED BY <2>1, <2>2, ContentSteps
<1> QED BY Inductive, <1>1, PTL DEF Spec, AtomicWrites

=============================================================================
