------------------------------- MODULE KPipe --------------------------------
(***************************************************************************)
(* Anonymous pipes (Kernel/VFS/KPipeFilesystem.cpp): a ring buffer between *)
(* file nodes opened for reading and for writing.                          *)
(*                                                                         *)
(* All pipe state is accessed with KPipeInode::m_Mutex held, so what a     *)
(* call does between taking it and releasing it (or waiting on one of the  *)
(* two condition variables, which releases it) is not interleaved with     *)
(* another call; owner is the file node whose call has it between steps.   *)
(* KMutex and KConditionVariable are modelled on their own; here a wait is *)
(* what they guarantee: linked until WakeupAll, INTR only if cancelled.    *)
(***************************************************************************)
EXTENDS Integers, Sequences, FiniteSets

CONSTANTS ReadEnds, WriteEnds,  \* file nodes, each used by one thread at a time
          NoEnd,
          PIPE_BUF_SIZE,
          MaxLength             \* bound: bytes per call

ASSUME EndsAssumption == /\ IsFiniteSet(ReadEnds) /\ IsFiniteSet(WriteEnds)
                         /\ ReadEnds \cap WriteEnds = {}
                         /\ NoEnd \notin ReadEnds \cup WriteEnds
\* The static_assert of KPipeInode: the index mask is a remainder.
ASSUME SizeAssumption == /\ PIPE_BUF_SIZE \in Nat \ {0}
                         /\ \E k \in 0..PIPE_BUF_SIZE : 2^k = PIPE_BUF_SIZE
                         /\ MaxLength \in Nat \ {0}

Ends == ReadEnds \cup WriteEnds

VARIABLES m_Buffer, m_ReadPos, m_WritePos, m_BytesAvailable,
          m_ReaderCount, m_WriterCount,
          readCondition,    \* nodes linked in m_ReadCondition
          writeCondition,   \* nodes linked in m_WriteCondition
          listening,        \* is a wait group's node linked in m_ReadCondition
          inMap,            \* is the inode in KPipeVolume::m_PipeInodes
          creator,          \* how far kpipe_trw has come
          owner,            \* the node whose call keeps m_Mutex between steps
          pc, length, written, nonblock,    \* the call on each node
          canceled          \* nodes whose thread was cancelled

ringVars == <<m_Buffer, m_ReadPos, m_WritePos, m_BytesAvailable>>
countVars == <<m_ReaderCount, m_WriterCount>>
waitVars == <<readCondition, writeCondition, listening>>
callVars == <<pc, length, written, nonblock>>
vars == <<ringVars, countVars, waitVars, inMap, creator, owner, callVars,
          canceled>>

Positions == 0..PIPE_BUF_SIZE - 1
Byte(w, i) == <<w, i>>      \* the i-th byte of a write by w
Bytes == {Byte(w, i) : w \in WriteEnds, i \in 1..MaxLength}
Nothing == <<NoEnd, 0>>     \* memory that was not written yet

Init == /\ m_Buffer = [p \in Positions |-> Nothing]
        /\ m_ReadPos = 0 /\ m_WritePos = 0 /\ m_BytesAvailable = 0
        /\ m_ReaderCount = 0 /\ m_WriterCount = 0
        /\ readCondition = {} /\ writeCondition = {} /\ listening = FALSE
        /\ inMap = FALSE /\ creator = "start" /\ owner = NoEnd
        /\ pc = [e \in Ends |-> "closed"]
        /\ length = [e \in Ends |-> 0]
        /\ written = [e \in Ends |-> 0]
        /\ nonblock = [e \in Ends |-> FALSE]
        /\ canceled = {}

Open(e) == pc[e] \notin {"closed", "erasing"}

-----------------------------------------------------------------------------
(***************************************************************************)
(* The ring.  A copy is split where the buffer wraps.                      *)
(***************************************************************************)
Smaller(a, b) == IF a <= b THEN a ELSE b
Contiguous(n, pos) == Smaller(n, PIPE_BUF_SIZE - pos)
Advance(pos, n) == (pos + n) % PIPE_BUF_SIZE
FreeSpace == PIPE_BUF_SIZE - m_BytesAvailable

\* A wrong variant: what lies behind the wrap is read from where it stopped.
CopyOutNoWrap(n) == [i \in 1..n |-> m_Buffer[Smaller(m_ReadPos + i - 1, PIPE_BUF_SIZE - 1)]]

\* The bytes that a read of n hands out.
CopyOut(n) ==
    LET first == Contiguous(n, m_ReadPos)
    IN  [i \in 1..n |-> IF i <= first THEN m_Buffer[m_ReadPos + i - 1]
                                      ELSE m_Buffer[i - first - 1]]

CopyIn(data) ==
    LET first == Contiguous(Len(data), m_WritePos)
    IN  [p \in Positions |->
            IF p \in m_WritePos..m_WritePos + first - 1 THEN data[p - m_WritePos + 1]
            ELSE IF p < Len(data) - first THEN data[first + p + 1]
            ELSE m_Buffer[p]]

Return(e) == /\ pc' = [pc EXCEPT ![e] = "idle"]
             /\ length' = [length EXCEPT ![e] = 0]
             /\ written' = [written EXCEPT ![e] = 0]
             /\ nonblock' = [nonblock EXCEPT ![e] = FALSE]
             /\ owner' = NoEnd

\* The call returns without having moved anything in this step.
GiveUp(e) == Return(e) /\ UNCHANGED <<ringVars, waitVars>>

-----------------------------------------------------------------------------
\* A wrong variant: writers are woken only by a read that emptied the buffer.
WakeWritersWhenEmpty(n) ==
    writeCondition' = IF n = m_BytesAvailable THEN {} ELSE writeCondition

WakeWriters(n) == writeCondition' = {}

ReadData(e) ==
    LET n == Smaller(length[e], m_BytesAvailable)
    IN  /\ m_ReadPos' = Advance(m_ReadPos, n)
        /\ m_BytesAvailable' = m_BytesAvailable - n
        /\ WakeWriters(n)
        /\ Return(e)
        /\ UNCHANGED <<m_Buffer, m_WritePos, readCondition, listening>>

ReadWait(e) == /\ readCondition' = readCondition \cup {e}
               /\ pc' = [pc EXCEPT ![e] = "readWait"]
               /\ UNCHANGED <<ringVars, writeCondition, listening, owner,
                              length, written, nonblock>>

\* End of file, WOULDBLOCK, INTR.
ReadFails(e) == m_WriterCount = 0 \/ nonblock[e] \/ e \in canceled

\* One evaluation of the loop of Read with the mutex held.
Read(e) ==
    /\ \/ pc[e] = "reading"
       \/ pc[e] = "readWait" /\ e \notin readCondition
    /\ owner = NoEnd
    /\ \/ m_BytesAvailable > 0 /\ ReadData(e)
       \/ m_BytesAvailable = 0 /\ ReadFails(e) /\ GiveUp(e)
       \/ m_BytesAvailable = 0 /\ ~ReadFails(e) /\ ReadWait(e)
    /\ UNCHANGED <<countVars, inMap, creator, canceled>>

\* The wait was left by a cancellation: its node is still linked.
ReadInterrupted(e) ==
    /\ pc[e] = "readWait" /\ e \in readCondition /\ e \in canceled
    /\ owner = NoEnd
    /\ readCondition' = readCondition \ {e}
    /\ Return(e)
    /\ UNCHANGED <<ringVars, countVars, writeCondition, listening, inMap, creator, canceled>>

-----------------------------------------------------------------------------
Atomic(e) == length[e] <= PIPE_BUF_SIZE

\* A wrong variant: any room is enough for a short write too.
NeededAny(e) == 1

Needed(e) == IF Atomic(e) /\ written[e] = 0 THEN length[e] ELSE 1

\* A wrong variant: the free space is not looked at.
ToCopyAll(e) == length[e] - written[e]

ToCopy(e) == Smaller(length[e] - written[e], FreeSpace)

\* Copy what fits; a long write then keeps the mutex and looks for more room.
WriteData(e) ==
    LET n    == ToCopy(e)
        data == [i \in 1..n |-> Byte(e, written[e] + i)]
    IN  /\ m_Buffer' = CopyIn(data)
        /\ m_WritePos' = Advance(m_WritePos, n)
        /\ m_BytesAvailable' = m_BytesAvailable + n
        /\ readCondition' = {} /\ listening' = FALSE
        /\ IF Atomic(e) \/ written[e] + n = length[e]
           THEN Return(e)
           ELSE /\ written' = [written EXCEPT ![e] = @ + n]
                /\ pc' = [pc EXCEPT ![e] = "writing"]
                /\ owner' = e
                /\ UNCHANGED <<length, nonblock>>
        /\ UNCHANGED <<m_ReadPos, writeCondition>>

WriteWait(e) == /\ writeCondition' = writeCondition \cup {e}
                /\ pc' = [pc EXCEPT ![e] = "writeWait"]
                /\ owner' = NoEnd
                /\ UNCHANGED <<ringVars, readCondition, listening, length, written, nonblock>>

\* PIPE (with SIGPIPE), WOULDBLOCK, INTR: looked for only if there is no room.
WriteFails(e) == m_ReaderCount = 0 \/ nonblock[e] \/ e \in canceled

\* One evaluation of the loop of Write with the mutex held.
WritePass(e) ==
    \/ FreeSpace >= Needed(e) /\ WriteData(e)
    \/ FreeSpace < Needed(e) /\ WriteFails(e) /\ GiveUp(e)
    \/ FreeSpace < Needed(e) /\ ~WriteFails(e) /\ WriteWait(e)

\* The call takes the mutex: no readers at all is an error right away.
WriteEnter(e) ==
    /\ pc[e] = "writeEnter" /\ owner = NoEnd
    /\ \/ m_ReaderCount = 0 /\ GiveUp(e)
       \/ m_ReaderCount > 0 /\ WritePass(e)
    /\ UNCHANGED <<countVars, inMap, creator, canceled>>

\* The loop goes on, with the mutex kept or after a notification.
WriteContinue(e) ==
    /\ \/ pc[e] = "writing" /\ owner = e
       \/ pc[e] = "writeWait" /\ e \notin writeCondition /\ owner = NoEnd
    /\ WritePass(e)
    /\ UNCHANGED <<countVars, inMap, creator, canceled>>

WriteInterrupted(e) ==
    /\ pc[e] = "writeWait" /\ e \in writeCondition /\ e \in canceled
    /\ owner = NoEnd
    /\ writeCondition' = writeCondition \ {e}
    /\ Return(e)
    /\ UNCHANGED <<ringVars, countVars, readCondition, listening, inMap, creator, canceled>>

-----------------------------------------------------------------------------
(***************************************************************************)
(* File nodes.  OpenFile counts by access mode; CloseFile, run when the    *)
(* last reference to the node is gone (so with no call under way), wakes   *)
(* the other side when its last peer goes, and erases the inode from the   *)
(* volume in a second step, after it has released m_Mutex.                 *)
(***************************************************************************)
OpenFile(e) ==
    /\ pc[e] = "closed" /\ owner = NoEnd
    /\ pc' = [pc EXCEPT ![e] = "idle"]
    /\ IF e \in WriteEnds
       THEN m_WriterCount' = m_WriterCount + 1 /\ UNCHANGED m_ReaderCount
       ELSE m_ReaderCount' = m_ReaderCount + 1 /\ UNCHANGED m_WriterCount

\* A wrong variant: the inode goes with the last writer.
ShouldEraseEarly == m_WriterCount' = 0

LastWriterGone == m_WriterCount' = 0
LastReaderGone == m_ReaderCount' = 0
ShouldErase == m_ReaderCount' = 0 /\ m_WriterCount' = 0

CloseFile(e) ==
    /\ pc[e] = "idle" /\ owner = NoEnd
    /\ IF e \in WriteEnds
       THEN /\ m_WriterCount' = m_WriterCount - 1
            /\ readCondition' = IF LastWriterGone THEN {} ELSE readCondition
            /\ listening' = (listening /\ ~LastWriterGone)
            /\ UNCHANGED <<m_ReaderCount, writeCondition>>
       ELSE /\ m_ReaderCount' = m_ReaderCount - 1
            /\ writeCondition' = IF LastReaderGone THEN {} ELSE writeCondition
            /\ UNCHANGED <<m_WriterCount, readCondition, listening>>
    /\ pc' = [pc EXCEPT ![e] = IF ShouldErase THEN "erasing" ELSE "closed"]
    /\ canceled' = canceled \ {e}
    /\ UNCHANGED <<ringVars, inMap, creator, owner, length, written, nonblock>>

EraseInode(e) ==
    /\ pc[e] = "erasing"
    /\ inMap' = FALSE
    /\ pc' = [pc EXCEPT ![e] = "closed"]
    /\ UNCHANGED <<ringVars, countVars, waitVars, creator, owner, length, written,
                   nonblock, canceled>>

(***************************************************************************)
(* kpipe_trw: enter the inode in the map, open the read end, open the      *)
(* write end; what was done is undone if an open throws.                   *)
(***************************************************************************)
Creating(from, to) == /\ creator = from /\ creator' = to
                      /\ UNCHANGED <<ringVars, waitVars, owner, length, written,
                                     nonblock, canceled>>

CreateInode == /\ Creating("start", "openRead")
               /\ inMap' = TRUE
               /\ UNCHANGED <<countVars, pc>>

OpenReadEnd == /\ Creating("openRead", "openWrite")
               /\ \E e \in ReadEnds : OpenFile(e)
               /\ UNCHANGED inMap

OpenWriteEnd == /\ Creating("openWrite", "done")
                /\ \E e \in WriteEnds : OpenFile(e)
                /\ UNCHANGED inMap

OpenReadFails == /\ Creating("openRead", "failed")
                 /\ inMap' = FALSE
                 /\ UNCHANGED <<countVars, pc>>

OpenWriteFails == /\ Creating("openWrite", "unwind")
                  /\ UNCHANGED <<countVars, pc, inMap>>

\* The guards run in reverse order: kclose of the read end, then the erase.
CloseOnUnwind == creator = "unwind" /\ \E e \in ReadEnds : CloseFile(e)
EraseOnUnwind == /\ \A e \in Ends : pc[e] = "closed"
                 /\ Creating("unwind", "failed")
                 /\ inMap' = FALSE
                 /\ UNCHANGED <<countVars, pc>>

\* kreopen_file_trw: another node for the inode of an open one.
Reopen(e) == /\ creator = "done"
             /\ \E f \in Ends : Open(f)
             /\ OpenFile(e)
             /\ UNCHANGED <<ringVars, waitVars, inMap, creator, owner, length, written,
                            nonblock, canceled>>

-----------------------------------------------------------------------------
\* A call of n bytes; a call of none returns before it does anything, and a read
\* of more than the ring holds is one of all it holds.
Call(e, n, flag) ==
    /\ pc[e] = "idle" /\ creator = "done"
    /\ e \in ReadEnds => n <= PIPE_BUF_SIZE
    /\ pc' = [pc EXCEPT ![e] = IF e \in ReadEnds THEN "reading" ELSE "writeEnter"]
    /\ length' = [length EXCEPT ![e] = n]
    /\ nonblock' = [nonblock EXCEPT ![e] = flag]
    /\ UNCHANGED <<ringVars, countVars, waitVars, inMap, creator, owner, written, canceled>>

Cancel(e) == /\ Open(e) /\ creator = "done"
             /\ canceled' = canceled \cup {e}
             /\ UNCHANGED <<ringVars, countVars, waitVars, inMap, creator, owner, callVars>>

(***************************************************************************)
(* KPipeInode::AddListener, for the node of a KObjectWaitGroup: it links   *)
(* the node and returns true, or returns false.  The group detaches the    *)
(* node again when its wait ends.                                          *)
(***************************************************************************)
Queues(mode) == mode # "Write" /\ m_BytesAvailable = 0

AddListener(mode) ==
    /\ creator = "done" /\ ~listening /\ owner = NoEnd
    /\ \E e \in Ends : Open(e)
    /\ Queues(mode)
    /\ listening' = TRUE
    /\ UNCHANGED <<ringVars, countVars, readCondition, writeCondition, inMap, creator,
                   owner, callVars, canceled>>

DetachListener ==
    /\ listening
    /\ listening' = FALSE
    /\ UNCHANGED <<ringVars, countVars, readCondition, writeCondition, inMap, creator,
                   owner, callVars, canceled>>

CallStep(e) == \/ e \in ReadEnds /\ (Read(e) \/ ReadInterrupted(e))
               \/ e \in WriteEnds /\ (WriteEnter(e) \/ WriteContinue(e) \/ WriteInterrupted(e))

CreateStep == \/ CreateInode \/ OpenReadEnd \/ OpenWriteEnd
              \/ OpenReadFails \/ OpenWriteFails \/ CloseOnUnwind \/ EraseOnUnwind

Next == \/ CreateStep
        \/ \E e \in Ends : \/ CallStep(e)
                           \/ \E n \in 1..MaxLength, flag \in BOOLEAN : Call(e, n, flag)
                           \/ creator = "done" /\ CloseFile(e)
                           \/ EraseInode(e)
                           \/ Reopen(e)
                           \/ Cancel(e)
        \/ \E mode \in {"Read", "Write", "ReadWrite"} : AddListener(mode)
        \/ DetachListener

Spec == Init /\ [][Next]_vars

-----------------------------------------------------------------------------
TypeOK == /\ m_Buffer \in [Positions -> Bytes \cup {Nothing}]
          /\ m_ReadPos \in Positions /\ m_WritePos \in Positions
          /\ m_BytesAvailable \in 0..PIPE_BUF_SIZE
          /\ m_ReaderCount \in 0..Cardinality(ReadEnds)
          /\ m_WriterCount \in 0..Cardinality(WriteEnds)
          /\ readCondition \subseteq ReadEnds /\ writeCondition \subseteq WriteEnds
          /\ listening \in BOOLEAN /\ inMap \in BOOLEAN
          /\ creator \in {"start", "openRead", "openWrite", "done", "unwind", "failed"}
          /\ owner \in Ends \cup {NoEnd}
          /\ pc \in [Ends -> {"closed", "erasing", "idle", "reading", "readWait",
                              "writeEnter", "writing", "writeWait"}]
          /\ length \in [Ends -> 0..MaxLength] /\ written \in [Ends -> 0..MaxLength]
          /\ nonblock \in [Ends -> BOOLEAN]
          /\ canceled \subseteq Ends

Contents == [i \in 1..m_BytesAvailable |-> m_Buffer[(m_ReadPos + i - 1) % PIPE_BUF_SIZE]]
Writing(w) == pc[w] \in {"writeEnter", "writing", "writeWait"}

(***************************************************************************)
(* The ring is a FIFO.  Writing: the contents grow only by the next bytes  *)
(* of the call of one writer, at the end.  Reading: they shrink only at    *)
(* the head, and what is copied out to the caller is what they lose.       *)
(* Through every wrap-around, partial write and mix of callers.            *)
(***************************************************************************)
Appended(w, n) == /\ Writing(w)
                  /\ Contents' = Contents \o [i \in 1..n |-> Byte(w, written[w] + i)]
                  /\ \/ written'[w] = written[w] + n
                     \/ pc'[w] = "idle" /\ written[w] + n = length[w]

RingIsFifo ==
    [][LET read == m_BytesAvailable - m_BytesAvailable'
       IN  IF read < 0 THEN \E w \in WriteEnds : Appended(w, -read)
           ELSE /\ Contents' = SubSeq(Contents, read + 1, m_BytesAvailable)
                /\ CopyOut(read) = SubSeq(Contents, 1, read)]_vars

(***************************************************************************)
(* A write of at most PIPE_BUF bytes is all or nothing: it never has only  *)
(* part of its bytes in the pipe, so it is not interleaved with another    *)
(* write and has put nothing there when it fails.                          *)
(***************************************************************************)
AtomicWrites ==
    [][\A w \in WriteEnds : Writing(w) /\ length[w] <= PIPE_BUF_SIZE =>
         \/ Contents' = Contents \o [i \in 1..length[w] |-> Byte(w, i)]
         \/ \A i \in m_BytesAvailable + 1..m_BytesAvailable' : Contents'[i][1] # w]_vars

(***************************************************************************)
(* Nobody waits in vain.  A reader, or a wait group's node, that nothing   *)
(* will wake any more has nothing to be woken for: the pipe is empty and,  *)
(* for a reader, somebody can still write.  A writer asleep really has no  *)
(* room, and somebody is there to make room.                               *)
(***************************************************************************)
WaitersMustWait ==
    /\ readCondition # {} => m_BytesAvailable = 0 /\ m_WriterCount > 0
    /\ listening => m_BytesAvailable = 0
    /\ \A w \in writeCondition : FreeSpace < Needed(w) /\ m_ReaderCount > 0

(***************************************************************************)
(* The map has the inode exactly as long as a node is open, creation is    *)
(* under way, or a close is between its two critical sections: it is not   *)
(* lost while somebody can use it, and none is left behind when a closer   *)
(* and the unwinding of a failed kpipe_trw both could, or neither would,   *)
(* erase it.                                                               *)
(***************************************************************************)
OpenPipeIsMapped ==
    /\ (\E e \in Ends : Open(e)) => inMap
    /\ inMap => \/ \E e \in Ends : Open(e) \/ pc[e] = "erasing"
                \/ creator \notin {"done", "failed"}
=============================================================================
