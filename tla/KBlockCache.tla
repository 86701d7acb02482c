---------------------------- MODULE KBlockCache -----------------------------
(***************************************************************************)
(* The disk block cache (Kernel/VFS/KBlockCache.cpp).  Blocks of all       *)
(* devices share the block headers and buffers; a block is loaded, looked  *)
(* up and evicted under s_Mutex, but its buffer is read and written by     *)
(* its users, and written to the device by the flusher thread, without it. *)
(* A step below is a critical section of s_Mutex, or one of those.         *)
(***************************************************************************)
EXTENDS FileSystemThreads, WaitQueue, FiniteSets, FiniteSetsExt, SequencesExt

CONSTANTS Devices,      \* each with its KBlockCache
          Blocks,       \* buffer numbers
          Headers,      \* gk_BCacheHeaders
          MaxRetries, MAX_FLUSH_BLOCK_COUNT, MIN_FLUSH_BLOCK_COUNT

ASSUME CacheAssumption == /\ IsFiniteSet(Threads) /\ IsFiniteSet(Headers) /\ NULL \notin Headers
                          /\ Blocks \subseteq Nat
                          /\ MaxRetries \in Nat \ {0}
                          /\ MAX_FLUSH_BLOCK_COUNT \in Nat \ {0}
                          /\ MIN_FLUSH_BLOCK_COUNT \in Nat \ {0}

VARIABLES m_BlockMap,       \* of each device
          s_FreeList, s_MRUList, s_DirtyBlockCount,
          s_FlushingDoneConditionVar,   \* the threads that wait for it
          m_Device, m_bufferNumber, m_UseCount, m_Flags,   \* of each header
          unsaved,          \* the headers written to since the flusher last wrote them
          want, desc, retry,            \* of each thread
          flusher,          \* where the flusher thread is, and with what
          stranded          \* the threads a failed write has left waiting

cacheVars == <<m_BlockMap, s_FreeList, s_MRUList, s_DirtyBlockCount,
               s_FlushingDoneConditionVar>>
headerVars == <<m_Device, m_bufferNumber, m_UseCount, m_Flags>>
threadVars == <<pc, want, desc, retry>>
vars == <<cacheVars, headerVars, threadVars, unsaved, flusher, stranded>>

Flags == {"DIRTY", "DIRTY_PENDING", "FLUSH_REQUESTED", "IS_FLUSHING",
          "OLD"}    \* m_DirtyTime is at least FLUSH_PERIOD ago
Idle == [at |-> "idle", list |-> {}, segment |-> {}, rest |-> {}, required |-> FALSE, flushed |-> FALSE]

Init == /\ m_BlockMap = [d \in Devices |-> [b \in Blocks |-> NULL]]
        /\ \E cache \in (SUBSET Headers) \ {{}} : s_FreeList \in SetToSeqs(cache)   \* any size
        /\ s_MRUList = <<>>
        /\ s_DirtyBlockCount = 0
        /\ s_FlushingDoneConditionVar = {}
        /\ m_Device = [h \in Headers |-> NULL]
        /\ m_bufferNumber = [h \in Headers |-> 0]
        /\ m_UseCount = [h \in Headers |-> 0]
        /\ m_Flags = [h \in Headers |-> {}]
        /\ unsaved = {}
        /\ pc = [t \in Threads |-> "idle"]
        /\ want = [t \in Threads |-> NULL]
        /\ desc = [t \in Threads |-> NULL]
        /\ retry = [t \in Threads |-> 0]
        /\ flusher = Idle
        /\ stranded = {}

IsDirty(h) == "DIRTY" \in m_Flags[h]
IsFlushing(h) == "IS_FLUSHING" \in m_Flags[h]
WakeupDone == s_FlushingDoneConditionVar' = {} /\ stranded' = {}

-----------------------------------------------------------------------------
(* GetBlock_trw *)

\* The call returns the block in h, or throws if h is NULL.
GotBlock(t, d, b, h) == /\ desc' = [desc EXCEPT ![t] = h]
                        /\ want' = [want EXCEPT ![t] = IF h = NULL THEN NULL ELSE <<d, b>>]
                        /\ retry' = [retry EXCEPT ![t] = 0]
                        /\ Goto(t, IF h = NULL THEN "idle" ELSE "have")

Hit(t, d, b) ==
    LET h == m_BlockMap[d][b] IN
    /\ m_UseCount' = [m_UseCount EXCEPT ![h] = @ + 1]
    /\ s_MRUList' = Append(Detatch(s_MRUList, h), h)
    /\ GotBlock(t, d, b, h)
    /\ UNCHANGED <<m_BlockMap, s_FreeList, s_DirtyBlockCount, s_FlushingDoneConditionVar,
                   m_Device, m_bufferNumber, m_Flags, unsaved>>

\* The blocks that nobody uses, the least recently used first.
Victims == Those(s_MRUList, {h \in Headers : m_UseCount[h] = 0})

\* Wait for the flusher, or for somebody to drop a block; ask for a dirty one to be flushed.
WaitForBlock(t, d, b, round) ==
    /\ m_Flags' = IF Victims # <<>> /\ ~IsFlushing(Head(Victims))
                  THEN [m_Flags EXCEPT ![Head(Victims)] = @ \cup {"FLUSH_REQUESTED"}]
                  ELSE m_Flags
    /\ s_FlushingDoneConditionVar' = s_FlushingDoneConditionVar \cup {t}
    /\ want' = [want EXCEPT ![t] = <<d, b>>]
    /\ retry' = [retry EXCEPT ![t] = round]
    /\ Goto(t, "wait")
    /\ UNCHANGED <<m_BlockMap, s_FreeList, s_MRUList, s_DirtyBlockCount, m_Device,
                   m_bufferNumber, m_UseCount, desc, unsaved>>

\* A wrong variant: the evicted block stays in the map.
EvictKeepsEntry(d, h) == m_BlockMap[d]

\* The map of the device that loads forgets the number of the evicted block.
Evict(d, h) == [m_BlockMap[d] EXCEPT ![m_bufferNumber[h]] = NULL]

\* Read (d, b) into the free or evicted block h; an error leaves h in the free list.
Load(t, d, b, h, map, free, mru) ==
    /\ unsaved' = unsaved \ {h}
    /\ \/ /\ m_BlockMap' = [m_BlockMap EXCEPT ![d] = [map EXCEPT ![b] = h]]
          /\ s_FreeList' = free
          /\ s_MRUList' = Append(mru, h)
          /\ m_UseCount' = [m_UseCount EXCEPT ![h] = 1]
          /\ m_Flags' = [m_Flags EXCEPT ![h] = {}]
          /\ m_Device' = [m_Device EXCEPT ![h] = d]
          /\ m_bufferNumber' = [m_bufferNumber EXCEPT ![h] = b]
          /\ GotBlock(t, d, b, h)
          /\ UNCHANGED <<s_DirtyBlockCount, s_FlushingDoneConditionVar>>
       \/ /\ m_BlockMap' = [m_BlockMap EXCEPT ![d] = map]
          /\ s_FreeList' = Append(free, h)
          /\ s_MRUList' = mru
          /\ GotBlock(t, d, b, NULL)
          /\ UNCHANGED <<s_DirtyBlockCount, s_FlushingDoneConditionVar, headerVars>>

\* One round of the loop.
TryGetBlock(t, d, b, round) ==
    /\ IF m_BlockMap[d][b] # NULL THEN Hit(t, d, b)
       ELSE IF s_FreeList # <<>>
            THEN Load(t, d, b, Last(s_FreeList), m_BlockMap[d], Front(s_FreeList), s_MRUList)
       ELSE IF Victims = <<>> \/ IsFlushing(Head(Victims)) \/ IsDirty(Head(Victims))
            THEN WaitForBlock(t, d, b, round)
       ELSE LET h == Head(Victims)
            IN  Load(t, d, b, h, Evict(d, h), s_FreeList, Detatch(s_MRUList, h))
    /\ UNCHANGED <<flusher, stranded>>

GetBlock(t, d, b) == pc[t] = "idle" /\ TryGetBlock(t, d, b, 0)

\* Notified: another round, or PErrorCode::AGAIN after the last.
Retry(t) ==
    LET d == want[t][1]
        b == want[t][2]
    IN  /\ pc[t] = "wait" /\ t \notin s_FlushingDoneConditionVar
        /\ IF retry[t] + 1 < MaxRetries
           THEN TryGetBlock(t, d, b, retry[t] + 1)
           ELSE /\ GotBlock(t, d, b, NULL)
                /\ UNCHANGED <<cacheVars, headerVars, unsaved, flusher, stranded>>

-----------------------------------------------------------------------------
(* The users of a block *)

\* The memcpy of CachedWrite_trw, and the file system's own writes: no lock is held.
WriteBuffer(t) ==
    /\ pc[t] = "have"
    /\ unsaved' = unsaved \cup {desc[t]}
    /\ Goto(t, "written")
    /\ UNCHANGED <<cacheVars, headerVars, want, desc, retry, flusher, stranded>>

\* SetDirty(true): dirty, or dirty again; many dirty blocks only wake the flusher sooner.
SetDirty(h) ==
    /\ m_Flags' = [m_Flags EXCEPT ![h] = IF IsDirty(h) THEN @ \cup {"DIRTY_PENDING"}
                                         ELSE (@ \cup {"DIRTY"}) \ {"OLD"}]
    /\ s_DirtyBlockCount' = IF IsDirty(h) THEN s_DirtyBlockCount ELSE s_DirtyBlockCount + 1

MarkDirty(t) ==
    /\ pc[t] = "written"
    /\ SetDirty(desc[t])
    /\ Goto(t, "have")
    /\ UNCHANGED <<m_BlockMap, s_FreeList, s_MRUList, s_FlushingDoneConditionVar, m_Device,
                   m_bufferNumber, m_UseCount, want, desc, retry, unsaved, flusher, stranded>>

\* A wrong variant: dropping a block tells nobody.
RemoveRefSilently(h) ==
    /\ m_UseCount' = [m_UseCount EXCEPT ![h] = @ - 1]
    /\ UNCHANGED <<s_FlushingDoneConditionVar, stranded>>

RemoveRef(h) ==
    /\ m_UseCount' = [m_UseCount EXCEPT ![h] = @ - 1]
    /\ IF m_UseCount[h] = 1 THEN WakeupDone
       ELSE UNCHANGED <<s_FlushingDoneConditionVar, stranded>>

\* The destructor of the KCacheBlockDesc.
Release(t) ==
    /\ pc[t] = "have"
    /\ RemoveRef(desc[t])
    /\ want' = [want EXCEPT ![t] = NULL]
    /\ desc' = [desc EXCEPT ![t] = NULL]
    /\ Goto(t, "idle")
    /\ UNCHANGED <<m_BlockMap, s_FreeList, s_MRUList, s_DirtyBlockCount, m_Device,
                   m_bufferNumber, m_Flags, retry, unsaved, flusher>>

\* FlushInternal and Sync, which waits for one notification, whatever it is about.
Sync(t) ==
    /\ pc[t] = "idle"
    /\ m_Flags' = [h \in Headers |-> IF IsDirty(h) THEN m_Flags[h] \cup {"FLUSH_REQUESTED"}
                                                   ELSE m_Flags[h]]
    /\ IF s_DirtyBlockCount # 0
       THEN /\ s_FlushingDoneConditionVar' = s_FlushingDoneConditionVar \cup {t}
            /\ Goto(t, "sync")
       ELSE UNCHANGED <<s_FlushingDoneConditionVar, pc>>
    /\ UNCHANGED <<m_BlockMap, s_FreeList, s_MRUList, s_DirtyBlockCount, m_Device,
                   m_bufferNumber, m_UseCount, want, desc, retry, unsaved, flusher, stranded>>

Synced(t) == /\ pc[t] = "sync" /\ t \notin s_FlushingDoneConditionVar
             /\ Goto(t, "idle")
             /\ UNCHANGED <<cacheVars, headerVars, want, desc, retry, unsaved, flusher, stranded>>

-----------------------------------------------------------------------------
(* DiskCacheFlusher and FlushBlockList_trw.  Its wait for s_FlushingRequestConditionVar has a  *)
(* timeout, so that the notifications of it only make the next round come sooner.            *)

\* curTime is read once for a list: a block does not get old while its list is written.
GetOld(h) == /\ IsDirty(h) /\ "OLD" \notin m_Flags[h] /\ flusher.at = "idle"
             /\ m_Flags' = [m_Flags EXCEPT ![h] = @ \cup {"OLD"}]
             /\ UNCHANGED <<cacheVars, m_Device, m_bufferNumber, m_UseCount,
                            threadVars, unsaved, flusher, stranded>>

\* The runs of consecutive numbers in a list of blocks of one device.
Numbers(list) == {m_bufferNumber[h] : h \in list}
SegmentOf(list, h) ==
    {g \in list : LET lo == Min({m_bufferNumber[g], m_bufferNumber[h]})
                      hi == Max({m_bufferNumber[g], m_bufferNumber[h]})
                  IN  lo..hi \subseteq Numbers(list)}
Segments(list) == {SegmentOf(list, h) : h \in list}
First(list) == CHOOSE h \in list : \A g \in list : m_bufferNumber[h] =< m_bufferNumber[g]

\* The part of the sorted list behind a segment.
Behind(list, segment) ==
    {h \in list : \A g \in segment : m_bufferNumber[h] > m_bufferNumber[g]}

(***************************************************************************)
(* The blocks whose flags decide over a segment of rest, the part of list  *)
(* that is left.  The loop looks at a block before it finds out that a new *)
(* segment starts with it: the first block of a segment counts for the     *)
(* segment before and not for its own, except for the first of the list.   *)
(***************************************************************************)
LookedAt(list, rest, segment) ==
    LET behind == Behind(rest, segment) IN
    {h \in segment : h # First(segment) \/ (rest = list /\ h = First(list))}
        \cup (IF behind = {} THEN {} ELSE {First(behind)})
Required(flags, list, rest, segment) ==
    \E h \in LookedAt(list, rest, segment) : "FLUSH_REQUESTED" \in flags[h]
DueSegments(flags, list, rest) ==
    {s \in Segments(rest) : \/ Required(flags, list, rest, s)
                            \/ \E h \in LookedAt(list, rest, s) : "OLD" \in flags[h]
                            \/ Cardinality(s) >= MIN_FLUSH_BLOCK_COUNT}

Without(flags, headers, gone) ==
    [h \in Headers |-> IF h \in headers THEN flags[h] \ gone ELSE flags[h]]

\* On to the next segment of the list that is due, or to the end of the round.
NextSegment(flags, list, rest, flushed, waiters, left) ==
    LET due == DueSegments(flags, list, rest) IN
    IF due = {}
    THEN /\ m_Flags' = Without(flags, list, {"IS_FLUSHING"})
         /\ flusher' = Idle
         /\ s_FlushingDoneConditionVar' = IF flushed THEN {} ELSE waiters
         /\ stranded' = IF flushed THEN {} ELSE left
    ELSE LET first == CHOOSE s \in due : \A u \in due : Min(Numbers(s)) =< Min(Numbers(u)) IN
         /\ m_Flags' = Without(flags, first, {"DIRTY_PENDING"})
         /\ flusher' = [at |-> "write", list |-> list, segment |-> first,
                        rest |-> Behind(rest, first),
                        required |-> Required(flags, list, rest, first), flushed |-> flushed]
         /\ s_FlushingDoneConditionVar' = waiters
         /\ stranded' = left

\* The dirty blocks of the device of the first one, in the order of s_MRUList.
FlushList ==
    LET dirty == Those(s_MRUList, {h \in Headers : IsDirty(h) /\ ~IsFlushing(h)})
        same == Those(dirty, {h \in Headers : m_Device[h] = m_Device[Head(dirty)]})
    IN  {same[i] : i \in 1..Min({Len(same), MAX_FLUSH_BLOCK_COUNT})}

Collect ==
    /\ flusher.at = "idle" /\ s_DirtyBlockCount > 0
    /\ NextSegment([h \in Headers |-> IF h \in FlushList THEN m_Flags[h] \cup {"IS_FLUSHING"}
                                                         ELSE m_Flags[h]],
                   FlushList, FlushList, FALSE, s_FlushingDoneConditionVar, stranded)
    /\ UNCHANGED <<m_BlockMap, s_FreeList, s_MRUList, s_DirtyBlockCount, m_Device,
                   m_bufferNumber, m_UseCount, threadVars, unsaved>>

\* kpwritev_trw, without the lock.  If it throws, what it had to write is lost.
WriteSegment ==
    /\ flusher.at = "write"
    /\ unsaved' = unsaved \ flusher.segment
    /\ flusher' \in {[flusher EXCEPT !.at = "written", !.flushed = TRUE],
                    [flusher EXCEPT !.at = "failed"]}
    /\ UNCHANGED <<cacheVars, headerVars, threadVars, stranded>>

\* A wrong variant: the blocks are clean after the write, also those written to meanwhile.
CleanAll(segment) == segment

\* The blocks of the segment that nobody has marked since the write began.
Clean(segment) == {h \in segment : "DIRTY_PENDING" \notin m_Flags[h]}

\* With the lock again: clean, whether or not the write failed.
SegmentWritten ==
    LET clean == Clean(flusher.segment)
        waiters == IF flusher.required THEN {} ELSE s_FlushingDoneConditionVar
    IN
    /\ flusher.at \in {"written", "failed"}
    /\ s_DirtyBlockCount' = s_DirtyBlockCount - Cardinality({h \in clean : IsDirty(h)})
    /\ NextSegment(Without(m_Flags, clean, {"DIRTY", "FLUSH_REQUESTED", "IS_FLUSHING", "OLD"}),
                   flusher.list, flusher.rest, flusher.flushed, waiters,
                   IF flusher.at = "failed" THEN waiters ELSE waiters \cap stranded)
    /\ UNCHANGED <<m_BlockMap, s_FreeList, s_MRUList, m_Device, m_bufferNumber, m_UseCount,
                   threadVars, unsaved>>

-----------------------------------------------------------------------------
Step(t) == Retry(t) \/ MarkDirty(t) \/ Synced(t)
FlusherStep == Collect \/ WriteSegment \/ SegmentWritten

Next == \/ \E t \in Threads : \/ \E d \in Devices, b \in Blocks : GetBlock(t, d, b)
                             \/ WriteBuffer(t)
                             \/ Sync(t)
                             \/ Step(t)
                             \/ Release(t)
        \/ \E h \in Headers : GetOld(h)
        \/ FlusherStep

Spec == Init /\ [][Next]_vars

-----------------------------------------------------------------------------
\* No header is in the lists twice, the use counts are those of the descriptors, and
\* s_DirtyBlockCount, which decides whether the flusher works at all, counts the dirty blocks.
TypeOK ==
    /\ m_BlockMap \in [Devices -> [Blocks -> Headers \cup {NULL}]]
    /\ m_Flags \in [Headers -> SUBSET Flags]
    /\ unsaved \subseteq Headers
    /\ s_FlushingDoneConditionVar \subseteq {t \in Threads : pc[t] \in {"wait", "sync"}}
    /\ retry \in [Threads -> 0..MaxRetries - 1]
    /\ Len(s_FreeList) + Len(s_MRUList)
          = Cardinality(Linked(s_FreeList) \cup Linked(s_MRUList))
    /\ \A h \in Headers : m_UseCount[h] = Cardinality({t \in Threads : desc[t] = h})
    /\ s_DirtyBlockCount = Cardinality({h \in Headers : IsDirty(h)})

\* A block of a device is cached once: every cached block is the one in the map of its device,
\* and a user keeps the block it asked for while others look up, load, flush and evict.
CachedOnce ==
    /\ TypeOK
    /\ \A h \in Linked(s_MRUList) : m_BlockMap[m_Device[h]][m_bufferNumber[h]] = h
    /\ \A t \in Threads : desc[t] # NULL => <<m_Device[desc[t]], m_bufferNumber[desc[t]]>> = want[t]

\* What the flusher has not written yet is marked dirty, also when it is written to the buffer
\* while the flusher writes that buffer to the device, and after a write that failed.
UnsavedIsDirty ==
    \A h \in unsaved : \/ IsDirty(h)
                       \/ \E t \in Threads : desc[t] = h /\ pc[t] = "written"

\* A thread sleeps, for a block or in Sync, only while somebody is bound to notify it: the
\* last user of a block, or the flusher, which has dirty blocks left or is about to end a
\* round.  A failed write is the exception: the code notifies nobody of it, and may leave
\* asleep those that waited for it.
SleeperHasWaker ==
    \/ s_FlushingDoneConditionVar \subseteq stranded
    \/ \E h \in Headers : m_UseCount[h] > 0 \/ IsDirty(h)
    \/ flusher.at \in {"written", "failed"} /\ flusher.flushed

\* ValidateFlushBlockList asserts that every block of a flush list is in the map of its device.
FlushListMapped ==
    \A h \in flusher.list : m_BlockMap[m_Device[h]][m_bufferNumber[h]] = h
=============================================================================
