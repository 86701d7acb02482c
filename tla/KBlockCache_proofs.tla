------------------------- MODULE KBlockCache_proofs -------------------------
(***************************************************************************)
(* Theorems about the block cache, for every number of threads, blocks and *)
(* headers, where one device is cached: with two, the map of a device may  *)
(* keep the entry of a block that another has evicted (FlushListMapped).   *)
(***************************************************************************)
EXTENDS KBlockCache, KVFSManager, WaitQueue_proofs

USE CacheAssumption

OneDevice == \A d, e \in Devices : d = e

Mru == Linked(s_MRUList)
Free == Linked(s_FreeList)
Dirty == {h \in Headers : IsDirty(h)}
Users(h) == {t \in Threads : desc[t] = h}
Writing(h) == \E t \in Threads : desc[t] = h /\ pc[t] = "written"

UserLabels == {"idle", "wait", "have", "written", "sync"}
FlusherStates == [at : {"idle", "write", "written", "failed"},
                  list : SUBSET Headers, segment : SUBSET Headers, rest : SUBSET Headers,
                  required : BOOLEAN, flushed : BOOLEAN]

TypeInv ==
    /\ m_BlockMap \in [Devices -> [Blocks -> Headers \cup {NULL}]]
    /\ s_FreeList \in Seq(Headers) /\ s_MRUList \in Seq(Headers)
    /\ s_FlushingDoneConditionVar \subseteq {t \in Threads : pc[t] \in {"wait", "sync"}}
    /\ m_Device \in [Headers -> Devices \cup {NULL}]
    /\ m_bufferNumber \in [Headers -> Nat]
    /\ m_UseCount \in [Headers -> Nat]
    /\ m_Flags \in [Headers -> SUBSET Flags]
    /\ unsaved \subseteq Headers
    /\ pc \in [Threads -> UserLabels]
    /\ want \in [Threads -> (Devices \X Blocks) \cup {NULL}]
    /\ desc \in [Threads -> Headers \cup {NULL}]
    /\ retry \in [Threads -> 0..MaxRetries - 1]
    /\ flusher \in FlusherStates

\* A header is in one of the two lists at most, once, and the cache has some.
ListInv ==
    /\ OneNodeEach(s_FreeList) /\ OneNodeEach(s_MRUList)
    /\ Free \cap Mru = {}
    /\ Free \cup Mru # {}

\* The map leads to the cached blocks, and to nothing else.
MapInv ==
    /\ \A h \in Mru : /\ m_Device[h] \in Devices /\ m_bufferNumber[h] \in Blocks
                      /\ m_BlockMap[m_Device[h]][m_bufferNumber[h]] = h
    /\ \A d \in Devices, b \in Blocks :
           m_BlockMap[d][b] # NULL => /\ m_BlockMap[d][b] \in Mru
                                      /\ m_bufferNumber[m_BlockMap[d][b]] = b

\* A descriptor leads to the cached block its thread asked for.
UserInv ==
    \A t \in Threads :
        /\ desc[t] # NULL <=> pc[t] \in {"have", "written"}
        /\ desc[t] # NULL => desc[t] \in Mru
                             /\ want[t] = <<m_Device[desc[t]], m_bufferNumber[desc[t]]>>
        /\ pc[t] = "wait" => want[t] \in Devices \X Blocks

CountInv ==
    /\ \A h \in Headers : m_UseCount[h] = Cardinality(Users(h))
    /\ s_DirtyBlockCount = Cardinality(Dirty)

\* What the flusher still has to write is dirty and marked; the marks are of its list.
FlushInv ==
    /\ \A h \in Headers : /\ IsDirty(h) => h \in Mru
                          /\ IsFlushing(h) => IsDirty(h) /\ h \in flusher.list
    /\ \A h \in flusher.segment \cup flusher.rest : IsDirty(h) /\ IsFlushing(h)
    /\ flusher.segment \cap flusher.rest = {}
    /\ flusher.at = "idle" => flusher = Idle
    /\ flusher.at = "written" => flusher.flushed

\* A segment that has been written has lost nothing that its users do not mark again.
SaveInv ==
    /\ \A h \in unsaved : IsDirty(h) \/ Writing(h)
    /\ flusher.at \in {"written", "failed"} =>
          \A h \in flusher.segment \cap unsaved : "DIRTY_PENDING" \in m_Flags[h] \/ Writing(h)

IInv == TypeInv /\ ListInv /\ MapInv /\ UserInv /\ CountInv /\ FlushInv /\ SaveInv /\ SleeperHasWaker

-----------------------------------------------------------------------------
(* The lists and the counts *)

\* The last of a list leaves it.
LEMMA FrontLinked ==
    ASSUME NEW S, NEW s \in Seq(S), OneNodeEach(s), s # <<>>
    PROVE  /\ Last(s) \in Linked(s) /\ Front(s) \in Seq(S) /\ OneNodeEach(Front(s))
           /\ Linked(Front(s)) = Linked(s) \ {Last(s)}
<1> DEFINE new == Front(s)
           n == Len(s) - 1
<1>1. Len(s) \in Nat \ {0} /\ n \in Nat /\ n + 1 = Len(s) /\ Last(s) = s[n + 1]
  BY EmptySeq, LenProperties DEF Last
<1>2. new = SubSeq(s, 1, n)
  BY DEF Front
<1> HIDE DEF new, n
<1>3. \A i \in 1..n : s[i] \in S
  BY <1>1, ElementOfSeq
<1>4. new \in Seq(S) /\ Len(new) = n /\ \A i \in 1..n : new[i] = s[i]
  BY <1>1, <1>2, <1>3, SubSeqProperties
<1>5. /\ \A t : t \in Linked(s) <=> \E i \in 1..Len(s) : s[i] = t
      /\ \A t : t \in Linked(new) <=> \E i \in 1..Len(new) : new[i] = t
  BY <1>4, LinkedAt
<1>6. OneNodeEach(new)
  BY <1>1, <1>4 DEF OneNodeEach
<1>7. ASSUME NEW t, t \in Linked(new) PROVE t \in Linked(s) \ {s[n + 1]}
  BY <1>1, <1>4, <1>5, <1>7 DEF OneNodeEach
<1>8. ASSUME NEW t, t \in Linked(s), t # s[n + 1] PROVE t \in Linked(new)
  BY <1>1, <1>4, <1>5, <1>8
<1>9. s[n + 1] \in Linked(s)
  BY <1>1, <1>5
<1> QED BY <1>1, <1>4, <1>6, <1>7, <1>8, <1>9 DEF new

\* The sets of threads and headers the cache counts.
LEMMA Sizes == /\ \A h : IsFiniteSet(Users(h)) /\ Cardinality(Users(h)) \in Nat
               /\ IsFiniteSet(Dirty) /\ Cardinality(Dirty) \in Nat
<1>1. Dirty \subseteq Headers /\ \A h : Users(h) \subseteq Threads
  BY DEF Dirty, Users
<1> QED BY <1>1, FS_Subset, FS_CardinalityType

\* A set with one more.
LEMMA OneMore ==
    ASSUME NEW S, IsFiniteSet(S), NEW t, t \notin S
    PROVE  Cardinality(S \cup {t}) = Cardinality(S) + 1
  BY FS_AddElement

\* A set with one less.
LEMMA OneLess ==
    ASSUME NEW S, IsFiniteSet(S), NEW t \in S
    PROVE  Cardinality(S \ {t}) = Cardinality(S) - 1
  BY FS_RemoveElement

\* A list is as long as its set is large.
LEMMA ListSize ==
    ASSUME NEW S, IsFiniteSet(S), NEW s \in Seq(S), OneNodeEach(s)
    PROVE  IsFiniteSet(Linked(s)) /\ Cardinality(Linked(s)) = Len(s) /\ Len(s) \in Nat
<1>1. Len(s) \in Nat /\ DOMAIN s = 1..Len(s)
  BY LenProperties
<1>2. PopCount(s, 0) = Len(s) /\ Popped(s, 0) = Linked(s)
  BY <1>1 DEF PopCount, Popped, Linked
<1> QED BY <1>1, <1>2, QueueSize

\* A cache that has just been made.
LEMMA InitIInv == Init => IInv
<1> SUFFICES ASSUME Init PROVE IInv
  OBVIOUS
<1>1. /\ s_FreeList \in Seq(Headers) /\ OneNodeEach(s_FreeList) /\ Free # {}
  <2>1. PICK cache \in (SUBSET Headers) \ {{}} : s_FreeList \in SetToSeqs(cache)
    BY DEF Init
  <2> DEFINE n == Cardinality(cache)
  <2>2. /\ s_FreeList \in [1..n -> cache]
        /\ \A i, j \in 1..n : i # j => s_FreeList[i] # s_FreeList[j]
    BY <2>1 DEF SetToSeqs
  <2>3. IsFiniteSet(cache) /\ n \in Nat /\ n # 0
    <3>1. IsFiniteSet(cache) /\ cache # {}
      BY <2>1, FS_Subset
    <3> QED BY <3>1, FS_CardinalityType, FS_EmptySet
  <2> HIDE DEF n
  <2>4. s_FreeList \in Seq(cache) /\ Len(s_FreeList) = n /\ s_FreeList \in Seq(Headers)
    BY <2>1, <2>2, <2>3
  <2>5. OneNodeEach(s_FreeList)
    BY <2>2, <2>4 DEF OneNodeEach
  <2>6. s_FreeList[1] \in Free
    BY <2>3, <2>4, LinkedAt DEF Free
  <2> QED BY <2>4, <2>5, <2>6
<1>2. TypeInv
  <2>1. Idle \in FlusherStates
    BY DEF Idle, FlusherStates
  <2> QED BY <1>1, <2>1 DEF Init, TypeInv, UserLabels
<1>3. Mru = {} /\ OneNodeEach(s_MRUList)
  BY EmptyLinked DEF Init, Mru
<1>4. ListInv /\ MapInv /\ UserInv
  BY <1>1, <1>3 DEF Init, ListInv, MapInv, UserInv
<1>5. Dirty = {} /\ \A h \in Headers : Users(h) = {}
  BY DEF Init, Dirty, Users, IsDirty
<1>6. CountInv
  BY <1>5, FS_EmptySet DEF Init, CountInv
<1>7. FlushInv /\ SaveInv /\ SleeperHasWaker
  BY DEF Init, FlushInv, SaveInv, SleeperHasWaker, IsDirty, IsFlushing, Idle
<1> QED BY <1>2, <1>4, <1>6, <1>7 DEF IInv

-----------------------------------------------------------------------------
(* GetBlock_trw *)

\* A thread that is in no call, or has been notified, and looks for the block b of d.
Asks(t, d, b) == /\ t \in Threads /\ d \in Devices /\ b \in Blocks
                 /\ desc[t] = NULL /\ t \notin s_FlushingDoneConditionVar
                 /\ pc[t] \in {"idle", "wait"}

\* The block is cached.
LEMMA HitStep ==
    ASSUME OneDevice, IInv, NEW t, NEW d, NEW b, Asks(t, d, b), m_BlockMap[d][b] # NULL,
           Hit(t, d, b), UNCHANGED <<flusher, stranded>>
    PROVE  IInv'
<1>0. PICK h : h = m_BlockMap[d][b]
  OBVIOUS
<1>1. /\ TypeInv /\ ListInv /\ MapInv /\ UserInv /\ CountInv /\ FlushInv /\ SaveInv
      /\ t \in Threads /\ d \in Devices /\ b \in Blocks
      /\ desc[t] = NULL /\ t \notin s_FlushingDoneConditionVar /\ pc[t] \in {"idle", "wait"}
  BY DEF IInv, Asks
<1>2. /\ h \in Mru /\ h \in Headers /\ m_Device[h] = d /\ m_bufferNumber[h] = b /\ h # NULL
  <2>1. h \in Mru /\ m_bufferNumber[h] = b
    BY <1>0, <1>1 DEF MapInv
  <2>2. h \in Headers /\ m_Device[h] \in Devices
    BY <1>0, <1>1, <2>1 DEF MapInv, TypeInv
  <2> QED BY <1>1, <2>1, <2>2 DEF OneDevice
<1>3. /\ m_UseCount' = [m_UseCount EXCEPT ![h] = @ + 1]
      /\ s_MRUList' = Append(Detatch(s_MRUList, h), h)
      /\ desc' = [desc EXCEPT ![t] = h] /\ want' = [want EXCEPT ![t] = <<d, b>>]
      /\ retry' = [retry EXCEPT ![t] = 0] /\ pc' = [pc EXCEPT ![t] = "have"]
      /\ UNCHANGED <<m_BlockMap, s_FreeList, s_DirtyBlockCount, s_FlushingDoneConditionVar,
                   m_Device, m_bufferNumber, m_Flags, unsaved, flusher, stranded>>
  BY <1>0, <1>2 DEF Hit, GotBlock, Goto
<1>4. s_MRUList' \in Seq(Headers) /\ OneNodeEach(s_MRUList') /\ Mru' = Mru
  <2>1. /\ Detatch(s_MRUList, h) \in Seq(Headers) /\ OneNodeEach(Detatch(s_MRUList, h))
        /\ Linked(Detatch(s_MRUList, h)) = Mru \ {h}
    BY <1>1, DetatchLinked DEF TypeInv, ListInv, Mru
  <2>2. /\ s_MRUList' \in Seq(Headers) /\ OneNodeEach(s_MRUList')
        /\ Linked(s_MRUList') = (Mru \ {h}) \cup {h}
    BY <1>2, <1>3, <2>1, AppendLinked
  <2> QED BY <1>2, <2>2 DEF Mru
<1>5. Free' = Free /\ Dirty' = Dirty /\ \A g \in Headers : IsDirty(g)' = IsDirty(g) /\ IsFlushing(g)' = IsFlushing(g)
  BY <1>3 DEF Free, Dirty, IsDirty, IsFlushing
<1>6. TypeInv'
  BY <1>1, <1>2, <1>3, <1>4, SMTT(40) DEF TypeInv, UserLabels
<1>7. ListInv' /\ MapInv'
  BY <1>1, <1>3, <1>4, <1>5 DEF ListInv, MapInv
<1>8. UserInv'
  BY <1>1, <1>2, <1>3, <1>4 DEF UserInv, TypeInv
<1>9. CountInv'
  <2>1. Users(h)' = Users(h) \cup {t} /\ t \notin Users(h)
    BY <1>1, <1>2, <1>3 DEF Users, TypeInv
  <2>2. \A g \in Headers \ {h} : Users(g)' = Users(g)
    BY <1>1, <1>2, <1>3 DEF Users, TypeInv
  <2>3. Cardinality(Users(h)') = Cardinality(Users(h)) + 1
    BY <2>1, Sizes, OneMore
  <2> QED BY <1>1, <1>2, <1>3, <1>5, <2>2, <2>3 DEF CountInv, TypeInv
<1>10. FlushInv'
  BY <1>1, <1>3, <1>4, <1>5 DEF FlushInv, TypeInv, FlusherStates
<1>11. SaveInv'
  <2>1. \A g : Writing(g) => Writing(g)'
    BY <1>1, <1>3 DEF Writing, TypeInv
  <2> QED BY <1>1, <1>3, <1>5, <2>1 DEF SaveInv, TypeInv
<1>12. SleeperHasWaker'
  <2>1. m_UseCount'[h] > 0
    BY <1>1, <1>2, <1>3 DEF TypeInv
  <2> QED BY <1>2, <2>1 DEF SleeperHasWaker
<1> QED BY <1>6, <1>7, <1>8, <1>9, <1>10, <1>11, <1>12 DEF IInv

\* A header that is free, or that holds a clean block nobody uses, and what is left
\* of the lists and of the map without it.
Takes(d, b, h, map, free, mru) ==
    /\ h \in Headers /\ ~IsDirty(h) /\ Users(h) = {}
    /\ free \in Seq(Headers) /\ OneNodeEach(free) /\ Linked(free) = Free \ {h}
    /\ mru \in Seq(Headers) /\ OneNodeEach(mru) /\ Linked(mru) = Mru \ {h}
    /\ map \in [Blocks -> Headers \cup {NULL}] /\ map[b] = NULL
    /\ \A g \in Mru \ {h} : map[m_bufferNumber[g]] = g
    /\ \A x \in Blocks : map[x] # NULL => map[x] \in Mru \ {h} /\ m_bufferNumber[map[x]] = x

\* The block is read.
LEMMA LoadedStep ==
    ASSUME OneDevice, IInv, NEW t, NEW d, NEW b, Asks(t, d, b),
           NEW h, NEW map, NEW free, NEW mru, Takes(d, b, h, map, free, mru),
           unsaved' = unsaved \ {h},
           m_BlockMap' = [m_BlockMap EXCEPT ![d] = [map EXCEPT ![b] = h]],
           s_FreeList' = free, s_MRUList' = Append(mru, h),
           m_UseCount' = [m_UseCount EXCEPT ![h] = 1], m_Flags' = [m_Flags EXCEPT ![h] = {}],
           m_Device' = [m_Device EXCEPT ![h] = d],
           m_bufferNumber' = [m_bufferNumber EXCEPT ![h] = b], GotBlock(t, d, b, h),
           UNCHANGED <<s_DirtyBlockCount, s_FlushingDoneConditionVar, flusher, stranded>>
    PROVE  IInv'
<1>1. /\ TypeInv /\ ListInv /\ MapInv /\ UserInv /\ CountInv /\ FlushInv /\ SaveInv
      /\ t \in Threads /\ d \in Devices /\ b \in Blocks /\ b \in Nat
      /\ desc[t] = NULL /\ t \notin s_FlushingDoneConditionVar /\ pc[t] \in {"idle", "wait"}
  BY DEF IInv, Asks
<1>2. /\ h \in Headers /\ h # NULL /\ ~IsDirty(h) /\ ~IsFlushing(h) /\ Users(h) = {}
  BY <1>1 DEF Takes, FlushInv
<1>3. /\ desc' = [desc EXCEPT ![t] = h] /\ want' = [want EXCEPT ![t] = <<d, b>>]
      /\ retry' = [retry EXCEPT ![t] = 0] /\ pc' = [pc EXCEPT ![t] = "have"]
  BY <1>2 DEF GotBlock, Goto
<1>4. /\ s_MRUList' \in Seq(Headers) /\ OneNodeEach(s_MRUList') /\ Mru' = Mru \cup {h}
      /\ s_FreeList' \in Seq(Headers) /\ OneNodeEach(s_FreeList') /\ Free' = Free \ {h}
  BY <1>2, AppendLinked DEF Takes, Mru, Free
<1>5. /\ \A g \in Headers \ {h} : /\ m_Flags'[g] = m_Flags[g] /\ m_Device'[g] = m_Device[g]
                                 /\ m_bufferNumber'[g] = m_bufferNumber[g]
                                 /\ m_UseCount'[g] = m_UseCount[g]
      /\ m_Flags'[h] = {} /\ m_Device'[h] = d /\ m_bufferNumber'[h] = b /\ m_UseCount'[h] = 1
  BY <1>1, <1>2 DEF TypeInv
<1>6. /\ \A g \in Headers : IsDirty(g)' = IsDirty(g) /\ IsFlushing(g)' = IsFlushing(g)
      /\ Dirty' = Dirty
  <2>1. \A g \in Headers : IsDirty(g)' <=> IsDirty(g)
    BY <1>2, <1>5 DEF IsDirty
  <2>2. \A g \in Headers : IsFlushing(g)' <=> IsFlushing(g)
    BY <1>2, <1>5 DEF IsFlushing
  <2> QED BY <2>1, <2>2 DEF Dirty, IsDirty, IsFlushing
<1>7. TypeInv'
  BY <1>1, <1>2, <1>3, <1>4, SMTT(40) DEF TypeInv, UserLabels, Takes
<1>8. ListInv'
  BY <1>1, <1>4 DEF ListInv
<1>9. MapInv'
  <2>1. /\ m_BlockMap'[d][b] = h
        /\ \A x \in Blocks \ {b} : m_BlockMap'[d][x] = map[x]
    BY <1>1 DEF TypeInv, Takes
  <2>2. \A e \in Devices : e = d
    BY <1>1 DEF OneDevice
  <2>3. \A g \in Mru \ {h} : /\ g \in Headers /\ m_bufferNumber[g] \in Blocks
                             /\ map[m_bufferNumber[g]] = g /\ g # NULL /\ m_Device[g] = d
    BY <1>1, <2>2, LinkedAt DEF MapInv, TypeInv, Mru, Takes
  <2>4. \A g \in Mru \ {h} : m_bufferNumber[g] # b
    BY <2>3 DEF Takes
  <2>5. ASSUME NEW g \in Mru'
        PROVE  /\ m_Device'[g] \in Devices /\ m_bufferNumber'[g] \in Blocks
               /\ m_BlockMap'[m_Device'[g]][m_bufferNumber'[g]] = g
    <3>1. CASE g = h
      BY <1>1, <1>5, <2>1, <3>1
    <3>2. CASE g # h
      <4>1. g \in Mru \ {h} /\ g \in Headers \ {h}
        BY <1>4, <2>3, <3>2
      <4>2. m_Device'[g] = d /\ m_bufferNumber'[g] = m_bufferNumber[g]
        BY <1>5, <2>3, <4>1
      <4>3. m_bufferNumber[g] \in Blocks \ {b} /\ map[m_bufferNumber[g]] = g
        BY <2>3, <2>4, <4>1
      <4> QED BY <1>1, <2>1, <4>2, <4>3
    <3> QED BY <3>1, <3>2
  <2>6. ASSUME NEW x \in Blocks, m_BlockMap'[d][x] # NULL
        PROVE  m_BlockMap'[d][x] \in Mru' /\ m_bufferNumber'[m_BlockMap'[d][x]] = x
    <3>1. CASE x = b
      BY <1>4, <1>5, <2>1, <3>1
    <3>2. CASE x # b
      <4>1. map[x] = m_BlockMap'[d][x] /\ map[x] \in Mru \ {h} /\ m_bufferNumber[map[x]] = x
        BY <2>1, <2>6, <3>2 DEF Takes
      <4> QED BY <1>4, <1>5, <2>3, <4>1
    <3> QED BY <3>1, <3>2
  <2> QED BY <2>2, <2>5, <2>6 DEF MapInv
<1>10. \A u \in Threads : desc[u] # h
  BY <1>2 DEF Users
<1>11. UserInv'
  <2> SUFFICES ASSUME NEW u \in Threads
               PROVE  /\ desc'[u] # NULL <=> pc'[u] \in {"have", "written"}
                      /\ desc'[u] # NULL => desc'[u] \in Mru' /\ want'[u] = <<m_Device'[desc'[u]], m_bufferNumber'[desc'[u]]>>
                      /\ pc'[u] = "wait" => want'[u] \in Devices \X Blocks
    BY DEF UserInv
  <2>1. CASE u = t
    BY <1>1, <1>2, <1>3, <1>4, <1>5, <2>1 DEF TypeInv
  <2>2. CASE u # t
    <3>1. desc'[u] = desc[u] /\ pc'[u] = pc[u] /\ want'[u] = want[u] /\ desc[u] \in Headers \cup {NULL}
      BY <1>1, <1>3, <2>2 DEF TypeInv
    <3> QED BY <1>1, <1>4, <1>5, <1>10, <3>1 DEF UserInv
  <2> QED BY <2>1, <2>2
<1>12. CountInv'
  <2>1. Users(h)' = {t}
    BY <1>1, <1>3, <1>10 DEF Users, TypeInv
  <2>2. \A g \in Headers \ {h} : Users(g)' = Users(g)
    BY <1>1, <1>3 DEF Users, TypeInv
  <2>3. Cardinality(Users(h)') = 1
    BY <2>1, FS_Singleton
  <2>4. \A g \in Headers : m_UseCount'[g] = Cardinality(Users(g)')
    BY <1>1, <1>5, <2>2, <2>3 DEF CountInv
  <2>5. s_DirtyBlockCount' = Cardinality(Dirty')
    BY <1>1, <1>6 DEF CountInv
  <2> QED BY <2>4, <2>5 DEF CountInv
<1>13. FlushInv'
  BY <1>1, <1>4, <1>6 DEF FlushInv, TypeInv, FlusherStates
<1>14. SaveInv'
  <2>1. \A g \in Headers : Writing(g) => Writing(g)'
    BY <1>1, <1>3 DEF Writing, TypeInv
  <2>2. \A g \in unsaved' : g \in unsaved /\ g # h /\ g \in Headers /\ m_Flags'[g] = m_Flags[g]
    BY <1>1, <1>5 DEF TypeInv
  <2> QED BY <1>1, <1>6, <2>1, <2>2 DEF SaveInv
<1>15. SleeperHasWaker'
  BY <1>2, <1>5 DEF SleeperHasWaker
<1> QED BY <1>7, <1>8, <1>9, <1>11, <1>12, <1>13, <1>14, <1>15 DEF IInv

\* The call ends without a block, and with nothing changed for anybody else.
LEMMA ThrowThreads ==
    ASSUME IInv, NEW t, NEW d, NEW b, Asks(t, d, b), GotBlock(t, d, b, NULL)
    PROVE  /\ desc' = desc
           /\ \A g : Writing(g) => Writing(g)'
           /\ pc' = [pc EXCEPT ![t] = "idle"] /\ want' = [want EXCEPT ![t] = NULL]
           /\ retry' = [retry EXCEPT ![t] = 0]
           /\ \A h : Users(h)' = Users(h)
<1>1. TypeInv /\ t \in Threads /\ desc[t] = NULL /\ pc[t] \in {"idle", "wait"}
  BY DEF IInv, Asks
<1>2. desc' = [desc EXCEPT ![t] = NULL] /\ pc' = [pc EXCEPT ![t] = "idle"]
      /\ want' = [want EXCEPT ![t] = NULL] /\ retry' = [retry EXCEPT ![t] = 0]
  BY DEF GotBlock, Goto
<1>3. desc' = desc
  BY <1>1, <1>2 DEF TypeInv
<1>4. \A g : Writing(g) => Writing(g)'
  BY <1>1, <1>2, <1>3 DEF Writing, TypeInv
<1> QED BY <1>2, <1>3, <1>4 DEF Users

\* The block cannot be read, and its header is free.
LEMMA NotLoadedStep ==
    ASSUME OneDevice, IInv, NEW t, NEW d, NEW b, Asks(t, d, b),
           NEW h, NEW map, NEW free, NEW mru, Takes(d, b, h, map, free, mru),
           unsaved' = unsaved \ {h}, m_BlockMap' = [m_BlockMap EXCEPT ![d] = map],
           s_FreeList' = Append(free, h), s_MRUList' = mru, GotBlock(t, d, b, NULL),
           UNCHANGED <<s_DirtyBlockCount, s_FlushingDoneConditionVar, headerVars, flusher, stranded>>
    PROVE  IInv'
<1>1. /\ TypeInv /\ ListInv /\ MapInv /\ UserInv /\ CountInv /\ FlushInv /\ SaveInv /\ SleeperHasWaker
      /\ t \in Threads /\ d \in Devices /\ b \in Blocks
      /\ desc[t] = NULL /\ t \notin s_FlushingDoneConditionVar /\ pc[t] \in {"idle", "wait"}
  BY DEF IInv, Asks
<1>2. /\ h \in Headers /\ h # NULL /\ ~IsDirty(h) /\ Users(h) = {} /\ UNCHANGED <<m_Device, m_bufferNumber, m_UseCount, m_Flags>>
  BY <1>1 DEF Takes, headerVars
<1>3. /\ desc' = desc /\ pc' = [pc EXCEPT ![t] = "idle"]
      /\ want' = [want EXCEPT ![t] = NULL] /\ retry' = [retry EXCEPT ![t] = 0]
  BY ThrowThreads
<1>13. \A g : (Writing(g) => Writing(g)') /\ Users(g)' = Users(g)
  BY ThrowThreads
<1>4. /\ s_MRUList' \in Seq(Headers) /\ OneNodeEach(s_MRUList') /\ Mru' = Mru \ {h}
      /\ s_FreeList' \in Seq(Headers) /\ OneNodeEach(s_FreeList') /\ Free' = Free \cup {h}
  BY <1>2, AppendLinked DEF Takes, Mru, Free
<1>5. /\ \A g \in Headers : IsDirty(g)' = IsDirty(g) /\ IsFlushing(g)' = IsFlushing(g)
      /\ Dirty' = Dirty
  BY <1>2 DEF Dirty, IsDirty, IsFlushing
<1>6. TypeInv'
  <2>1. m_BlockMap' \in [Devices -> [Blocks -> Headers \cup {NULL}]]
    BY <1>1 DEF TypeInv, Takes
  <2>2. s_FlushingDoneConditionVar' \subseteq {u \in Threads : pc'[u] \in {"wait", "sync"}}
    BY <1>1, <1>3 DEF TypeInv
  <2>3. retry' \in [Threads -> 0..MaxRetries - 1]
    BY <1>1, <1>3 DEF TypeInv
  <2> QED BY <1>1, <1>2, <1>3, <1>4, <2>1, <2>2, <2>3 DEF TypeInv, UserLabels
<1>7. ListInv'
  BY <1>1, <1>4 DEF ListInv
<1>8. MapInv'
  <2>1. m_BlockMap'[d] = map
    BY <1>1 DEF TypeInv
  <2>2. \A e \in Devices : e = d
    BY <1>1 DEF OneDevice
  <2> QED BY <1>1, <1>2, <1>4, <2>1, <2>2 DEF MapInv, Takes
<1>9. UserInv'
  <2>1. \A u \in Threads : desc[u] # h
    BY <1>2 DEF Users
  <2> QED BY <1>1, <1>2, <1>3, <1>4, <2>1 DEF UserInv, TypeInv
<1>10. CountInv' /\ FlushInv'
  <2>1. CountInv'
    BY <1>1, <1>2, <1>5, <1>13 DEF CountInv
  <2>2. FlushInv'
    BY <1>1, <1>2, <1>4, <1>5 DEF FlushInv, TypeInv, FlusherStates
  <2> QED BY <2>1, <2>2
<1>11. SaveInv'
  BY <1>1, <1>2, <1>5, <1>13 DEF SaveInv, TypeInv
<1>12. SleeperHasWaker'
  BY <1>1, <1>2, <1>5 DEF SleeperHasWaker
<1> QED BY <1>6, <1>7, <1>8, <1>9, <1>10, <1>11, <1>12 DEF IInv

\* Only requests and ages have been added to the flags of the blocks.
Marked == /\ m_Flags' \in [Headers -> SUBSET Flags]
          /\ \A h \in Headers : /\ IsDirty(h)' <=> IsDirty(h)
                                /\ IsFlushing(h)' <=> IsFlushing(h)
                                /\ m_Flags[h] \subseteq m_Flags'[h]
          /\ UNCHANGED <<m_BlockMap, s_FreeList, s_MRUList, s_DirtyBlockCount, m_Device,
                         m_bufferNumber, m_UseCount, desc, unsaved, flusher>>

\* What such a step leaves as it is.
LEMMA MarkedStep ==
    ASSUME IInv, Marked, \A t \in Threads : pc[t] = "written" => pc'[t] = "written"
    PROVE  ListInv' /\ MapInv' /\ CountInv' /\ FlushInv' /\ SaveInv' /\ Dirty' = Dirty
<1>1. TypeInv /\ ListInv /\ MapInv /\ CountInv /\ FlushInv /\ SaveInv
  BY DEF IInv
<1>2. /\ \A h \in Headers : /\ IsDirty(h)' <=> IsDirty(h)
                            /\ IsFlushing(h)' <=> IsFlushing(h)
                            /\ m_Flags[h] \subseteq m_Flags'[h]
      /\ UNCHANGED <<m_BlockMap, s_FreeList, s_MRUList, s_DirtyBlockCount, m_Device,
                         m_bufferNumber, m_UseCount, desc, unsaved, flusher>>
  BY DEF Marked
<1>3. Mru' = Mru /\ Free' = Free /\ Mru \subseteq Headers /\ \A h : Users(h)' = Users(h)
  BY <1>1, <1>2, LinkedAt DEF Mru, Free, Users, TypeInv
<1>4. Dirty' = Dirty
  BY <1>2 DEF Dirty
<1>5. ListInv' /\ MapInv'
  BY <1>1, <1>2, <1>3 DEF ListInv, MapInv
<1>6. CountInv'
  BY <1>1, <1>2, <1>3, <1>4 DEF CountInv
<1>7. FlushInv'
  <2>1. flusher.segment \cup flusher.rest \subseteq Headers
    BY <1>1 DEF TypeInv, FlusherStates
  <2> QED BY <1>1, <1>2, <1>3, <2>1 DEF FlushInv
<1>8. SaveInv'
  <2>1. \A h : Writing(h) => Writing(h)'
    BY <1>2 DEF Writing
  <2>2. unsaved \subseteq Headers
    BY <1>1 DEF TypeInv
  <2> QED BY <1>1, <1>2, <2>1, <2>2 DEF SaveInv
<1> QED BY <1>4, <1>5, <1>6, <1>7, <1>8

\* There is no block to take.
LEMMA WaitStep ==
    ASSUME OneDevice, IInv, NEW t, NEW d, NEW b, Asks(t, d, b), s_FreeList = <<>>,
           Victims = <<>> \/ IsFlushing(Head(Victims)) \/ IsDirty(Head(Victims)),
           NEW round \in 0..MaxRetries - 1, WaitForBlock(t, d, b, round),
           UNCHANGED <<flusher, stranded>>
    PROVE  IInv'
<1>1. /\ TypeInv /\ ListInv /\ UserInv /\ CountInv /\ FlushInv
      /\ t \in Threads /\ d \in Devices /\ b \in Blocks
      /\ desc[t] = NULL /\ t \notin s_FlushingDoneConditionVar /\ pc[t] \in {"idle", "wait"}
  BY DEF IInv, Asks
<1>2. /\ Victims \in Seq(Headers) /\ Linked(Victims) = {h \in Mru : m_UseCount[h] = 0}
      /\ Victims # <<>> => Head(Victims) \in Mru
      /\ Mru \subseteq Headers
  <2>1. Mru \subseteq Headers
    BY <1>1, LinkedAt DEF Mru, TypeInv
  <2>2. /\ Victims \in Seq(Headers) /\ OneNodeEach(Victims)
        /\ Linked(Victims) = Mru \cap {h \in Headers : m_UseCount[h] = 0}
    BY <1>1, ThoseAre DEF Victims, Mru, TypeInv, ListInv
  <2>3. Victims # <<>> => Head(Victims) \in Linked(Victims)
    BY <2>2, TailLinked
  <2> QED BY <2>1, <2>2, <2>3
<1>3. \E h \in Headers : m_UseCount[h] > 0 \/ IsDirty(h)
  <2>1. CASE Victims = <<>>
    <3>1. Free = {} /\ Linked(Victims) = {}
      BY <2>1, EmptyLinked DEF Free
    <3>2. PICK h \in Mru : TRUE
      BY <1>1, <3>1 DEF ListInv
    <3> QED BY <1>1, <1>2, <3>1, <3>2 DEF TypeInv
  <2>2. CASE Victims # <<>>
    BY <1>1, <1>2, <2>2 DEF FlushInv
  <2> QED BY <2>1, <2>2
<1>4. /\ s_FlushingDoneConditionVar' = s_FlushingDoneConditionVar \cup {t}
      /\ want' = [want EXCEPT ![t] = <<d, b>>] /\ retry' = [retry EXCEPT ![t] = round]
      /\ pc' = [pc EXCEPT ![t] = "wait"]
      /\ UNCHANGED <<m_BlockMap, s_FreeList, s_MRUList, s_DirtyBlockCount, m_Device,
                   m_bufferNumber, m_UseCount, desc, unsaved, flusher, stranded>>
  BY DEF WaitForBlock, Goto
<1>5. Marked
  <2>1. CASE Victims # <<>> /\ ~IsFlushing(Head(Victims))
    <3>1. PICK v : v = Head(Victims)
      OBVIOUS
    <3>2. v \in Headers /\ m_Flags' = [m_Flags EXCEPT ![v] = @ \cup {"FLUSH_REQUESTED"}]
      BY <1>2, <2>1, <3>1 DEF WaitForBlock
    <3> QED BY <1>1, <1>4, <3>2 DEF Marked, TypeInv, Flags, IsDirty, IsFlushing
  <2>2. CASE ~(Victims # <<>> /\ ~IsFlushing(Head(Victims)))
    <3>1. m_Flags' = m_Flags
      BY <2>2 DEF WaitForBlock
    <3> QED BY <1>1, <1>4, <3>1 DEF Marked, TypeInv, IsDirty, IsFlushing
  <2> QED BY <2>1, <2>2
<1>6. ListInv' /\ MapInv' /\ CountInv' /\ FlushInv' /\ SaveInv' /\ Dirty' = Dirty
  <2>1. \A u \in Threads : pc[u] = "written" => pc'[u] = "written"
    BY <1>1, <1>4 DEF TypeInv
  <2> QED BY <1>5, <2>1, MarkedStep
<1>7. TypeInv'
  <2>1. s_FlushingDoneConditionVar' \subseteq {u \in Threads : pc'[u] \in {"wait", "sync"}}
    BY <1>1, <1>4 DEF TypeInv
  <2>2. m_Flags' \in [Headers -> SUBSET Flags]
    BY <1>5 DEF Marked
  <2> QED BY <1>1, <1>4, <2>1, <2>2 DEF TypeInv, UserLabels
<1>8. UserInv'
  <2>1. Mru' = Mru
    BY <1>4 DEF Mru
  <2> QED BY <1>1, <1>4, <2>1 DEF UserInv, TypeInv
<1>9. SleeperHasWaker'
  BY <1>3, <1>4, <1>5 DEF SleeperHasWaker, Marked
<1> QED BY <1>6, <1>7, <1>8, <1>9 DEF IInv

\* The last round is over.
LEMMA ThrowStep ==
    ASSUME IInv, NEW t, NEW d, NEW b, Asks(t, d, b), GotBlock(t, d, b, NULL),
           UNCHANGED <<cacheVars, headerVars, unsaved, flusher, stranded>>
    PROVE  IInv'
<1>1. /\ TypeInv /\ UserInv /\ SleeperHasWaker
      /\ t \in Threads /\ t \notin s_FlushingDoneConditionVar /\ pc[t] \in {"idle", "wait"}
  BY DEF IInv, Asks
<1>2. /\ desc' = desc /\ pc' = [pc EXCEPT ![t] = "idle"]
      /\ want' = [want EXCEPT ![t] = NULL] /\ retry' = [retry EXCEPT ![t] = 0]
  BY ThrowThreads
<1>3. UNCHANGED <<m_BlockMap, s_FreeList, s_MRUList, s_DirtyBlockCount, s_FlushingDoneConditionVar,
                  m_Device, m_bufferNumber, m_UseCount, m_Flags, unsaved, flusher, stranded>>
  BY DEF cacheVars, headerVars
<1>4. Marked
  BY <1>1, <1>2, <1>3 DEF Marked, TypeInv, IsDirty, IsFlushing
<1>5. ListInv' /\ MapInv' /\ CountInv' /\ FlushInv' /\ SaveInv'
  <2>1. \A u \in Threads : pc[u] = "written" => pc'[u] = "written"
    BY <1>1, <1>2 DEF TypeInv
  <2> QED BY <1>4, <2>1, MarkedStep
<1>6. TypeInv'
  <2>1. s_FlushingDoneConditionVar' \subseteq {u \in Threads : pc'[u] \in {"wait", "sync"}}
    BY <1>1, <1>2, <1>3 DEF TypeInv
  <2>2. retry' \in [Threads -> 0..MaxRetries - 1]
    BY <1>1, <1>2 DEF TypeInv
  <2> QED BY <1>1, <1>2, <1>3, <2>1, <2>2 DEF TypeInv, UserLabels
<1>7. UserInv'
  <2>1. Mru' = Mru
    BY <1>3 DEF Mru
  <2> QED BY <1>1, <1>2, <1>3, <2>1 DEF UserInv, TypeInv
<1>8. SleeperHasWaker'
  BY <1>1, <1>3 DEF SleeperHasWaker, IsDirty
<1> QED BY <1>5, <1>6, <1>7, <1>8 DEF IInv

\* Reading into a header that has been taken.
LEMMA LoadStep ==
    ASSUME OneDevice, IInv, NEW t, NEW d, NEW b, Asks(t, d, b),
           NEW h, NEW map, NEW free, NEW mru, Takes(d, b, h, map, free, mru),
           Load(t, d, b, h, map, free, mru), UNCHANGED <<flusher, stranded>>
    PROVE  IInv'
<1>1. unsaved' = unsaved \ {h}
  BY DEF Load
<1>2. CASE /\ m_BlockMap' = [m_BlockMap EXCEPT ![d] = [map EXCEPT ![b] = h]]
           /\ s_FreeList' = free /\ s_MRUList' = Append(mru, h)
           /\ m_UseCount' = [m_UseCount EXCEPT ![h] = 1] /\ m_Flags' = [m_Flags EXCEPT ![h] = {}]
           /\ m_Device' = [m_Device EXCEPT ![h] = d]
           /\ m_bufferNumber' = [m_bufferNumber EXCEPT ![h] = b] /\ GotBlock(t, d, b, h)
           /\ UNCHANGED <<s_DirtyBlockCount, s_FlushingDoneConditionVar>>
  BY <1>1, <1>2, LoadedStep
<1>3. CASE /\ m_BlockMap' = [m_BlockMap EXCEPT ![d] = map]
           /\ s_FreeList' = Append(free, h) /\ s_MRUList' = mru /\ GotBlock(t, d, b, NULL)
           /\ UNCHANGED <<s_DirtyBlockCount, s_FlushingDoneConditionVar, headerVars>>
  BY <1>1, <1>3, NotLoadedStep
<1> QED BY <1>2, <1>3 DEF Load

\* A free header can be taken.
LEMMA TakesFree ==
    ASSUME OneDevice, IInv, NEW d \in Devices, NEW b \in Blocks,
           m_BlockMap[d][b] = NULL, s_FreeList # <<>>
    PROVE  Takes(d, b, Last(s_FreeList), m_BlockMap[d], Front(s_FreeList), s_MRUList)
<1> DEFINE h == Last(s_FreeList)
<1>1. TypeInv /\ ListInv /\ MapInv /\ UserInv /\ FlushInv
  BY DEF IInv
<1>2. /\ h \in Free /\ Front(s_FreeList) \in Seq(Headers) /\ OneNodeEach(Front(s_FreeList))
      /\ Linked(Front(s_FreeList)) = Free \ {h}
  BY <1>1, FrontLinked DEF TypeInv, ListInv, Free
<1> HIDE DEF h
<1>3. h \in Headers /\ h \notin Mru /\ h # NULL /\ Mru \subseteq Headers
  <2>1. Free \subseteq Headers
    BY <1>1, LinkedAt DEF TypeInv, Free
  <2>2. Mru \subseteq Headers
    BY <1>1, LinkedAt DEF TypeInv, Mru
  <2> QED BY <1>1, <1>2, <2>1, <2>2 DEF ListInv
<1>4. ~IsDirty(h) /\ Users(h) = {}
  BY <1>1, <1>3 DEF FlushInv, Users, UserInv
<1>5. m_BlockMap[d] \in [Blocks -> Headers \cup {NULL}]
  BY <1>1 DEF TypeInv
<1>6. \A g \in Mru : m_Device[g] = d /\ m_BlockMap[d][m_bufferNumber[g]] = g
  BY <1>1 DEF MapInv, OneDevice
<1>7. \A x \in Blocks : m_BlockMap[d][x] # NULL =>
         m_BlockMap[d][x] \in Mru /\ m_bufferNumber[m_BlockMap[d][x]] = x
  BY <1>1 DEF MapInv
<1>8. s_MRUList \in Seq(Headers) /\ OneNodeEach(s_MRUList) /\ Linked(s_MRUList) = Mru \ {h}
  BY <1>1, <1>3 DEF Mru, TypeInv, ListInv
<1>9. Takes(d, b, h, m_BlockMap[d], Front(s_FreeList), s_MRUList)
  BY <1>2, <1>3, <1>4, <1>5, <1>6, <1>7, <1>8 DEF Takes
<1> QED BY <1>9 DEF h

\* So can the least recently used block, when nobody uses it and it is clean.
LEMMA TakesVictim ==
    ASSUME OneDevice, IInv, NEW d \in Devices, NEW b \in Blocks, m_BlockMap[d][b] = NULL,
           s_FreeList = <<>>, Victims # <<>>, ~IsDirty(Head(Victims)),
           NEW h, h = Head(Victims)
    PROVE  Takes(d, b, h, Evict(d, h), s_FreeList, Detatch(s_MRUList, h))
<1>1. TypeInv /\ ListInv /\ MapInv /\ UserInv /\ CountInv
  BY DEF IInv
<1>2. h \in Mru /\ h \in Headers /\ m_UseCount[h] = 0
  <2>1. /\ Victims \in Seq(Headers) /\ OneNodeEach(Victims)
        /\ Linked(Victims) = Mru \cap {g \in Headers : m_UseCount[g] = 0}
    BY <1>1, ThoseAre DEF Victims, Mru, TypeInv, ListInv
  <2>2. h \in Linked(Victims)
    BY <2>1, TailLinked
  <2> QED BY <2>1, <2>2
<1>3. Users(h) = {}
  BY <1>1, <1>2, Sizes, FS_EmptySet DEF CountInv
<1>4. /\ Detatch(s_MRUList, h) \in Seq(Headers) /\ OneNodeEach(Detatch(s_MRUList, h))
      /\ Linked(Detatch(s_MRUList, h)) = Mru \ {h}
  BY <1>1, DetatchLinked DEF TypeInv, ListInv, Mru
<1>5. s_FreeList \in Seq(Headers) /\ OneNodeEach(s_FreeList) /\ Linked(s_FreeList) = Free \ {h}
  BY <1>1, <1>2 DEF TypeInv, ListInv, Free
<1>6. \A g \in Mru : /\ m_Device[g] = d /\ m_bufferNumber[g] \in Blocks /\ g # NULL
                     /\ m_BlockMap[d][m_bufferNumber[g]] = g
  BY <1>1, LinkedAt DEF MapInv, OneDevice, TypeInv, Mru
<1>7. \A x \in Blocks : m_BlockMap[d][x] # NULL =>
         m_BlockMap[d][x] \in Mru /\ m_bufferNumber[m_BlockMap[d][x]] = x
  BY <1>1 DEF MapInv
<1>8. m_BlockMap[d] \in [Blocks -> Headers \cup {NULL}] /\ m_bufferNumber[h] \in Blocks
  BY <1>1, <1>2, <1>6 DEF TypeInv
<1> DEFINE map == Evict(d, h)
<1>9. /\ map \in [Blocks -> Headers \cup {NULL}] /\ map[m_bufferNumber[h]] = NULL
      /\ \A x \in Blocks \ {m_bufferNumber[h]} : map[x] = m_BlockMap[d][x]
  BY <1>8 DEF Evict
<1> HIDE DEF map
<1>10. map[b] = NULL
  BY <1>9
<1>11. \A g \in Mru \ {h} : map[m_bufferNumber[g]] = g
  <2> TAKE g \in Mru \ {h}
  <2>1. m_bufferNumber[g] \in Blocks \ {m_bufferNumber[h]}
    BY <1>2, <1>6
  <2> QED BY <1>6, <1>9, <2>1
<1>12. \A x \in Blocks : map[x] # NULL => map[x] \in Mru \ {h} /\ m_bufferNumber[map[x]] = x
  BY <1>7, <1>9
<1> QED BY <1>2, <1>3, <1>4, <1>5, <1>9, <1>10, <1>11, <1>12 DEF Takes, map

\* One round of GetBlock_trw.
LEMMA TryGetBlockStep ==
    ASSUME OneDevice, IInv, NEW t, NEW d, NEW b, Asks(t, d, b), NEW round \in 0..MaxRetries - 1,
           TryGetBlock(t, d, b, round)
    PROVE  IInv'
<1>1. d \in Devices /\ b \in Blocks
  BY DEF Asks
<1>2. UNCHANGED <<flusher, stranded>>
  BY DEF TryGetBlock
<1>3. CASE m_BlockMap[d][b] # NULL
  BY <1>2, <1>3, HitStep DEF TryGetBlock
<1>4. CASE m_BlockMap[d][b] = NULL /\ s_FreeList # <<>>
  <2>1. PICK h, map, free, mru : /\ h = Last(s_FreeList) /\ map = m_BlockMap[d]
                                 /\ free = Front(s_FreeList) /\ mru = s_MRUList
    OBVIOUS
  <2>2. Load(t, d, b, h, map, free, mru)
    BY <1>4, <2>1 DEF TryGetBlock
  <2>3. Takes(d, b, h, map, free, mru)
    BY <1>1, <1>4, <2>1, TakesFree
  <2> QED BY <1>2, <2>2, <2>3, LoadStep
<1>5. CASE /\ m_BlockMap[d][b] = NULL /\ s_FreeList = <<>>
           /\ Victims = <<>> \/ IsFlushing(Head(Victims)) \/ IsDirty(Head(Victims))
  <2>1. WaitForBlock(t, d, b, round)
    BY <1>5 DEF TryGetBlock
  <2> QED BY <1>2, <1>5, <2>1, WaitStep
<1>6. CASE /\ m_BlockMap[d][b] = NULL /\ s_FreeList = <<>>
           /\ ~(Victims = <<>> \/ IsFlushing(Head(Victims)) \/ IsDirty(Head(Victims)))
  <2>1. PICK h, map, free, mru : /\ h = Head(Victims) /\ map = Evict(d, h)
                                 /\ free = s_FreeList /\ mru = Detatch(s_MRUList, h)
    OBVIOUS
  <2>2. Load(t, d, b, h, map, free, mru)
    BY <1>6, <2>1 DEF TryGetBlock
  <2>3. Takes(d, b, h, map, free, mru)
    BY <1>1, <1>6, <2>1, TakesVictim
  <2> QED BY <1>2, <2>2, <2>3, LoadStep
<1> QED BY <1>3, <1>4, <1>5, <1>6

\* GetBlock_trw is called.
LEMMA GetBlockStep ==
    ASSUME OneDevice, IInv, NEW t \in Threads, NEW d \in Devices, NEW b \in Blocks,
           GetBlock(t, d, b)
    PROVE  IInv'
<1>1. pc[t] = "idle" /\ TryGetBlock(t, d, b, 0) /\ 0 \in 0..MaxRetries - 1
  BY DEF GetBlock
<1>2. Asks(t, d, b)
  BY <1>1 DEF IInv, TypeInv, UserInv, Asks
<1> QED BY <1>1, <1>2, TryGetBlockStep

\* A waiting thread has been notified.
LEMMA RetryStep ==
    ASSUME OneDevice, IInv, NEW t \in Threads, Retry(t)
    PROVE  IInv'
<1>1. PICK d, b, n : d = want[t][1] /\ b = want[t][2] /\ n = retry[t] + 1
  OBVIOUS
<1>2. pc[t] = "wait" /\ t \notin s_FlushingDoneConditionVar /\ retry[t] \in 0..MaxRetries - 1
  BY DEF Retry, IInv, TypeInv
<1>3. d \in Devices /\ b \in Blocks /\ desc[t] = NULL
  BY <1>1, <1>2 DEF IInv, UserInv
<1>4. Asks(t, d, b)
  BY <1>2, <1>3 DEF Asks
<1>5. CASE n < MaxRetries
  <2>1. TryGetBlock(t, d, b, n) /\ n \in 0..MaxRetries - 1
    BY <1>1, <1>2, <1>5 DEF Retry
  <2> QED BY <1>4, <2>1, TryGetBlockStep
<1>6. CASE ~(n < MaxRetries)
  <2>1. /\ GotBlock(t, d, b, NULL)
        /\ UNCHANGED <<cacheVars, headerVars, unsaved, flusher, stranded>>
    BY <1>1, <1>6 DEF Retry
  <2> QED BY <1>4, <2>1, ThrowStep
<1> QED BY <1>5, <1>6

-----------------------------------------------------------------------------
(* The users of a block *)

\* The memcpy of CachedWrite_trw.
LEMMA WriteBufferStep ==
    ASSUME IInv, NEW t \in Threads, WriteBuffer(t)
    PROVE  IInv'
<1>1. TypeInv /\ ListInv /\ MapInv /\ UserInv /\ CountInv /\ FlushInv /\ SaveInv /\ SleeperHasWaker
  BY DEF IInv
<1>2. /\ pc[t] = "have" /\ unsaved' = unsaved \cup {desc[t]} /\ pc' = [pc EXCEPT ![t] = "written"]
      /\ UNCHANGED <<m_BlockMap, s_FreeList, s_MRUList, s_DirtyBlockCount, s_FlushingDoneConditionVar,
                     m_Device, m_bufferNumber, m_UseCount, m_Flags, want, desc, retry, flusher, stranded>>
  BY DEF WriteBuffer, Goto, cacheVars, headerVars
<1>3. desc[t] \in Headers /\ desc[t] # NULL
  BY <1>1, <1>2 DEF UserInv, TypeInv
<1>4. /\ Mru' = Mru /\ Free' = Free /\ Dirty' = Dirty /\ \A h : Users(h)' = Users(h)
      /\ \A h : IsDirty(h)' = IsDirty(h) /\ IsFlushing(h)' = IsFlushing(h)
  BY <1>2 DEF Mru, Free, Dirty, Users, IsDirty, IsFlushing
<1>5. TypeInv'
  <2>1. s_FlushingDoneConditionVar' \subseteq {u \in Threads : pc'[u] \in {"wait", "sync"}}
    BY <1>1, <1>2 DEF TypeInv
  <2> QED BY <1>1, <1>2, <1>3, <2>1 DEF TypeInv, UserLabels
<1>6. ListInv' /\ MapInv'
  BY <1>1, <1>2, <1>4 DEF ListInv, MapInv
<1>7. UserInv'
  BY <1>1, <1>2, <1>3, <1>4 DEF UserInv, TypeInv
<1>8. CountInv' /\ FlushInv'
  BY <1>1, <1>2, <1>4 DEF CountInv, FlushInv
<1>9. SaveInv'
  <2>1. \A h : Writing(h) => Writing(h)'
    BY <1>1, <1>2 DEF Writing, TypeInv
  <2>2. \A h : h = desc[t] => Writing(h)'
    BY <1>1, <1>2 DEF Writing, TypeInv
  <2>3. \A h \in unsaved' : h \in unsaved \/ h = desc[t]
    BY <1>2
  <2> QED BY <1>1, <1>2, <1>4, <2>1, <2>2, <2>3 DEF SaveInv
<1>10. SleeperHasWaker'
  BY <1>1, <1>2, <1>4 DEF SleeperHasWaker
<1> QED BY <1>5, <1>6, <1>7, <1>8, <1>9, <1>10 DEF IInv

\* SetDirty
LEMMA MarkDirtyStep ==
    ASSUME IInv, NEW t \in Threads, MarkDirty(t)
    PROVE  IInv'
<1>1. TypeInv /\ ListInv /\ MapInv /\ UserInv /\ CountInv /\ FlushInv /\ SaveInv
  BY DEF IInv
<1>2. PICK h : h = desc[t]
  OBVIOUS
<1>3. /\ pc[t] = "written" /\ pc' = [pc EXCEPT ![t] = "have"]
      /\ m_Flags' = [m_Flags EXCEPT ![h] = IF IsDirty(h) THEN @ \cup {"DIRTY_PENDING"}
                                           ELSE (@ \cup {"DIRTY"}) \ {"OLD"}]
      /\ s_DirtyBlockCount' = IF IsDirty(h) THEN s_DirtyBlockCount ELSE s_DirtyBlockCount + 1
      /\ UNCHANGED <<m_BlockMap, s_FreeList, s_MRUList, s_FlushingDoneConditionVar, m_Device,
                     m_bufferNumber, m_UseCount, want, desc, retry, unsaved, flusher, stranded>>
  BY <1>2 DEF MarkDirty, SetDirty, Goto
<1>4. h \in Headers /\ h # NULL /\ h \in Mru
  BY <1>1, <1>2, <1>3 DEF UserInv, TypeInv
<1>5. /\ Mru' = Mru /\ Free' = Free /\ \A g : Users(g)' = Users(g)
  BY <1>3 DEF Mru, Free, Users
<1>6. /\ m_Flags' \in [Headers -> SUBSET Flags]
      /\ \A g \in Headers \ {h} : m_Flags'[g] = m_Flags[g]
      /\ m_Flags'[h] = IF IsDirty(h) THEN m_Flags[h] \cup {"DIRTY_PENDING"}
                                     ELSE (m_Flags[h] \cup {"DIRTY"}) \ {"OLD"}
  BY <1>1, <1>3, <1>4 DEF TypeInv, Flags
<1>7. /\ IsDirty(h)' /\ (IsFlushing(h)' <=> IsFlushing(h))
      /\ \A g \in Headers \ {h} : (IsDirty(g)' <=> IsDirty(g)) /\ (IsFlushing(g)' <=> IsFlushing(g))
      /\ IsDirty(h) => "DIRTY_PENDING" \in m_Flags'[h]
  BY <1>6 DEF IsDirty, IsFlushing
<1>8. TypeInv'
  <2>1. s_FlushingDoneConditionVar' \subseteq {u \in Threads : pc'[u] \in {"wait", "sync"}}
    BY <1>1, <1>3 DEF TypeInv
  <2> QED BY <1>1, <1>3, <1>6, <2>1 DEF TypeInv, UserLabels
<1>9. ListInv' /\ MapInv'
  BY <1>1, <1>3, <1>5 DEF ListInv, MapInv
<1>10. UserInv'
  BY <1>1, <1>3, <1>5 DEF UserInv, TypeInv
<1>11. CountInv'
  <2>1. CASE IsDirty(h)
    <3>1. Dirty' = Dirty
      BY <1>4, <1>7, <2>1 DEF Dirty
    <3> QED BY <1>1, <1>3, <1>5, <2>1, <3>1 DEF CountInv
  <2>2. CASE ~IsDirty(h)
    <3>1. Dirty' = Dirty \cup {h} /\ h \notin Dirty
      BY <1>4, <1>7, <2>2 DEF Dirty
    <3>2. Cardinality(Dirty') = Cardinality(Dirty) + 1
      BY <3>1, Sizes, OneMore
    <3> QED BY <1>1, <1>3, <1>5, <2>2, <3>2 DEF CountInv
  <2> QED BY <2>1, <2>2
<1>12. FlushInv'
  <2>1. flusher.segment \cup flusher.rest \subseteq Headers
    BY <1>1 DEF TypeInv, FlusherStates
  <2> QED BY <1>1, <1>3, <1>4, <1>5, <1>7, <2>1 DEF FlushInv
<1>13. SaveInv'
  <2>1. \A g \in Headers \ {h} : Writing(g) => Writing(g)'
    BY <1>1, <1>2, <1>3 DEF Writing, TypeInv
  <2>2. \A g \in unsaved' : IsDirty(g)' \/ Writing(g)'
    BY <1>1, <1>3, <1>7, <2>1 DEF SaveInv, TypeInv
  <2>3. ASSUME flusher'.at \in {"written", "failed"}, NEW g \in flusher'.segment \cap unsaved'
        PROVE  "DIRTY_PENDING" \in m_Flags'[g] \/ Writing(g)'
    <3>1. g \in Headers /\ g \in flusher.segment /\ g \in unsaved /\ IsDirty(g)
      BY <1>1, <1>3 DEF TypeInv, FlushInv
    <3> QED BY <1>1, <1>3, <1>6, <1>7, <2>1, <2>3, <3>1 DEF SaveInv
  <2> QED BY <2>2, <2>3 DEF SaveInv
<1>14. SleeperHasWaker'
  BY <1>4, <1>7 DEF SleeperHasWaker
<1> QED BY <1>8, <1>9, <1>10, <1>11, <1>12, <1>13, <1>14 DEF IInv

\* The destructor of the descriptor.
LEMMA ReleaseStep ==
    ASSUME IInv, NEW t \in Threads, Release(t)
    PROVE  IInv'
<1>1. TypeInv /\ ListInv /\ MapInv /\ UserInv /\ CountInv /\ FlushInv /\ SaveInv
  BY DEF IInv
<1>2. PICK h : h = desc[t]
  OBVIOUS
<1>3. /\ pc[t] = "have" /\ pc' = [pc EXCEPT ![t] = "idle"]
      /\ want' = [want EXCEPT ![t] = NULL] /\ desc' = [desc EXCEPT ![t] = NULL]
      /\ m_UseCount' = [m_UseCount EXCEPT ![h] = @ - 1]
      /\ UNCHANGED <<m_BlockMap, s_FreeList, s_MRUList, s_DirtyBlockCount, m_Device,
                     m_bufferNumber, m_Flags, retry, unsaved, flusher>>
      /\ IF m_UseCount[h] = 1 THEN s_FlushingDoneConditionVar' = {}
         ELSE UNCHANGED s_FlushingDoneConditionVar
  BY <1>2 DEF Release, RemoveRef, WakeupDone, Goto
<1>4. h \in Headers /\ h # NULL /\ h \in Mru
  BY <1>1, <1>2, <1>3 DEF UserInv, TypeInv
<1>5. /\ Mru' = Mru /\ Free' = Free /\ Dirty' = Dirty
      /\ \A g : IsDirty(g)' = IsDirty(g) /\ IsFlushing(g)' = IsFlushing(g)
  BY <1>3 DEF Mru, Free, Dirty, IsDirty, IsFlushing
<1>6. /\ Users(h)' = Users(h) \ {t} /\ t \in Users(h)
      /\ \A g \in Headers \ {h} : Users(g)' = Users(g)
  BY <1>1, <1>2, <1>3, <1>4 DEF Users, TypeInv
<1>7. Cardinality(Users(h)') = m_UseCount[h] - 1 /\ m_UseCount[h] \in Nat \ {0}
  <2>1. Cardinality(Users(h)') = Cardinality(Users(h)) - 1 /\ Users(h) # {}
    BY <1>6, Sizes, OneLess
  <2>2. Cardinality(Users(h)) # 0
    BY <2>1, Sizes, FS_EmptySet
  <2> QED BY <1>1, <1>4, <2>1, <2>2, Sizes DEF CountInv
<1>8. m_UseCount' \in [Headers -> Nat] /\ m_UseCount'[h] = m_UseCount[h] - 1
      /\ \A g \in Headers \ {h} : m_UseCount'[g] = m_UseCount[g]
  BY <1>1, <1>3, <1>4, <1>7 DEF TypeInv
<1>9. TypeInv'
  <2>1. s_FlushingDoneConditionVar' \subseteq {u \in Threads : pc'[u] \in {"wait", "sync"}}
    BY <1>1, <1>3 DEF TypeInv
  <2> QED BY <1>1, <1>3, <1>8, <2>1 DEF TypeInv, UserLabels
<1>10. ListInv' /\ MapInv'
  BY <1>1, <1>3, <1>5 DEF ListInv, MapInv
<1>11. UserInv'
  BY <1>1, <1>3, <1>5 DEF UserInv, TypeInv
<1>12. CountInv'
  BY <1>1, <1>3, <1>5, <1>6, <1>7, <1>8 DEF CountInv
<1>13. FlushInv'
  BY <1>1, <1>3, <1>5 DEF FlushInv
<1>14. SaveInv'
  <2>1. \A g \in Headers : Writing(g) => Writing(g)'
    BY <1>1, <1>3 DEF Writing, TypeInv
  <2> QED BY <1>1, <1>3, <1>5, <2>1 DEF SaveInv, TypeInv
<1>15. SleeperHasWaker'
  <2>1. CASE m_UseCount[h] = 1
    BY <1>3, <2>1 DEF SleeperHasWaker
  <2>2. CASE m_UseCount[h] # 1
    BY <1>4, <1>7, <1>8, <2>2 DEF SleeperHasWaker
  <2> QED BY <2>1, <2>2
<1> QED BY <1>9, <1>10, <1>11, <1>12, <1>13, <1>14, <1>15 DEF IInv

\* Sync asks for the dirty blocks to be flushed.
LEMMA SyncStep ==
    ASSUME IInv, NEW t \in Threads, Sync(t)
    PROVE  IInv'
<1>1. TypeInv /\ UserInv /\ CountInv /\ SleeperHasWaker
  BY DEF IInv
<1>2. /\ pc[t] = "idle"
      /\ m_Flags' = [h \in Headers |-> IF IsDirty(h) THEN m_Flags[h] \cup {"FLUSH_REQUESTED"}
                                                     ELSE m_Flags[h]]
      /\ UNCHANGED <<m_BlockMap, s_FreeList, s_MRUList, s_DirtyBlockCount, m_Device,
                     m_bufferNumber, m_UseCount, want, desc, retry, unsaved, flusher, stranded>>
      /\ \/ /\ s_DirtyBlockCount # 0 /\ pc' = [pc EXCEPT ![t] = "sync"]
            /\ s_FlushingDoneConditionVar' = s_FlushingDoneConditionVar \cup {t}
         \/ UNCHANGED <<s_FlushingDoneConditionVar, pc>>
  BY DEF Sync, Goto
<1>3. Marked
  BY <1>1, <1>2 DEF Marked, TypeInv, Flags, IsDirty, IsFlushing
<1>4. ListInv' /\ MapInv' /\ CountInv' /\ FlushInv' /\ SaveInv' /\ Dirty' = Dirty
  <2>1. \A u \in Threads : pc[u] = "written" => pc'[u] = "written"
    BY <1>1, <1>2 DEF TypeInv
  <2> QED BY <1>3, <2>1, MarkedStep
<1>5. TypeInv'
  <2>1. s_FlushingDoneConditionVar' \subseteq {u \in Threads : pc'[u] \in {"wait", "sync"}}
    BY <1>1, <1>2 DEF TypeInv
  <2>2. m_Flags' \in [Headers -> SUBSET Flags]
    BY <1>3 DEF Marked
  <2>3. pc' \in [Threads -> UserLabels]
    BY <1>1, <1>2 DEF TypeInv, UserLabels
  <2> QED BY <1>1, <1>2, <2>1, <2>2, <2>3 DEF TypeInv
<1>6. UserInv'
  <2>1. Mru' = Mru
    BY <1>2 DEF Mru
  <2> QED BY <1>1, <1>2, <2>1 DEF UserInv, TypeInv
<1>7. SleeperHasWaker'
  <2>1. \A h \in Headers : IsDirty(h) => IsDirty(h)'
    BY <1>3 DEF Marked
  <2>2. CASE s_DirtyBlockCount # 0
    <3>1. Dirty # {}
      BY <1>1, <2>2, FS_EmptySet DEF CountInv
    <3> QED BY <2>1, <3>1 DEF SleeperHasWaker, Dirty
  <2>3. CASE UNCHANGED s_FlushingDoneConditionVar
    BY <1>1, <1>2, <2>1, <2>3 DEF SleeperHasWaker
  <2> QED BY <1>2, <2>2, <2>3
<1> QED BY <1>4, <1>5, <1>6, <1>7 DEF IInv

\* Sync returns.
LEMMA SyncedStep ==
    ASSUME IInv, NEW t \in Threads, Synced(t)
    PROVE  IInv'
<1>1. TypeInv /\ UserInv /\ SleeperHasWaker
  BY DEF IInv
<1>2. /\ pc[t] = "sync" /\ t \notin s_FlushingDoneConditionVar /\ pc' = [pc EXCEPT ![t] = "idle"]
      /\ UNCHANGED <<m_BlockMap, s_FreeList, s_MRUList, s_DirtyBlockCount, s_FlushingDoneConditionVar,
                     m_Device, m_bufferNumber, m_UseCount, m_Flags, want, desc, retry, unsaved,
                     flusher, stranded>>
  BY DEF Synced, Goto, cacheVars, headerVars
<1>3. Marked
  BY <1>1, <1>2 DEF Marked, TypeInv, IsDirty, IsFlushing
<1>4. ListInv' /\ MapInv' /\ CountInv' /\ FlushInv' /\ SaveInv'
  <2>1. \A u \in Threads : pc[u] = "written" => pc'[u] = "written"
    BY <1>1, <1>2 DEF TypeInv
  <2> QED BY <1>3, <2>1, MarkedStep
<1>5. TypeInv'
  <2>1. s_FlushingDoneConditionVar' \subseteq {u \in Threads : pc'[u] \in {"wait", "sync"}}
    BY <1>1, <1>2 DEF TypeInv
  <2> QED BY <1>1, <1>2, <2>1 DEF TypeInv, UserLabels
<1>6. UserInv'
  <2>1. Mru' = Mru
    BY <1>2 DEF Mru
  <2> QED BY <1>1, <1>2, <2>1 DEF UserInv, TypeInv
<1>7. SleeperHasWaker'
  BY <1>1, <1>2 DEF SleeperHasWaker, IsDirty
<1> QED BY <1>4, <1>5, <1>6, <1>7 DEF IInv

-----------------------------------------------------------------------------
(* The flusher *)

\* A dirty block gets old.
LEMMA GetOldStep ==
    ASSUME IInv, NEW h \in Headers, GetOld(h)
    PROVE  IInv'
<1>1. TypeInv /\ UserInv /\ SleeperHasWaker
  BY DEF IInv
<1>2. /\ m_Flags' = [m_Flags EXCEPT ![h] = @ \cup {"OLD"}]
      /\ UNCHANGED <<m_BlockMap, s_FreeList, s_MRUList, s_DirtyBlockCount, s_FlushingDoneConditionVar,
                     m_Device, m_bufferNumber, m_UseCount, pc, want, desc, retry, unsaved,
                     flusher, stranded>>
  BY DEF GetOld, cacheVars, threadVars
<1>3. Marked
  BY <1>1, <1>2 DEF Marked, TypeInv, IsDirty, IsFlushing, Flags
<1>4. ListInv' /\ MapInv' /\ CountInv' /\ FlushInv' /\ SaveInv'
  BY <1>2, <1>3, MarkedStep
<1>5. TypeInv'
  <2>1. m_Flags' \in [Headers -> SUBSET Flags]
    BY <1>3 DEF Marked
  <2> QED BY <1>1, <1>2, <2>1 DEF TypeInv
<1>6. UserInv'
  BY <1>1, <1>2 DEF UserInv, Mru
<1>7. SleeperHasWaker'
  BY <1>1, <1>2, <1>3 DEF SleeperHasWaker, Marked
<1> QED BY <1>4, <1>5, <1>6, <1>7 DEF IInv

\* The least of some numbers is one of them.
LEMMA MinIsOne ==
    ASSUME NEW S, S \subseteq Nat, S # {}
    PROVE  Min(S) \in S /\ \A y \in S : Min(S) =< y
<1>1. PICK x \in S : \A y \in S : ~(y < x)
  BY LeastNumber
<1>2. \A y \in S : x =< y
  BY <1>1
<1> QED BY <1>1, <1>2 DEF Min

\* A segment is a part of the list, and not an empty one.
LEMMA SegmentMembers ==
    ASSUME TypeInv, NEW list, list \subseteq Headers, NEW s \in Segments(list)
    PROVE  s \subseteq list /\ s # {}
<1>1. PICK h \in list : s = SegmentOf(list, h)
  BY DEF Segments
<1>2. PICK n : n = m_bufferNumber[h]
  OBVIOUS
<1>3. n \in Nat /\ n \in Numbers(list)
  BY <1>1, <1>2 DEF TypeInv, Numbers
<1>4. Min({n, n}) = n /\ Max({n, n}) = n
  <2>1. {n, n} = {n}
    OBVIOUS
  <2>2. Min({n}) = n
    BY <1>3 DEF Min
  <2>3. Max({n}) = n
    BY <1>3 DEF Max
  <2> QED BY <2>1, <2>2, <2>3
<1>5. n..n \subseteq Numbers(list)
  BY <1>3
<1>6. h \in SegmentOf(list, h)
  BY <1>1, <1>2, <1>4, <1>5 DEF SegmentOf
<1>7. SegmentOf(list, h) \subseteq list
  BY DEF SegmentOf
<1> QED BY <1>1, <1>6, <1>7

\* Of some segments one starts first.
LEMMA FirstSegment ==
    ASSUME TypeInv, NEW due, due # {}, \A s \in due : s \subseteq Headers /\ s # {}
    PROVE  \E s \in due : \A u \in due : Min(Numbers(s)) =< Min(Numbers(u))
<1>1. \A s \in due : Min(Numbers(s)) \in Nat
  <2> TAKE s \in due
  <2>1. Numbers(s) \subseteq Nat /\ Numbers(s) # {}
    BY DEF Numbers, TypeInv
  <2> QED BY <2>1, MinIsOne
<1> DEFINE starts == {Min(Numbers(s)) : s \in due}
<1>2. starts \subseteq Nat /\ starts # {}
  BY <1>1
<1>3. PICK x \in starts : \A y \in starts : ~(y < x)
  BY <1>2, LeastNumber
<1>4. PICK s \in due : x = Min(Numbers(s))
  BY <1>3
<1>5. \A u \in due : Min(Numbers(u)) \in starts
  OBVIOUS
<1> HIDE DEF starts
<1>6. \A u \in due : Min(Numbers(s)) =< Min(Numbers(u))
  BY <1>1, <1>3, <1>4, <1>5
<1> QED BY <1>6

\* The flusher goes on to a part of what is left of its list, or ends the round.
LEMMA NextSegmentIs ==
    ASSUME TypeInv, NEW flags, NEW list, NEW rest, rest \subseteq Headers,
           NEW flushed, NEW waiters, NEW left,
           NextSegment(flags, list, rest, flushed, waiters, left)
    PROVE  \/ /\ m_Flags' = Without(flags, list, {"IS_FLUSHING"})
              /\ flusher' = Idle
              /\ s_FlushingDoneConditionVar' = IF flushed THEN {} ELSE waiters
              /\ stranded' = IF flushed THEN {} ELSE left
           \/ \E first \in SUBSET rest, required \in BOOLEAN, behind \in SUBSET rest :
                 /\ first # {} /\ first \cap behind = {}
                 /\ m_Flags' = Without(flags, first, {"DIRTY_PENDING"})
                 /\ flusher' = [at |-> "write", list |-> list, segment |-> first, rest |-> behind,
                                required |-> required, flushed |-> flushed]
                 /\ s_FlushingDoneConditionVar' = waiters
                 /\ stranded' = left
<1> DEFINE due == DueSegments(flags, list, rest)
           first == CHOOSE s \in due : \A u \in due : Min(Numbers(s)) =< Min(Numbers(u))
<1>1. CASE due = {}
  BY <1>1 DEF NextSegment
<1>2. CASE due # {}
  <2>1. \A s \in due : s \subseteq rest /\ s # {}
    BY SegmentMembers DEF DueSegments
  <2>2. \E s \in due : \A u \in due : Min(Numbers(s)) =< Min(Numbers(u))
    <3> HIDE DEF due
    <3> QED BY <1>2, <2>1, FirstSegment
  <2>3. first \in due
    <3> HIDE DEF due
    <3> QED BY <2>2
  <2>4. first \subseteq rest /\ first # {}
    <3> HIDE DEF due, first
    <3> QED BY <2>1, <2>3
  <2>5. /\ m_Flags' = Without(flags, first, {"DIRTY_PENDING"})
        /\ flusher' = [at |-> "write", list |-> list, segment |-> first,
                       rest |-> Behind(rest, first),
                       required |-> Required(flags, list, rest, first), flushed |-> flushed]
        /\ s_FlushingDoneConditionVar' = waiters
        /\ stranded' = left
    BY <1>2 DEF NextSegment
  <2> HIDE DEF first
  <2>6. Behind(rest, first) \subseteq rest /\ first \cap Behind(rest, first) = {}
    <3>1. \A h \in first : m_bufferNumber[h] \in Nat
      BY <2>4 DEF TypeInv
    <3> QED BY <3>1 DEF Behind
  <2>7. Required(flags, list, rest, first) \in BOOLEAN
    BY DEF Required
  <2> QED BY <2>4, <2>5, <2>6, <2>7
<1> QED BY <1>1, <1>2

\* The flags without some of them, on some blocks.
LEMMA WithoutFlags ==
    ASSUME NEW flags \in [Headers -> SUBSET Flags], NEW headers, NEW gone
    PROVE  /\ Without(flags, headers, gone) \in [Headers -> SUBSET Flags]
           /\ \A h \in Headers : \A f :
                 f \in Without(flags, headers, gone)[h] <=> f \in flags[h] /\ ~(h \in headers /\ f \in gone)
  BY DEF Without

(***************************************************************************)
(* One step of the flusher that leaves it with these flags of the blocks,  *)
(* before it turns to what is left of its list.                            *)
(***************************************************************************)
LEMMA RoundStep ==
    ASSUME IInv, NEW flags \in [Headers -> SUBSET Flags],
           NEW list, list \subseteq Headers, NEW rest, rest \subseteq list,
           NEW flushed \in BOOLEAN, NEW waiters, waiters \subseteq s_FlushingDoneConditionVar, NEW left,
           \A h \in Headers : "DIRTY" \in flags[h] => h \in Mru,
           \A h \in Headers : "IS_FLUSHING" \in flags[h] => "DIRTY" \in flags[h] /\ h \in list,
           \A h \in rest : "DIRTY" \in flags[h] /\ "IS_FLUSHING" \in flags[h],
           s_DirtyBlockCount' = Cardinality({h \in Headers : "DIRTY" \in flags[h]}),
           \A h \in unsaved : "DIRTY" \in flags[h] \/ Writing(h),
           \/ \E h \in Headers : "DIRTY" \in flags[h]
           \/ flushed
           \/ waiters \subseteq left,
           NextSegment(flags, list, rest, flushed, waiters, left),
           UNCHANGED <<m_BlockMap, s_FreeList, s_MRUList, m_Device, m_bufferNumber, m_UseCount,
                       threadVars, unsaved>>
    PROVE  IInv'
<1>1. TypeInv /\ ListInv /\ MapInv /\ UserInv /\ CountInv
  BY DEF IInv
<1>2. UNCHANGED <<m_BlockMap, s_FreeList, s_MRUList, m_Device, m_bufferNumber, m_UseCount,
                  pc, want, desc, retry, unsaved>>
  BY DEF threadVars
<1>3. /\ Mru' = Mru /\ Free' = Free /\ \A h : Users(h)' = Users(h) /\ Writing(h)' = Writing(h)
  BY <1>2 DEF Mru, Free, Users, Writing
<1>4. ListInv' /\ MapInv' /\ UserInv'
  BY <1>1, <1>2, <1>3 DEF ListInv, MapInv, UserInv
<1>5. /\ m_Flags' \in [Headers -> SUBSET Flags]
      /\ \A h \in Headers : IsDirty(h)' <=> "DIRTY" \in flags[h]
      /\ \A h \in Headers : IsFlushing(h)' => "IS_FLUSHING" \in flags[h]
      /\ flusher' \in FlusherStates
      /\ s_FlushingDoneConditionVar' \subseteq s_FlushingDoneConditionVar
      /\ flusher'.at = "idle" => flusher' = Idle
      /\ flusher'.at \notin {"written", "failed"}
      /\ flusher'.segment \cap flusher'.rest = {}
      /\ \A h \in Headers : IsFlushing(h)' => h \in flusher'.list
      /\ \A h \in flusher'.segment \cup flusher'.rest : h \in rest /\ IsFlushing(h)'
      /\ SleeperHasWaker'
  <2>1. CASE /\ m_Flags' = Without(flags, list, {"IS_FLUSHING"})
             /\ flusher' = Idle
             /\ s_FlushingDoneConditionVar' = IF flushed THEN {} ELSE waiters
             /\ stranded' = IF flushed THEN {} ELSE left
    <3>1. /\ m_Flags' \in [Headers -> SUBSET Flags]
          /\ \A h \in Headers : IsDirty(h)' <=> "DIRTY" \in flags[h]
          /\ \A h \in Headers : IsFlushing(h)' => "IS_FLUSHING" \in flags[h] /\ h \notin list
      BY <2>1, WithoutFlags DEF IsDirty, IsFlushing
    <3>2. /\ flusher' \in FlusherStates /\ flusher'.at = "idle"
          /\ flusher'.segment = {} /\ flusher'.rest = {}
      BY <2>1 DEF Idle, FlusherStates
    <3>3. SleeperHasWaker'
      BY <2>1, <3>1 DEF SleeperHasWaker
    <3> QED BY <2>1, <3>1, <3>2, <3>3
  <2>2. CASE \E first \in SUBSET rest, required \in BOOLEAN, behind \in SUBSET rest :
                /\ first # {} /\ first \cap behind = {}
                /\ m_Flags' = Without(flags, first, {"DIRTY_PENDING"})
                /\ flusher' = [at |-> "write", list |-> list, segment |-> first, rest |-> behind,
                               required |-> required, flushed |-> flushed]
                /\ s_FlushingDoneConditionVar' = waiters
                /\ stranded' = left
    <3>0. PICK first \in SUBSET rest, required \in BOOLEAN, behind \in SUBSET rest :
                /\ first # {} /\ first \cap behind = {}
                /\ m_Flags' = Without(flags, first, {"DIRTY_PENDING"})
                /\ flusher' = [at |-> "write", list |-> list, segment |-> first, rest |-> behind,
                               required |-> required, flushed |-> flushed]
                /\ s_FlushingDoneConditionVar' = waiters
                /\ stranded' = left
      BY <2>2
    <3>1. /\ m_Flags' \in [Headers -> SUBSET Flags]
          /\ \A h \in Headers : IsDirty(h)' <=> "DIRTY" \in flags[h]
          /\ \A h \in Headers : IsFlushing(h)' <=> "IS_FLUSHING" \in flags[h]
      BY <3>0, WithoutFlags DEF IsDirty, IsFlushing
    <3>2. /\ flusher' \in FlusherStates /\ flusher'.at = "write" /\ flusher'.list = list
          /\ flusher'.segment = first /\ flusher'.rest = behind
      BY <3>0 DEF FlusherStates
    <3>3. SleeperHasWaker'
      <4>1. PICK h : h \in first
        BY <3>0
      <4>2. h \in Headers /\ IsDirty(h)'
        BY <3>1, <4>1
      <4> QED BY <4>2 DEF SleeperHasWaker
    <3> QED BY <3>0, <3>1, <3>2, <3>3
  <2>3. rest \subseteq Headers
    OBVIOUS
  <2> QED BY ONLY <1>1, <2>1, <2>2, <2>3, NextSegmentIs,
          NextSegment(flags, list, rest, flushed, waiters, left)
<1>6. TypeInv'
  BY <1>1, <1>2, <1>5 DEF TypeInv
<1>7. CountInv'
  <2>1. Dirty' = {h \in Headers : "DIRTY" \in flags[h]}
    BY <1>5 DEF Dirty
  <2> QED BY <1>1, <1>2, <1>3, <2>1 DEF CountInv
<1>8. FlushInv'
  BY <1>3, <1>5 DEF FlushInv
<1>9. SaveInv'
  <2>1. unsaved \subseteq Headers
    BY <1>1 DEF TypeInv
  <2> QED BY <1>2, <1>3, <1>5, <2>1 DEF SaveInv
<1> QED BY <1>4, <1>5, <1>6, <1>7, <1>8, <1>9 DEF IInv

\* The blocks of a flush list are dirty.
LEMMA FlushListDirty ==
    ASSUME IInv
    PROVE  FlushList \subseteq Dirty
<1> DEFINE dirty == Those(s_MRUList, {h \in Headers : IsDirty(h) /\ ~IsFlushing(h)})
           same == Those(dirty, {h \in Headers : m_Device[h] = m_Device[Head(dirty)]})
<1>1. /\ dirty \in Seq(Headers) /\ OneNodeEach(dirty)
      /\ Linked(dirty) = Mru \cap {h \in Headers : IsDirty(h) /\ ~IsFlushing(h)}
  BY ThoseAre DEF IInv, TypeInv, ListInv, Mru
<1>2. same \in Seq(Headers) /\ Linked(same) \subseteq Linked(dirty)
  <2> HIDE DEF dirty
  <2> QED BY <1>1, ThoseAre
<1>3. FlushList = {same[i] : i \in 1..Min({Len(same), MAX_FLUSH_BLOCK_COUNT})}
  BY DEF FlushList
<1> HIDE DEF dirty, same
<1>4. Len(same) \in Nat /\ \A i \in 1..Len(same) : same[i] \in Linked(same)
  BY <1>2, LinkedAt
<1>5. Min({Len(same), MAX_FLUSH_BLOCK_COUNT}) =< Len(same) /\ Min({Len(same), MAX_FLUSH_BLOCK_COUNT}) \in Nat
  BY <1>4, MinIsOne
<1> QED BY <1>1, <1>2, <1>3, <1>4, <1>5 DEF Dirty

\* The flusher collects dirty blocks.
LEMMA CollectStep ==
    ASSUME IInv, Collect
    PROVE  IInv'
<1>1. TypeInv /\ CountInv /\ FlushInv /\ SaveInv
  BY DEF IInv
<1>2. PICK list, flags, waiters, left :
         /\ list = FlushList /\ waiters = s_FlushingDoneConditionVar /\ left = stranded
         /\ flags = [h \in Headers |-> IF h \in list THEN m_Flags[h] \cup {"IS_FLUSHING"} ELSE m_Flags[h]]
  OBVIOUS
<1>3. /\ flusher.at = "idle" /\ s_DirtyBlockCount > 0
      /\ NextSegment(flags, list, list, FALSE, waiters, left)
      /\ UNCHANGED <<m_BlockMap, s_FreeList, s_MRUList, s_DirtyBlockCount, m_Device,
                     m_bufferNumber, m_UseCount, threadVars, unsaved>>
  BY <1>2 DEF Collect
<1>4. list \subseteq Dirty /\ Dirty \subseteq Headers
  BY <1>2, FlushListDirty DEF Dirty
<1>5. /\ flags \in [Headers -> SUBSET Flags]
      /\ \A h \in Headers : "DIRTY" \in flags[h] <=> IsDirty(h)
      /\ \A h \in Headers : "IS_FLUSHING" \in flags[h] <=> IsFlushing(h) \/ h \in list
  BY <1>1, <1>2 DEF TypeInv, Flags, IsDirty, IsFlushing
<1>6. \A h \in Headers : ~IsFlushing(h)
  BY <1>1, <1>3 DEF FlushInv, Idle
<1>7. {h \in Headers : "DIRTY" \in flags[h]} = Dirty
  BY <1>5 DEF Dirty
<1>8. /\ \A h \in Headers : "DIRTY" \in flags[h] => h \in Mru
      /\ \A h \in Headers : "IS_FLUSHING" \in flags[h] => "DIRTY" \in flags[h] /\ h \in list
      /\ \A h \in list : "DIRTY" \in flags[h] /\ "IS_FLUSHING" \in flags[h]
  BY <1>1, <1>4, <1>5, <1>6 DEF FlushInv, Dirty
<1>9. \A h \in unsaved : "DIRTY" \in flags[h] \/ Writing(h)
  BY <1>1, <1>5 DEF SaveInv, TypeInv
<1>10. \E h \in Headers : "DIRTY" \in flags[h]
  <2>1. Dirty # {}
    BY <1>1, <1>3, FS_EmptySet DEF CountInv
  <2> QED BY <1>5, <2>1 DEF Dirty
<1>11. s_DirtyBlockCount' = Cardinality({h \in Headers : "DIRTY" \in flags[h]})
  BY <1>1, <1>3, <1>7 DEF CountInv
<1>12. waiters \subseteq s_FlushingDoneConditionVar /\ list \subseteq Headers
  BY <1>2, <1>4
<1> QED BY <1>3, <1>5, <1>8, <1>9, <1>10, <1>11, <1>12, RoundStep

\* A segment is written to the device, or the write fails.
LEMMA WriteSegmentStep ==
    ASSUME IInv, WriteSegment
    PROVE  IInv'
<1>1. TypeInv /\ ListInv /\ MapInv /\ UserInv /\ CountInv /\ FlushInv /\ SaveInv /\ SleeperHasWaker
  BY DEF IInv
<1>2. /\ flusher.at = "write" /\ unsaved' = unsaved \ flusher.segment
      /\ flusher' \in {[flusher EXCEPT !.at = "written", !.flushed = TRUE],
                       [flusher EXCEPT !.at = "failed"]}
      /\ UNCHANGED <<m_BlockMap, s_FreeList, s_MRUList, s_DirtyBlockCount, s_FlushingDoneConditionVar,
                     m_Device, m_bufferNumber, m_UseCount, m_Flags, pc, want, desc, retry, stranded>>
  BY DEF WriteSegment, cacheVars, headerVars, threadVars
<1>3. /\ flusher' \in FlusherStates
      /\ flusher'.at \in {"written", "failed"}
      /\ flusher'.at = "written" => flusher'.flushed
      /\ flusher'.list = flusher.list /\ flusher'.segment = flusher.segment
      /\ flusher'.rest = flusher.rest
  <2>1. flusher \in FlusherStates
    BY <1>1 DEF TypeInv
  <2>2. CASE flusher' = [flusher EXCEPT !.at = "written", !.flushed = TRUE]
    BY <2>1, <2>2 DEF FlusherStates
  <2>3. CASE flusher' = [flusher EXCEPT !.at = "failed"]
    BY <2>1, <2>3 DEF FlusherStates
  <2> QED BY <1>2, <2>2, <2>3
<1>4. /\ Mru' = Mru /\ Free' = Free /\ Dirty' = Dirty
      /\ \A h : Users(h)' = Users(h) /\ IsDirty(h)' = IsDirty(h) /\ IsFlushing(h)' = IsFlushing(h)
      /\ \A h : Writing(h)' = Writing(h)
  BY <1>2 DEF Mru, Free, Dirty, Users, IsDirty, IsFlushing, Writing
<1>5. TypeInv'
  BY <1>1, <1>2, <1>3 DEF TypeInv
<1>6. ListInv' /\ MapInv' /\ UserInv' /\ CountInv'
  BY <1>1, <1>2, <1>4 DEF ListInv, MapInv, UserInv, CountInv
<1>7. FlushInv'
  BY <1>1, <1>3, <1>4 DEF FlushInv
<1>8. SaveInv'
  BY <1>1, <1>2, <1>3, <1>4 DEF SaveInv
<1>9. SleeperHasWaker'
  BY <1>1, <1>2, <1>3, <1>4 DEF SleeperHasWaker
<1> QED BY <1>5, <1>6, <1>7, <1>8, <1>9 DEF IInv

\* The blocks of the segment are clean, but for those marked again meanwhile.
LEMMA SegmentWrittenStep ==
    ASSUME IInv, SegmentWritten
    PROVE  IInv'
<1>1. TypeInv /\ CountInv /\ FlushInv /\ SaveInv
  BY DEF IInv
<1>2. PICK clean, flags, list, rest, flushed, waiters, left :
         /\ clean = Clean(flusher.segment) /\ list = flusher.list /\ rest = flusher.rest
         /\ flushed = flusher.flushed
         /\ flags = Without(m_Flags, clean, {"DIRTY", "FLUSH_REQUESTED", "IS_FLUSHING", "OLD"})
         /\ waiters = IF flusher.required THEN {} ELSE s_FlushingDoneConditionVar
         /\ left = IF flusher.at = "failed" THEN waiters ELSE waiters \cap stranded
  OBVIOUS
<1>3. /\ flusher.at \in {"written", "failed"}
      /\ s_DirtyBlockCount' = s_DirtyBlockCount - Cardinality({h \in clean : IsDirty(h)})
      /\ NextSegment(flags, list, rest, flushed, waiters, left)
      /\ UNCHANGED <<m_BlockMap, s_FreeList, s_MRUList, m_Device, m_bufferNumber, m_UseCount,
                     threadVars, unsaved>>
  BY <1>2 DEF SegmentWritten
<1>4. /\ flusher.segment \subseteq Headers /\ rest \subseteq Headers /\ list \subseteq Headers
      /\ flushed \in BOOLEAN
  BY <1>1, <1>2 DEF TypeInv, FlusherStates
<1>5. /\ clean \subseteq flusher.segment /\ clean \subseteq Dirty /\ clean \cap rest = {}
      /\ \A h \in clean : "DIRTY_PENDING" \notin m_Flags[h]
      /\ rest \subseteq list
  BY <1>1, <1>2, <1>4 DEF Clean, FlushInv, Dirty
<1>6. /\ flags \in [Headers -> SUBSET Flags]
      /\ \A h \in Headers : "DIRTY" \in flags[h] <=> IsDirty(h) /\ h \notin clean
      /\ \A h \in Headers : "IS_FLUSHING" \in flags[h] <=> IsFlushing(h) /\ h \notin clean
  <2>1. m_Flags \in [Headers -> SUBSET Flags]
    BY <1>1 DEF TypeInv
  <2>2. flags = Without(m_Flags, clean, {"DIRTY", "FLUSH_REQUESTED", "IS_FLUSHING", "OLD"})
    BY <1>2
  <2> QED BY <2>1, <2>2, WithoutFlags DEF IsDirty, IsFlushing
<1>7. s_DirtyBlockCount' = Cardinality({h \in Headers : "DIRTY" \in flags[h]})
  <2>1. {h \in clean : IsDirty(h)} = Dirty \cap clean
    BY <1>5 DEF Dirty
  <2>2. {h \in Headers : "DIRTY" \in flags[h]} = Dirty \ clean
    BY <1>6 DEF Dirty
  <2>3. Cardinality(Dirty \ clean) = Cardinality(Dirty) - Cardinality(Dirty \cap clean)
    BY Sizes, FS_Difference
  <2> QED BY <1>1, <1>3, <2>1, <2>2, <2>3 DEF CountInv
<1>8. /\ \A h \in Headers : "DIRTY" \in flags[h] => h \in Mru
      /\ \A h \in Headers : "IS_FLUSHING" \in flags[h] => "DIRTY" \in flags[h] /\ h \in list
      /\ \A h \in rest : "DIRTY" \in flags[h] /\ "IS_FLUSHING" \in flags[h]
  BY <1>1, <1>2, <1>4, <1>5, <1>6 DEF FlushInv
<1>9. ASSUME NEW h \in unsaved PROVE "DIRTY" \in flags[h] \/ Writing(h)
  <2>1. h \in Headers
    BY <1>1 DEF TypeInv
  <2>2. CASE h \in clean
    BY <1>1, <1>3, <1>5, <2>2 DEF SaveInv
  <2>3. CASE h \notin clean
    BY <1>1, <1>6, <2>1, <2>3 DEF SaveInv
  <2> QED BY <2>2, <2>3
<1>10. flushed \/ waiters \subseteq left
  BY <1>1, <1>2, <1>3 DEF FlushInv
<1>11. waiters \subseteq s_FlushingDoneConditionVar
  BY <1>2
<1> QED BY <1>3, <1>4, <1>5, <1>6, <1>7, <1>8, <1>9, <1>10, <1>11, RoundStep

-----------------------------------------------------------------------------
(* The theorems *)

\* Every step keeps the invariant.
LEMMA NextIInv ==
    ASSUME OneDevice, IInv, [Next]_vars
    PROVE  IInv'
<1>1. CASE UNCHANGED vars
  <2>1. UNCHANGED <<m_BlockMap, s_FreeList, s_MRUList, s_DirtyBlockCount, s_FlushingDoneConditionVar,
                    m_Device, m_bufferNumber, m_UseCount, m_Flags, pc, want, desc, retry, unsaved,
                    flusher, stranded>>
    BY <1>1 DEF vars, cacheVars, headerVars, threadVars
  <2> QED BY <2>1 DEF IInv, TypeInv, ListInv, MapInv, UserInv, CountInv, FlushInv, SaveInv,
                      SleeperHasWaker, Mru, Free, Dirty, Users, Writing, IsDirty, IsFlushing
<1>2. ASSUME NEW t \in Threads,
             \/ \E d \in Devices, b \in Blocks : GetBlock(t, d, b)
             \/ WriteBuffer(t) \/ Sync(t) \/ Step(t) \/ Release(t)
      PROVE  IInv'
  BY <1>2, GetBlockStep, WriteBufferStep, SyncStep, RetryStep, MarkDirtyStep, SyncedStep,
     ReleaseStep DEF Step
<1>3. ASSUME NEW h \in Headers, GetOld(h) PROVE IInv'
  BY <1>3, GetOldStep
<1>4. CASE FlusherStep
  BY <1>4, CollectStep, WriteSegmentStep, SegmentWrittenStep DEF FlusherStep
<1> QED BY <1>1, <1>2, <1>3, <1>4 DEF Next

\* The invariant holds, where one device is cached.
LEMMA Inductive == ASSUME OneDevice PROVE Spec => []IInv
<1>1. Init => IInv
  BY InitIInv
<1>2. IInv /\ [Next]_vars => IInv'
  BY NextIInv
<1> QED BY <1>1, <1>2, PTL DEF Spec

(***************************************************************************)
(* Where one device is cached, a block is cached once, whatever is looked  *)
(* up, loaded, evicted and flushed: the map of GetBlock_trw leads to every *)
(* cached block and a descriptor to the block its thread asked for, no     *)
(* header is in a list twice, m_UseCount counts the descriptors and        *)
(* s_DirtyBlockCount the dirty blocks.                                     *)
(***************************************************************************)
THEOREM BlocksCachedOnce == ASSUME OneDevice PROVE Spec => []CachedOnce
<1>1. ASSUME IInv PROVE CachedOnce
  <2>1. TypeInv /\ ListInv /\ MapInv /\ UserInv /\ CountInv
    BY <1>1 DEF IInv
  <2>2. Len(s_FreeList) + Len(s_MRUList) = Cardinality(Linked(s_FreeList) \cup Linked(s_MRUList))
    <3>1. /\ IsFiniteSet(Free) /\ Cardinality(Free) = Len(s_FreeList) /\ Len(s_FreeList) \in Nat
          /\ IsFiniteSet(Mru) /\ Cardinality(Mru) = Len(s_MRUList) /\ Len(s_MRUList) \in Nat
      BY <2>1, ListSize DEF TypeInv, ListInv, Free, Mru
    <3>2. /\ Cardinality(Free \cup Mru) = Cardinality(Free) + Cardinality(Mru) - Cardinality(Free \cap Mru)
          /\ Cardinality(Free \cap Mru) = 0
      BY <2>1, <3>1, FS_Union, FS_EmptySet DEF ListInv
    <3> QED BY <3>1, <3>2 DEF Free, Mru
  <2>3. /\ \A h \in Headers : m_UseCount[h] = Cardinality({t \in Threads : desc[t] = h})
        /\ s_DirtyBlockCount = Cardinality({h \in Headers : IsDirty(h)})
    BY <2>1 DEF CountInv, Users, Dirty
  <2>4. TypeOK
    BY <2>1, <2>2, <2>3 DEF TypeOK, TypeInv
  <2> QED BY <2>1, <2>4 DEF CachedOnce, MapInv, UserInv, Mru
<1> QED BY <1>1, Inductive, PTL

(***************************************************************************)
(* Where one device is cached, nothing is written to a buffer that the     *)
(* flusher forgets: a block that differs from the device is dirty, or in   *)
(* the hands of a thread that is about to mark it, also when it changes    *)
(* while FlushBlockList_trw writes it, and when that write fails.          *)
(***************************************************************************)
THEOREM UnsavedStaysDirty == ASSUME OneDevice PROVE Spec => []UnsavedIsDirty
<1>1. IInv => UnsavedIsDirty
  BY DEF IInv, SaveInv, UnsavedIsDirty, Writing
<1> QED BY <1>1, Inductive, PTL

(***************************************************************************)
(* Where one device is cached, nobody sleeps on s_FlushingDoneConditionVar *)
(* with nobody left to notify it, in GetBlock_trw for a block or in Sync,  *)
(* unless a write to the device has failed.                                *)
(***************************************************************************)
THEOREM SleepersHaveWakers == ASSUME OneDevice PROVE Spec => []SleeperHasWaker
<1>1. IInv => SleeperHasWaker
  BY DEF IInv
<1> QED BY <1>1, Inductive, PTL
-----------------------------------------------------------------------------
(***************************************************************************)
(* The inode map, the other cache of the file systems (KVFSManager): for   *)
(* every set of threads, files and inodes.  Its threads are those of the   *)
(* block cache, with a state of their own.                                 *)
(***************************************************************************)
USE VFSAssumption

(***************************************************************************)
(* Typing, without the bound on the reference counts that only the count   *)
(* of the holders gives.                                                   *)
(***************************************************************************)
InodeTypeInv ==
    /\ s_InodeMap \in [Keys -> Inodes \cup {NULL, PENDING}]
    /\ s_InodeMapMutex \in Threads \cup {NULL}
    /\ s_InodeMapConditionVar \subseteq Threads
    /\ m_ReferenceCount \in [Inodes -> Nat]
    /\ inodeKey \in [Inodes -> Keys \cup {NULL}]
    /\ m_IsDeleted \subseteq Inodes
    /\ pc \in [Threads -> Labels \ {"discard"}]
    /\ key \in [Threads -> Keys \cup {NULL}]
    /\ inode \in [Threads -> Inodes \cup {NULL}]

(***************************************************************************)
(* The destructor's reference is never given back, so that no inode ever   *)
(* becomes unused: nothing is cached, discarded or given to ReleaseInode.  *)
(***************************************************************************)
NeverReleased == /\ s_InodeMRUList = <<>>
                 /\ s_UnusedInodeCount = 0
                 /\ released = {}

\* What a thread in the middle of a call has.
Loading(t) == pc[t] \in {"load", "complete"}
Using(t) == pc[t] \in {"found", "using", "lastRef", "released"}

\* A thread that has an inode has the one the map has for the file.
ThreadInv ==
    /\ \A k \in Keys : s_InodeMap[k] \in Inodes => inodeKey[s_InodeMap[k]] = k
    /\ \A t \in Threads :
          /\ pc[t] \in {"idle", "wait", "load"} => inode[t] = NULL
          /\ pc[t] # "idle" => key[t] \in Keys
          /\ Using(t) => inode[t] \in Inodes /\ s_InodeMap[key[t]] = inode[t]
          /\ inode[t] # NULL => inodeKey[inode[t]] = key[t]

\* A pending entry has one loader, and waiters wait for pending entries only.
PendingInv ==
    /\ \A t \in Threads : Loading(t) => s_InodeMap[key[t]] = PENDING
    /\ \A t, u \in Threads : Loading(t) /\ Loading(u) /\ key[t] = key[u] => t = u
    /\ \A k \in Keys : s_InodeMap[k] = PENDING => \E t \in Threads : Loading(t) /\ key[t] = k
    /\ \A t \in s_InodeMapConditionVar : pc[t] = "wait" /\ s_InodeMap[key[t]] = PENDING

\* The threads whose reference to i is counted, and those that have dropped the last one.
Counted(i) == {t \in Threads : inode[t] = i /\ pc[t] \in {"complete", "using", "released"}}
InodeUsers(i) == {t \in Threads : inode[t] = i /\ pc[t] \in {"complete", "using"}}
Leavers(i) == {t \in Threads : inode[t] = i /\ pc[t] = "lastRef"}

(***************************************************************************)
(* The count is at least the number of holders, and it exceeds that of the *)
(* users by the leaked references only: every thread leaks one at most,    *)
(* because once one is leaked nobody drops the last reference any more.    *)
(***************************************************************************)
ReferenceInv ==
    \A i \in Inodes :
        /\ m_ReferenceCount[i] >= Cardinality(Counted(i))
        /\ m_ReferenceCount[i] + Cardinality(Leavers(i)) <= Cardinality(Threads) + Cardinality(InodeUsers(i))

InodeInv == InodeTypeInv /\ NeverReleased /\ ThreadInv /\ PendingInv /\ ReferenceInv

\* The sets of threads above are finite, and have a size.
LEMMA HolderSizes ==
    ASSUME NEW i
    PROVE  /\ IsFiniteSet(Counted(i)) /\ Cardinality(Counted(i)) \in Nat
           /\ IsFiniteSet(InodeUsers(i)) /\ Cardinality(InodeUsers(i)) \in Nat
           /\ Cardinality(InodeUsers(i)) <= Cardinality(Threads)
           /\ IsFiniteSet(Leavers(i)) /\ Cardinality(Leavers(i)) \in Nat
           /\ Cardinality(Leavers(i)) <= Cardinality(Threads)
           /\ Cardinality(Threads) \in Nat
<1>1. Counted(i) \subseteq Threads /\ InodeUsers(i) \subseteq Threads /\ Leavers(i) \subseteq Threads
  BY DEF Counted, InodeUsers, Leavers
<1> QED BY <1>1, FS_Subset, FS_CardinalityType

\* An empty map satisfies the invariant.
LEMMA InitInode ==
    ASSUME VFSInit
    PROVE  InodeInv
<1>1. InodeTypeInv /\ NeverReleased /\ ThreadInv /\ PendingInv
  BY DEF VFSInit, InodeTypeInv, NeverReleased, ThreadInv, PendingInv, Labels,
         Loading, Using
<1>2. ReferenceInv
  <2> SUFFICES ASSUME NEW i \in Inodes
               PROVE  /\ m_ReferenceCount[i] >= Cardinality(Counted(i))
                      /\ m_ReferenceCount[i] + Cardinality(Leavers(i))
                            <= Cardinality(Threads) + Cardinality(InodeUsers(i))
    BY DEF ReferenceInv
  <2>1. Counted(i) = {} /\ Leavers(i) = {} /\ InodeUsers(i) = {}
    BY DEF VFSInit, Counted, Leavers, InodeUsers
  <2>2. m_ReferenceCount[i] = 0
    BY DEF VFSInit
  <2> QED BY <2>1, <2>2, FS_EmptySet, HolderSizes
<1> QED BY <1>1, <1>2 DEF InodeInv

-----------------------------------------------------------------------------
(***************************************************************************)
(* The map, the list and what the threads have.                            *)
(***************************************************************************)
InodeMapInv == InodeTypeInv /\ NeverReleased /\ ThreadInv /\ PendingInv

\* A lookup, with the mutex of the map held.
LEMMA LookupStep ==
    ASSUME InodeMapInv, NEW t \in Threads, NEW k \in Keys, inode[t] = NULL,
           pc[t] = "idle" \/ (pc[t] = "wait" /\ t \notin s_InodeMapConditionVar),
           ~panicked, Lookup(t, k)
    PROVE  InodeMapInv'
<1> USE DEF InodeMapInv, InodeTypeInv, NeverReleased, ThreadInv, PendingInv,
            Loading, Using, Labels, Goto,
            mapVars, inodeVars
<1>1. CASE LookupMiss(t, k)
  BY <1>1 DEF LookupMiss
<1>2. CASE LookupPending(t, k)
  BY <1>2 DEF LookupPending
<1>3. CASE LookupHit(t, k)
  <2>1. Linked(s_InodeMRUList) = {}
    BY DEF Linked
  <2>2. /\ s_InodeMap[k] \in Inodes
        /\ s_InodeMapMutex' = t
        /\ inode' = [inode EXCEPT ![t] = s_InodeMap[k]]
        /\ key' = [key EXCEPT ![t] = k]
        /\ pc' = [pc EXCEPT ![t] = "found"]
        /\ UNCHANGED <<s_InodeMap, s_InodeMapConditionVar, inodeVars>>
    BY <1>3 DEF LookupHit
  <2>3. m_ReferenceCount[s_InodeMap[k]] # 0
    BY <1>3, <2>1, Zenon DEF LookupHit
  <2>4. UNCHANGED <<s_InodeMRUList, s_UnusedInodeCount>>
    BY <1>3, <2>3, Zenon DEF LookupHit
  <2>5. InodeTypeInv' /\ ThreadInv' /\ PendingInv'
    BY <2>2
  <2> QED BY <2>2, <2>4, <2>5
<1>4. CASE LookupPanics(t, k)
  BY <1>4 DEF LookupPanics
<1> QED BY <1>1, <1>2, <1>3, <1>4 DEF Lookup

\* Nobody who is counted sees a count of zero.
LEMMA HeldIsCounted ==
    ASSUME InodeTypeInv, ReferenceInv, NEW i \in Inodes, NEW t \in Counted(i)
    PROVE  m_ReferenceCount[i] > 0
<1>1. IsFiniteSet(Counted(i)) /\ Cardinality(Counted(i)) \in Nat
  BY HolderSizes
<1>2. Cardinality(Counted(i)) # 0
  BY <1>1, FS_EmptySet
<1> QED BY <1>1, <1>2 DEF ReferenceInv, InodeTypeInv

\* The map, the list and what the threads have survive every step.
LEMMA MapStep ==
    ASSUME InodeMapInv, ReferenceInv, [VFSNext]_vfsVars
    PROVE  InodeMapInv'
<1> USE DEF InodeMapInv, InodeTypeInv, NeverReleased, ThreadInv, PendingInv,
            Loading, Using, Labels, Goto,
            mapVars, inodeVars
<1>1. CASE UNCHANGED vfsVars
  BY <1>1 DEF vfsVars
<1>2. CASE VFSNext
  <2> PICK t \in Threads : \/ \E k \in Keys : GetInode(t, k)
                           \/ VFSStep(t) \/ Unlink(t) \/ FlushInodes(t)
    BY <1>2 DEF VFSNext
  <2>1. CASE \E k \in Keys : GetInode(t, k)
    BY <2>1, LookupStep DEF GetInode, At
  <2>2. CASE GetInodeRetry(t)
    BY <2>2, LookupStep DEF GetInodeRetry, At
  <2>3. CASE TakeReference(t)
    BY <2>3 DEF TakeReference, At
  <2>4. CASE LoadInode(t)
    <3>1. CASE UNCHANGED <<inodeKey, m_ReferenceCount, inode>>
      BY <2>4, <3>1 DEF LoadInode, At
    <3>2. CASE ~UNCHANGED <<inodeKey, m_ReferenceCount, inode>>
      <4> PICK i \in Inodes : /\ inodeKey[i] = NULL
                              /\ inodeKey' = [inodeKey EXCEPT ![i] = key[t]]
                              /\ m_ReferenceCount' = [m_ReferenceCount EXCEPT ![i] = 1]
                              /\ inode' = [inode EXCEPT ![t] = i]
        BY <2>4, <3>2, Zenon DEF LoadInode
      <4> QED BY <2>4 DEF LoadInode, At
    <3> QED BY <3>1, <3>2
  <2>5. CASE CompletePending(t)
    <3>1. /\ pc[t] = "complete"
          /\ s_InodeMap' = [s_InodeMap EXCEPT ![key[t]] = inode[t]]
          /\ pc' = [pc EXCEPT ![t] = IF inode[t] = NULL THEN "idle" ELSE "using"]
          /\ s_InodeMapConditionVar' = {}
          /\ UNCHANGED <<inodeKey, released, inode, s_InodeMRUList, s_UnusedInodeCount,
                         s_InodeMapMutex, m_ReferenceCount, m_IsDeleted, key, panicked>>
      BY <2>5 DEF CompletePending, CompleteLoad, Completed
    <3>2. key[t] \in Keys /\ s_InodeMap[key[t]] = PENDING
      BY <3>1
    <3>3. InodeTypeInv' /\ NeverReleased'
      BY <3>1, <3>2
    <3>4. ThreadInv'
      BY <3>1, <3>2
    <3>5. PendingInv'
      BY <3>1, <3>2
    <3> QED BY <3>3, <3>4, <3>5
  <2>6. CASE ReleasePtrRef(t)
    <3>1. pc[t] = "using" /\ inode[t] \in Inodes
      BY <2>6 DEF ReleasePtrRef, At
    <3>2. t \in Counted(inode[t])
      BY <3>1 DEF Counted
    <3>3. m_ReferenceCount[inode[t]] > 0
      BY <3>1, <3>2, HeldIsCounted
    <3>4. /\ m_ReferenceCount' = [m_ReferenceCount EXCEPT ![inode[t]] = @ - 1]
          /\ \/ pc' = [pc EXCEPT ![t] = "idle"] /\ inode' = [inode EXCEPT ![t] = NULL]
             \/ pc' = [pc EXCEPT ![t] = "lastRef"] /\ UNCHANGED inode
          /\ UNCHANGED <<s_InodeMap, s_InodeMRUList, s_UnusedInodeCount, s_InodeMapMutex,
                         s_InodeMapConditionVar, inodeKey, m_IsDeleted, released, key, panicked>>
      BY <2>6 DEF ReleasePtrRef
    <3>5. m_ReferenceCount' \in [Inodes -> Nat]
      <4>1. m_ReferenceCount[inode[t]] - 1 \in Nat
        BY <3>1, <3>3
      <4> QED BY <3>1, <3>4, <4>1
    <3>6. pc' \in [Threads -> Labels \ {"discard"}]
      <4>1. {"idle", "lastRef"} \subseteq Labels \ {"discard"}
        BY DEF Labels
      <4>2. pc \in [Threads -> Labels \ {"discard"}]
        OBVIOUS
      <4> QED BY ONLY <3>4, <4>1, <4>2
    <3>7. inode' \in [Threads -> Inodes \cup {NULL}]
      BY <3>4
    <3>8. InodeTypeInv' /\ NeverReleased'
      BY <3>4, <3>5, <3>6, <3>7
    <3>9. ThreadInv'
      BY <3>1, <3>4
    <3>10. PendingInv'
      <4>1. \A u \in Threads : Loading(u)' <=> Loading(u)
        BY <3>1, <3>4
      <4>2. \A u \in Threads : pc[u] = "wait" => pc'[u] = "wait"
        BY <3>1, <3>4
      <4> QED BY ONLY <3>4, <4>1, <4>2, PendingInv, InodeTypeInv DEF PendingInv, InodeTypeInv
    <3> QED BY <3>8, <3>9, <3>10
  <2>7. CASE HandleLastRefGone(t)
    BY <2>7 DEF HandleLastRefGone, At
  <2>8. CASE InodeReleased(t)
    <3>1. pc[t] = "released" /\ inode[t] \in Inodes
      BY <2>8 DEF InodeReleased, At
    <3>2. t \in Counted(inode[t])
      BY <3>1 DEF Counted
    <3>3. m_ReferenceCount[inode[t]] # 0
      BY <3>1, <3>2, HeldIsCounted
    <3>4. /\ pc' = [pc EXCEPT ![t] = "idle"]
          /\ inode' = [inode EXCEPT ![t] = NULL]
          /\ UNCHANGED <<mapVars, inodeVars, key, panicked>>
      BY <2>8, <3>3 DEF InodeReleased
    <3> QED BY <3>1, <3>4
  <2>9. CASE Unlink(t)
    BY <2>9 DEF Unlink, At
  <2>10. CASE FlushInodes(t)
    BY <2>10 DEF FlushInodes, At
  <2> QED BY <2>1, <2>2, <2>3, <2>4, <2>5, <2>6, <2>7, <2>8, <2>9, <2>10 DEF VFSStep
<1> QED BY <1>1, <1>2

-----------------------------------------------------------------------------
(***************************************************************************)
(* The reference counts.                                                   *)
(***************************************************************************)
CountOK(i) ==
    /\ m_ReferenceCount[i] >= Cardinality(Counted(i))
    /\ m_ReferenceCount[i] + Cardinality(Leavers(i)) <= Cardinality(Threads) + Cardinality(InodeUsers(i))

\* A step that changes neither the count of an inode nor who has it.
LEMMA SameCount ==
    ASSUME NEW i \in Inodes, CountOK(i), m_ReferenceCount'[i] = m_ReferenceCount[i],
           Counted(i)' = Counted(i), InodeUsers(i)' = InodeUsers(i), Leavers(i)' = Leavers(i)
    PROVE  CountOK(i)'
  BY DEF CountOK

\* The decrement of the reference of t, and the reference for the destructor.
LEMMA ReleaseCount ==
    ASSUME InodeMapInv, ReferenceInv, NEW t \in Threads, ReleasePtrRef(t), NEW i \in Inodes, inode[t] = i
    PROVE  CountOK(i)'
<1> USE DEF InodeMapInv, InodeTypeInv, ReferenceInv, Goto
<1>1. pc[t] = "using" /\ t \in Counted(i) /\ t \in InodeUsers(i) /\ t \notin Leavers(i)
  BY DEF ReleasePtrRef, At, Counted, InodeUsers, Leavers
<1>2. m_ReferenceCount[i] > 0
  BY <1>1, HeldIsCounted
<1>3. m_ReferenceCount'[i] = m_ReferenceCount[i] - 1
  BY DEF ReleasePtrRef
<1>4. Counted(i)' = Counted(i) \ {t} /\ InodeUsers(i)' = InodeUsers(i) \ {t}
  BY <1>1, <1>2 DEF ReleasePtrRef, Counted, InodeUsers
<1>5. /\ Cardinality(Counted(i)') = Cardinality(Counted(i)) - 1
      /\ Cardinality(InodeUsers(i)') = Cardinality(InodeUsers(i)) - 1
  BY <1>1, <1>4, HolderSizes, OneLess
<1>6. CASE m_ReferenceCount[i] > 1
  <2>1. Leavers(i)' = Leavers(i)
    BY <1>1, <1>6 DEF ReleasePtrRef, Leavers
  <2> QED BY <1>3, <1>5, <2>1, HolderSizes DEF CountOK
<1>7. CASE m_ReferenceCount[i] = 1
  <2>1. InodeUsers(i) \subseteq Counted(i)
    BY DEF InodeUsers, Counted
  <2>2. Cardinality(InodeUsers(i)) <= 1
    BY <1>7, <2>1, HolderSizes, FS_Subset
  <2>3. Leavers(i)' \subseteq Threads
    BY DEF Leavers
  <2>4. Cardinality(Leavers(i)') <= Cardinality(Threads) /\ Cardinality(Leavers(i)') \in Nat
    BY <2>3, FS_Subset, FS_CardinalityType
  <2>5. Cardinality(InodeUsers(i)') \in Nat /\ Cardinality(Counted(i)') \in Nat
    BY <1>4, HolderSizes, FS_Subset, FS_CardinalityType
  <2> QED BY <1>3, <1>5, <1>7, <2>2, <2>4, <2>5, HolderSizes DEF CountOK
<1> QED BY <1>2, <1>6, <1>7

\* Every step keeps the counts.
LEMMA CountStep ==
    ASSUME InodeMapInv, ReferenceInv, [VFSNext]_vfsVars
    PROVE  ReferenceInv'
<1> USE DEF InodeMapInv, InodeTypeInv, ThreadInv, Goto, mapVars, inodeVars
<1> SUFFICES ASSUME NEW i \in Inodes PROVE CountOK(i)'
  BY DEF ReferenceInv, CountOK
<1>0. CountOK(i) /\ i # NULL
  BY DEF ReferenceInv, CountOK
<1>1. CASE UNCHANGED vfsVars
  BY <1>0, <1>1, SameCount DEF vfsVars, Counted, InodeUsers, Leavers
<1>2. CASE VFSNext
  <2> PICK t \in Threads : \/ \E k \in Keys : GetInode(t, k)
                           \/ VFSStep(t) \/ Unlink(t) \/ FlushInodes(t)
    BY <1>2 DEF VFSNext
  <2>1. ASSUME NEW k \in Keys, Lookup(t, k), pc[t] \in {"idle", "wait"}
        PROVE  CountOK(i)'
    <3>1. UNCHANGED m_ReferenceCount /\ inode[t] = NULL
      BY <2>1 DEF Lookup, LookupMiss, LookupPending, LookupHit, LookupPanics
    <3>2. /\ \/ pc' = [pc EXCEPT ![t] = "load"] \/ pc' = [pc EXCEPT ![t] = "wait"]
             \/ pc' = [pc EXCEPT ![t] = "found"] \/ pc' = pc
          /\ inode' = inode \/ inode' = [inode EXCEPT ![t] = s_InodeMap[k]]
      BY <2>1 DEF Lookup, LookupMiss, LookupPending, LookupHit, LookupPanics
    <3>3. Counted(i)' = Counted(i) /\ InodeUsers(i)' = InodeUsers(i) /\ Leavers(i)' = Leavers(i)
      BY <2>1, <3>1, <3>2 DEF Counted, InodeUsers, Leavers
    <3> QED BY <1>0, <3>1, <3>3, SameCount
  <2>2. CASE TakeReference(t)
    <3>1. CASE inode[t] = i
      <4>1. Counted(i)' = Counted(i) \cup {t} /\ InodeUsers(i)' = InodeUsers(i) \cup {t} /\ Leavers(i)' = Leavers(i)
        BY <2>2, <3>1 DEF TakeReference, At, Counted, InodeUsers, Leavers
      <4>2. t \notin Counted(i) /\ t \notin InodeUsers(i)
        BY <2>2 DEF TakeReference, At, Counted, InodeUsers
      <4>3. /\ Cardinality(Counted(i)') = Cardinality(Counted(i)) + 1
            /\ Cardinality(InodeUsers(i)') = Cardinality(InodeUsers(i)) + 1
        BY <4>1, <4>2, HolderSizes, OneMore
      <4>4. m_ReferenceCount'[i] = m_ReferenceCount[i] + 1
        BY <2>2, <3>1 DEF TakeReference
      <4> QED BY <1>0, <4>1, <4>3, <4>4, HolderSizes DEF CountOK
    <3>2. CASE inode[t] # i
      <4>1. Counted(i)' = Counted(i) /\ InodeUsers(i)' = InodeUsers(i) /\ Leavers(i)' = Leavers(i)
        BY <2>2, <3>2 DEF TakeReference, Counted, InodeUsers, Leavers
      <4>2. m_ReferenceCount'[i] = m_ReferenceCount[i]
        BY <2>2, <3>2 DEF TakeReference
      <4> QED BY <1>0, <4>1, <4>2, SameCount
    <3> QED BY <3>1, <3>2
  <2>3. CASE LoadInode(t)
    <3>0. pc[t] = "load" /\ inode[t] = NULL /\ pc' = [pc EXCEPT ![t] = "complete"]
      BY <2>3 DEF LoadInode, At
    <3>1. CASE UNCHANGED <<inodeKey, m_ReferenceCount, inode>>
      <4>1. Counted(i)' = Counted(i) /\ InodeUsers(i)' = InodeUsers(i) /\ Leavers(i)' = Leavers(i)
        BY <1>0, <3>0, <3>1 DEF Counted, InodeUsers, Leavers
      <4> QED BY <1>0, <3>1, <4>1, SameCount
    <3>2. CASE ~UNCHANGED <<inodeKey, m_ReferenceCount, inode>>
      <4> PICK new \in Inodes : /\ inodeKey[new] = NULL
                                /\ m_ReferenceCount' = [m_ReferenceCount EXCEPT ![new] = 1]
                                /\ inode' = [inode EXCEPT ![t] = new]
        BY <2>3, <3>2, Zenon DEF LoadInode
      <4>1. CASE i = new
        <5>1. \A u \in Threads : inode[u] # i
          BY <4>1 DEF Using
        <5>2. Counted(i)' = {t} /\ InodeUsers(i)' = {t} /\ Leavers(i)' = {}
          BY <3>0, <4>1, <5>1 DEF Counted, InodeUsers, Leavers
        <5>3. /\ Cardinality(Counted(i)') = 1 /\ Cardinality(InodeUsers(i)') = 1
              /\ Cardinality(Leavers(i)') = 0
          BY <5>2, FS_Singleton, FS_EmptySet
        <5>4. m_ReferenceCount'[i] = 1
          BY <4>1
        <5> QED BY <5>3, <5>4, HolderSizes DEF CountOK
      <4>2. CASE i # new
        <5>1. Counted(i)' = Counted(i) /\ InodeUsers(i)' = InodeUsers(i) /\ Leavers(i)' = Leavers(i)
          BY <1>0, <3>0, <4>2 DEF Counted, InodeUsers, Leavers
        <5> QED BY <1>0, <4>2, <5>1, SameCount
      <4> QED BY <4>1, <4>2
    <3> QED BY <3>1, <3>2
  <2>4. CASE CompletePending(t)
    <3>1. /\ pc[t] = "complete" /\ UNCHANGED <<m_ReferenceCount, inode>>
          /\ pc' = [pc EXCEPT ![t] = IF inode[t] = NULL THEN "idle" ELSE "using"]
      BY <2>4 DEF CompletePending, CompleteLoad, Labels
    <3>2. Counted(i)' = Counted(i) /\ InodeUsers(i)' = InodeUsers(i) /\ Leavers(i)' = Leavers(i)
      BY <1>0, <3>1 DEF Counted, InodeUsers, Leavers
    <3> QED BY <1>0, <3>1, <3>2, SameCount
  <2>5. CASE ReleasePtrRef(t)
    <3>1. CASE inode[t] = i
      BY <2>5, <3>1, ReleaseCount
    <3>2. CASE inode[t] # i
      <4>1. Counted(i)' = Counted(i) /\ InodeUsers(i)' = InodeUsers(i) /\ Leavers(i)' = Leavers(i)
        BY <1>0, <2>5, <3>2 DEF ReleasePtrRef, Counted, InodeUsers, Leavers
      <4>2. m_ReferenceCount'[i] = m_ReferenceCount[i]
        BY <2>5, <3>2 DEF ReleasePtrRef
      <4> QED BY <1>0, <4>1, <4>2, SameCount
    <3> QED BY <3>1, <3>2
  <2>6. CASE HandleLastRefGone(t)
    <3>1. CASE inode[t] = i
      <4>1. Counted(i)' = Counted(i) \cup {t} /\ InodeUsers(i)' = InodeUsers(i) /\ Leavers(i)' = Leavers(i) \ {t}
        BY <2>6, <3>1 DEF HandleLastRefGone, At, Counted, InodeUsers, Leavers
      <4>2. t \notin Counted(i) /\ t \in Leavers(i)
        BY <2>6, <3>1 DEF HandleLastRefGone, At, Counted, Leavers
      <4>3. /\ Cardinality(Counted(i)') = Cardinality(Counted(i)) + 1
            /\ Cardinality(Leavers(i)') = Cardinality(Leavers(i)) - 1
        BY <4>1, <4>2, HolderSizes, OneMore, OneLess
      <4>4. m_ReferenceCount'[i] = m_ReferenceCount[i] + 1
        BY <2>6, <3>1 DEF HandleLastRefGone
      <4> QED BY <1>0, <4>1, <4>3, <4>4, HolderSizes DEF CountOK
    <3>2. CASE inode[t] # i
      <4>1. Counted(i)' = Counted(i) /\ InodeUsers(i)' = InodeUsers(i) /\ Leavers(i)' = Leavers(i)
        BY <2>6, <3>2 DEF HandleLastRefGone, Counted, InodeUsers, Leavers
      <4>2. m_ReferenceCount'[i] = m_ReferenceCount[i]
        BY <2>6, <3>2 DEF HandleLastRefGone
      <4> QED BY <1>0, <4>1, <4>2, SameCount
    <3> QED BY <3>1, <3>2
  <2>7. CASE InodeReleased(t)
    <3>1. pc[t] = "released" /\ inode[t] \in Inodes
      BY <2>7 DEF InodeReleased, At, Using
    <3>2. t \in Counted(inode[t])
      BY <3>1 DEF Counted
    <3>3. m_ReferenceCount[inode[t]] # 0
      BY <3>1, <3>2, HeldIsCounted
    <3>4. /\ pc' = [pc EXCEPT ![t] = "idle"] /\ inode' = [inode EXCEPT ![t] = NULL]
          /\ UNCHANGED m_ReferenceCount
      BY <2>7, <3>3 DEF InodeReleased
    <3>5. /\ Counted(i)' \subseteq Counted(i)
          /\ InodeUsers(i)' = InodeUsers(i) /\ Leavers(i)' = Leavers(i)
      BY <1>0, <3>1, <3>4 DEF Counted, InodeUsers, Leavers
    <3>6. /\ Cardinality(Counted(i)') <= Cardinality(Counted(i))
          /\ Cardinality(Counted(i)') \in Nat
      BY <3>5, HolderSizes, FS_Subset, FS_CardinalityType
    <3> QED BY <1>0, <3>4, <3>5, <3>6, HolderSizes DEF CountOK
  <2>8. CASE Unlink(t)
    BY <1>0, <2>8, SameCount DEF Unlink, Counted, InodeUsers, Leavers
  <2>9. CASE FlushInodes(t)
    BY <1>0, <2>9, SameCount DEF FlushInodes, NeverReleased, Counted, InodeUsers,
                                 Leavers
  <2> QED
    BY <2>1, <2>2, <2>3, <2>4, <2>5, <2>6, <2>7, <2>8, <2>9
      DEF VFSStep, GetInode, GetInodeRetry, At
<1> QED BY <1>1, <1>2

-----------------------------------------------------------------------------
\* The inductive invariant holds in every reachable state.
LEMMA InodeInductive == VFSSpec => []InodeInv
<1>0. VFSInit => InodeInv
  BY InitInode
<1>1. InodeInv /\ [VFSNext]_vfsVars => InodeInv'
  BY MapStep, CountStep DEF InodeInv, InodeMapInv
<1> QED BY <1>0, <1>1, PTL DEF VFSSpec

(***************************************************************************)
(* Whoever has got an inode from GetInode has the object that the map has  *)
(* for the file, and no count exceeds twice the number of threads.         *)
(***************************************************************************)
THEOREM OneInode == VFSSpec => []OneInodePerFile
<1>1. InodeInv => OneInodePerFile
  <2> SUFFICES ASSUME InodeInv PROVE OneInodePerFile
    OBVIOUS
  <2> USE DEF InodeInv, InodeTypeInv, ThreadInv, NeverReleased, Using, Labels
  <2>1. m_ReferenceCount \in [Inodes -> 0..2 * Cardinality(Threads)]
    <3> SUFFICES ASSUME NEW i \in Inodes
                 PROVE  m_ReferenceCount[i] <= 2 * Cardinality(Threads)
      BY HolderSizes
    <3> QED BY HolderSizes DEF ReferenceInv
  <2>2. /\ s_UnusedInodeCount = Len(s_InodeMRUList)
        /\ s_UnusedInodeCount =< MAX_INODE_CACHE_COUNT
    OBVIOUS
  <2>3. VFSTypeOK
    BY <2>1, <2>2 DEF VFSTypeOK
  <2>4. \A t \in Threads : inode[t] # NULL /\ pc[t] # "complete" =>
            s_InodeMap[key[t]] = inode[t] /\ inodeKey[inode[t]] = key[t]
    OBVIOUS
  <2> QED BY <2>3, <2>4 DEF OneInodePerFile
<1> QED BY InodeInductive, <1>1, PTL

(***************************************************************************)
(* An entry is PENDING exactly while one thread loads it, and the waiters  *)
(* on the condition variable wait for PENDING entries.                     *)
(***************************************************************************)
THEOREM PendingOwned == VFSSpec => []PendingHasOwner
<1>1. InodeInv => PendingHasOwner
  <2> SUFFICES ASSUME InodeInv PROVE PendingHasOwner
    OBVIOUS
  <2> USE DEF InodeInv, PendingInv, Loading
  <2>1. ASSUME NEW k \in Keys, s_InodeMap[k] = PENDING
        PROVE  Cardinality({t \in Threads : pc[t] \in {"load", "complete"} /\ key[t] = k}) = 1
    <3> PICK t \in Threads : Loading(t) /\ key[t] = k
      BY <2>1
    <3>1. {u \in Threads : pc[u] \in {"load", "complete"} /\ key[u] = k} = {t}
      OBVIOUS
    <3> QED BY <3>1, FS_Singleton
  <2>2. ASSUME NEW k \in Keys, s_InodeMap[k] # PENDING
        PROVE  Cardinality({t \in Threads : pc[t] \in {"load", "complete"} /\ key[t] = k}) # 1
    <3>1. {u \in Threads : pc[u] \in {"load", "complete"} /\ key[u] = k} = {}
      BY <2>2
    <3> QED BY <3>1, FS_EmptySet
  <2> QED BY <2>1, <2>2 DEF PendingHasOwner
<1> QED BY InodeInductive, <1>1, PTL

(***************************************************************************)
(* No inode is ever given to KFilesystem::ReleaseInode, whatever is closed *)
(* or unlinked: FATFilesystem::Rename counts on it being given there after *)
(* the last close ("ReleaseInode() clears the replaced file's chain").     *)
(***************************************************************************)
THEOREM NothingReleased == VFSSpec => [](released = {} /\ s_InodeMRUList = <<>>)
<1>1. InodeInv => released = {} /\ s_InodeMRUList = <<>>
  BY DEF InodeInv, NeverReleased
<1> QED BY InodeInductive, <1>1, PTL
=============================================================================
