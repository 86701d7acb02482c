---------------------------- MODULE KVFSManager -----------------------------
(***************************************************************************)
(* The inode map of the virtual file system (Kernel/VFS/KVFSManager.cpp,   *)
(* KInode.cpp) and the reference counts of the inodes (PtrTarget).  An     *)
(* inode being loaded or discarded is PENDING in the map; other callers    *)
(* wait for it.  References are dropped without the mutex of the map, so   *)
(* the steps of PtrTarget::ReleasePtrRef fall between those of a lookup.   *)
(* HandleLastRefGone counts one reference for the destructor before it     *)
(* calls LastReferenceGone, which never gives it back.                     *)
(***************************************************************************)
EXTENDS FileSystemThreads, WaitQueue, FiniteSets

CONSTANTS Keys,         \* (volume, inode number) pairs of the registered volumes
          Inodes,       \* KInode objects
          PENDING,
          MAX_INODE_CACHE_COUNT

ASSUME VFSAssumption == /\ MAX_INODE_CACHE_COUNT \in Nat
                        /\ IsFiniteSet(Threads)
                        /\ NULL # PENDING
                        /\ {NULL, PENDING} \cap (Inodes \cup Keys \cup Threads) = {}

VARIABLES s_InodeMap, s_InodeMRUList, s_UnusedInodeCount,
          s_InodeMapMutex,          \* its holder between two steps
          s_InodeMapConditionVar,   \* the threads whose node is linked
          m_ReferenceCount,         \* of each inode
          inodeKey,                 \* what each inode was loaded for; NULL: no such object
          m_IsDeleted,              \* inodes whose file has been unlinked
          released,                 \* inodes given to KFilesystem::ReleaseInode
          key, inode,               \* what each thread has
          panicked                  \* a kassert failed and the kernel stopped

mapVars == <<s_InodeMap, s_InodeMRUList, s_UnusedInodeCount, s_InodeMapMutex,
             s_InodeMapConditionVar>>
inodeVars == <<m_ReferenceCount, inodeKey, m_IsDeleted, released>>
vfsVars == <<mapVars, inodeVars, pc, key, inode, panicked>>

VFSInit == /\ s_InodeMap = [k \in Keys |-> NULL]
           /\ s_InodeMRUList = <<>>
           /\ s_UnusedInodeCount = 0
           /\ s_InodeMapMutex = NULL
           /\ s_InodeMapConditionVar = {}
           /\ m_ReferenceCount = [i \in Inodes |-> 0]
           /\ inodeKey = [i \in Inodes |-> NULL]
           /\ m_IsDeleted = {}
           /\ released = {}
           /\ pc = [t \in Threads |-> "idle"]
           /\ key = [t \in Threads |-> NULL]
           /\ inode = [t \in Threads |-> NULL]
           /\ panicked = FALSE

At(t, label) == pc[t] = label /\ ~panicked
MutexFree == s_InodeMapMutex = NULL

\* A file that has been unlinked has no name that leads to its inode any more.
Reachable(k) == \A i \in m_IsDeleted : inodeKey[i] # k

-----------------------------------------------------------------------------
\* A wrong variant: the entry is filled in only when the inode has been loaded.
LookupMarksNothing(t, k) ==
    /\ s_InodeMap[k] = NULL
    /\ key' = [key EXCEPT ![t] = k]
    /\ Goto(t, "load")
    /\ UNCHANGED <<mapVars, inodeVars, inode, panicked>>

LookupMiss(t, k) ==
    /\ s_InodeMap[k] = NULL
    /\ s_InodeMap' = [s_InodeMap EXCEPT ![k] = PENDING]
    /\ key' = [key EXCEPT ![t] = k]
    /\ Goto(t, "load")
    /\ UNCHANGED <<s_InodeMRUList, s_UnusedInodeCount, s_InodeMapMutex,
                   s_InodeMapConditionVar, inodeVars, inode, panicked>>

LookupPending(t, k) ==
    /\ s_InodeMap[k] = PENDING
    /\ s_InodeMapConditionVar' = s_InodeMapConditionVar \cup {t}
    /\ key' = [key EXCEPT ![t] = k]
    /\ Goto(t, "wait")
    /\ UNCHANGED <<s_InodeMap, s_InodeMRUList, s_UnusedInodeCount, s_InodeMapMutex,
                   inodeVars, inode, panicked>>

\* An inode with no reference is taken off the list of the unused ones.  The count is
\* incremented in the next step, under the same lock.
LookupHit(t, k) ==
    LET i == s_InodeMap[k]
        unused == m_ReferenceCount[i] = 0
    IN
    /\ i \in Inodes
    /\ unused => i \in Linked(s_InodeMRUList)
    /\ s_InodeMRUList' = IF unused THEN Detatch(s_InodeMRUList, i) ELSE s_InodeMRUList
    /\ s_UnusedInodeCount' = IF unused THEN s_UnusedInodeCount - 1 ELSE s_UnusedInodeCount
    /\ s_InodeMapMutex' = t
    /\ inode' = [inode EXCEPT ![t] = i]
    /\ key' = [key EXCEPT ![t] = k]
    /\ Goto(t, "found")
    /\ UNCHANGED <<s_InodeMap, s_InodeMapConditionVar, inodeVars, panicked>>

\* It is not on that list, which a kassert denies: the kernel stops there.
LookupPanics(t, k) ==
    LET i == s_InodeMap[k] IN
    /\ i \in Inodes /\ m_ReferenceCount[i] = 0 /\ i \notin Linked(s_InodeMRUList)
    /\ panicked' = TRUE
    /\ UNCHANGED <<mapVars, inodeVars, pc, key, inode>>

Lookup(t, k) ==
    /\ MutexFree
    /\ LookupMiss(t, k) \/ LookupPending(t, k) \/ LookupHit(t, k) \/ LookupPanics(t, k)

GetInode(t, k) == At(t, "idle") /\ Reachable(k) /\ Lookup(t, k)

\* A notified waiter starts over.
GetInodeRetry(t) == /\ At(t, "wait") /\ t \notin s_InodeMapConditionVar
                    /\ Lookup(t, key[t])

\* ptr_tmp_cast, and the end of the critical section.
TakeReference(t) ==
    /\ At(t, "found")
    /\ m_ReferenceCount' = [m_ReferenceCount EXCEPT ![inode[t]] = @ + 1]
    /\ s_InodeMapMutex' = NULL
    /\ Goto(t, "using")
    /\ UNCHANGED <<s_InodeMap, s_InodeMRUList, s_UnusedInodeCount, s_InodeMapConditionVar,
                   inodeKey, m_IsDeleted, released, key, inode, panicked>>

\* KFilesystem::LoadInode: a new inode with one reference, or an exception.
LoadInode(t) ==
    LET unborn == {i \in Inodes : inodeKey[i] = NULL /\ i \notin released} IN
    /\ At(t, "load")
    /\ \/ \E i \in unborn :
             /\ i = CHOOSE new \in unborn : TRUE
             /\ inodeKey' = [inodeKey EXCEPT ![i] = key[t]]
             /\ m_ReferenceCount' = [m_ReferenceCount EXCEPT ![i] = 1]
             /\ inode' = [inode EXCEPT ![t] = i]
       \/ UNCHANGED <<inodeKey, m_ReferenceCount, inode>>
    /\ Goto(t, "complete")
    /\ UNCHANGED <<mapVars, m_IsDeleted, released, key, panicked>>

\* A wrong variant: nobody is told that the inode is no longer pending.
CompletedSilently == UNCHANGED s_InodeMapConditionVar

\* Everybody who waits for any pending inode is woken.
Completed == s_InodeMapConditionVar' = {}

-----------------------------------------------------------------------------
\* FATFilesystem::Unlink and Rename: the file loses its last name.
Unlink(t) == /\ At(t, "using")
             /\ m_IsDeleted' = m_IsDeleted \cup {inode[t]}
             /\ UNCHANGED <<mapVars, m_ReferenceCount, inodeKey, released, pc, key, inode,
                            panicked>>

\* ReleasePtrRef: the decrement ...
ReleasePtrRef(t) ==
    /\ At(t, "using")
    /\ m_ReferenceCount' = [m_ReferenceCount EXCEPT ![inode[t]] = @ - 1]
    /\ IF m_ReferenceCount[inode[t]] > 1
       THEN Goto(t, "idle") /\ inode' = [inode EXCEPT ![t] = NULL]
       ELSE Goto(t, "lastRef") /\ UNCHANGED inode
    /\ UNCHANGED <<mapVars, inodeKey, m_IsDeleted, released, key, panicked>>

\* ... and, if it was the last, the reference for the destructor.
HandleLastRefGone(t) ==
    /\ At(t, "lastRef")
    /\ m_ReferenceCount' = [m_ReferenceCount EXCEPT ![inode[t]] = @ + 1]
    /\ Goto(t, "released")
    /\ UNCHANGED <<mapVars, inodeKey, m_IsDeleted, released, key, inode, panicked>>

\* DiscardInode, up to the call of ReleaseInode without the lock.
Discard(t, i, list, count) ==
    /\ s_InodeMRUList' = Detatch(list, i)
    /\ s_UnusedInodeCount' = count - 1
    /\ s_InodeMap' = [s_InodeMap EXCEPT ![inodeKey[i]] = PENDING]
    /\ inode' = [inode EXCEPT ![t] = i]
    /\ Goto(t, "discard")

\* LastReferenceGone and InodeReleased: an unused inode is cached, or the oldest discarded.
\* (Only pipes ask not to be cached, and they are not loaded through the map.)
InodeReleased(t) ==
    /\ At(t, "released") /\ MutexFree
    /\ IF m_ReferenceCount[inode[t]] # 0
       THEN /\ Goto(t, "idle")
            /\ inode' = [inode EXCEPT ![t] = NULL]
            /\ UNCHANGED <<s_InodeMap, s_InodeMRUList, s_UnusedInodeCount>>
       ELSE LET list == Append(s_InodeMRUList, inode[t])
                count == s_UnusedInodeCount + 1
            IN  IF count > MAX_INODE_CACHE_COUNT
                THEN Discard(t, Head(list), list, count)
                ELSE /\ s_InodeMRUList' = list
                     /\ s_UnusedInodeCount' = count
                     /\ Goto(t, "idle")
                     /\ inode' = [inode EXCEPT ![t] = NULL]
                     /\ UNCHANGED s_InodeMap
    /\ UNCHANGED <<s_InodeMapMutex, s_InodeMapConditionVar, inodeVars, key, panicked>>

\* FlushInodes, called by the disk cache flusher: one round of its loop.
FlushInodes(t) ==
    /\ At(t, "idle") /\ MutexFree
    /\ IF s_InodeMRUList = <<>>
       THEN UNCHANGED <<s_InodeMap, s_InodeMRUList, s_UnusedInodeCount, inode, pc>>
       ELSE Discard(t, Head(s_InodeMRUList), s_InodeMRUList, s_UnusedInodeCount)
    /\ UNCHANGED <<s_InodeMapMutex, s_InodeMapConditionVar, inodeVars, key, panicked>>

\* The scope exit of GetInode: an inode in the map, or no entry.
CompleteLoad(t) ==
    /\ s_InodeMap' = [s_InodeMap EXCEPT ![key[t]] = inode[t]]
    /\ Goto(t, IF inode[t] = NULL THEN "idle" ELSE "using")
    /\ UNCHANGED <<inodeKey, released, inode>>

\* The rest of DiscardInode, after ReleaseInode and the deletion of the object.
CompleteDiscard(t) ==
    /\ released' = released \cup {inode[t]}
    /\ s_InodeMap' = [s_InodeMap EXCEPT ![inodeKey[inode[t]]] = NULL]
    /\ inodeKey' = [inodeKey EXCEPT ![inode[t]] = NULL]
    /\ inode' = [inode EXCEPT ![t] = NULL]
    /\ Goto(t, "idle")

\* The entry stops being PENDING.
CompletePending(t) ==
    /\ pc[t] \in {"complete", "discard"} /\ ~panicked /\ MutexFree
    /\ IF pc[t] = "complete" THEN CompleteLoad(t) ELSE CompleteDiscard(t)
    /\ Completed
    /\ UNCHANGED <<s_InodeMRUList, s_UnusedInodeCount, s_InodeMapMutex, m_ReferenceCount,
                   m_IsDeleted, key, panicked>>

-----------------------------------------------------------------------------
VFSStep(t) == \/ GetInodeRetry(t)
              \/ TakeReference(t)
              \/ LoadInode(t)
              \/ CompletePending(t)
              \/ ReleasePtrRef(t)
              \/ HandleLastRefGone(t)
              \/ InodeReleased(t)

VFSNext == \E t \in Threads : \/ \E k \in Keys : GetInode(t, k)
                              \/ VFSStep(t)
                              \/ Unlink(t)
                              \/ FlushInodes(t)

VFSSpec == VFSInit /\ [][VFSNext]_vfsVars

-----------------------------------------------------------------------------
Labels == {"idle", "load", "complete", "wait", "found", "using", "lastRef", "released",
           "discard"}
\* Every variable has the values that the code can give it; in particular the unused
\* inodes are counted (in a kernel that has stopped as well: the kassert comes before the
\* list and its count are changed), and there are never more than the limit.
VFSTypeOK == /\ s_InodeMap \in [Keys -> Inodes \cup {NULL, PENDING}]
             /\ s_InodeMapMutex \in Threads \cup {NULL}
             /\ s_InodeMapConditionVar \subseteq Threads
             /\ m_ReferenceCount \in [Inodes -> 0..2 * Cardinality(Threads)]
             /\ inodeKey \in [Inodes -> Keys \cup {NULL}]
             /\ m_IsDeleted \subseteq Inodes /\ released \subseteq Inodes
             /\ pc \in [Threads -> Labels]
             /\ key \in [Threads -> Keys \cup {NULL}]
             /\ inode \in [Threads -> Inodes \cup {NULL}]
             /\ s_UnusedInodeCount = Len(s_InodeMRUList)
             /\ s_UnusedInodeCount =< MAX_INODE_CACHE_COUNT

\* Whoever has got an inode from GetInode has the object that the map has for that file:
\* two loads of one file would give two objects with two ideas of its size and cluster chain.
OneInodePerFile ==
    /\ VFSTypeOK
    /\ \A t \in Threads : inode[t] # NULL /\ pc[t] # "complete" =>
           s_InodeMap[key[t]] = inode[t] /\ inodeKey[inode[t]] = key[t]

\* An entry is PENDING exactly while one thread loads it, and a thread sleeps on the
\* condition variable only while the entry it looked up is PENDING: a completion that is
\* not announced, or is announced before the entry changes, or is skipped when the load
\* throws, leaves it asleep for good.  (DiscardInode makes entries PENDING as well, but
\* is never called for an inode: see NothingReleased.)
PendingHasOwner ==
    /\ \A k \in Keys : s_InodeMap[k] = PENDING
          <=> Cardinality({t \in Threads : pc[t] \in {"load", "complete"} /\ key[t] = k}) = 1
    /\ \A t \in s_InodeMapConditionVar : s_InodeMap[key[t]] = PENDING

\* kassert(i->second->IsListMember(&s_InodeMRUList)) in GetInode: an inode that is found
\* with no reference is on the list of the unused ones.  The count drops to zero before
\* HandleLastRefGone counts it up again, with no lock in between.
UnusedIsListed == ~panicked
=============================================================================
