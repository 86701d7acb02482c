------------------------- MODULE KMessagePort_proofs -------------------------
(***************************************************************************)
(* Proofs about KMessagePort, for every set of threads, ports, buffers and *)
(* listeners, every capacity of the ports and every limit of the cache.    *)
(*                                                                         *)
(* The linked lists are described by the sequences of buffers they stand   *)
(* for, which exist in every reachable state (ListInv).  Chain, which      *)
(* follows m_Next, computes them; that is shown by looking at the first    *)
(* place where it would not.                                               *)
(***************************************************************************)
EXTENDS KMessagePort, WaitQueue_proofs

USE PortAssumption

Alive(p) == handle[p] \in {"open", "deleted"}

\* s is the list that starts at head and goes along next to NULL.
IsList(next, head, s) ==
    /\ head = IF s = <<>> THEN NULL ELSE s[1]
    /\ \A i \in 1..Len(s) : next[s[i]] = IF i = Len(s) THEN NULL ELSE s[i + 1]
    /\ OneNodeEach(s)

\* The lists of the ports are q, the cache is c; the heap and the lists share no buffer
\* and have them all.
Apart(free, q, c) ==
    /\ free \cap Linked(c) = {}
    /\ \A p \in Ports : Linked(q[p]) \cap (free \cup Linked(c)) = {}
    /\ \A p, r \in Ports : p # r => Linked(q[p]) \cap Linked(q[r]) = {}
    /\ \A b \in Blocks : b \in free \/ b \in Linked(c) \/ \E p \in Ports : b \in Linked(q[p])

PortListed(p, s) ==
    /\ IsList(m_Next, m_FirstMsg[p], s) /\ Len(s) <= m_MaxCount[p]
    /\ Alive(p) => /\ Len(s) = m_MessageCount[p]
                   /\ m_LastMsg[p] = IF s = <<>> THEN NULL ELSE s[Len(s)]
    /\ handle[p] = "gone" => s = <<>>
    /\ \A b \in Linked(s) : content[b] \in Messages

Listed(q, c) ==
    /\ q \in [Ports -> Seq(Blocks)] /\ c \in Seq(Blocks)
    /\ IsList(m_Next, gk_FirstCachedMessage, c) /\ Len(c) = gk_CachedMessageCount
    /\ \A p \in Ports : PortListed(p, q[p])
    /\ Apart(heap, q, c)

ListInv == \E q, c : Listed(q, c)

\* A call keeps its port alive.
CallInv == \A t \in Threads : call[t] # NoCall => Alive(call[t].port)

\* A port that is gone leaves nobody queued.
WaitInv == /\ m_SendCondition \in [Ports -> Seq(Threads \cup Listeners)]
           /\ m_ReceiveCondition \in [Ports -> Seq(Threads \cup Listeners)]
           /\ WaitersMustWait
           /\ \A p \in Ports : handle[p] = "gone" =>
                 m_SendCondition[p] = <<>> /\ m_ReceiveCondition[p] = <<>>

IInv == TypeOK /\ ListInv /\ CallInv /\ WaitInv

-----------------------------------------------------------------------------
(* Lists *)

\* The linked buffers, by position.
LEMMA LinkedBlocks ==
    ASSUME NEW s \in Seq(Blocks)
    PROVE  \A x : x \in Linked(s) <=> \E i \in 1..Len(s) : s[i] = x
  BY LinkedAt

\* What there is to know of a list whose buffers are known.
LEMMA ListFacts ==
    ASSUME NEW next, NEW head, NEW s \in Seq(Blocks), IsList(next, head, s)
    PROVE  /\ Len(s) \in Nat /\ Linked(s) \subseteq Blocks
           /\ s = <<>> <=> head = NULL
           /\ s = <<>> <=> Len(s) = 0
           /\ \A i \in 1..Len(s) : s[i] \in Linked(s)
           /\ \A b \in Linked(s) : \E i \in 1..Len(s) : s[i] = b
           /\ s # <<>> => head = s[1] /\ head \in Linked(s)
<1>1. /\ Len(s) \in Nat /\ Linked(s) \subseteq Blocks
      /\ \A t : t \in Linked(s) <=> \E i \in 1..Len(s) : s[i] = t
  BY LinkedAt
<1>2. s = <<>> <=> Len(s) = 0
  BY EmptySeq
<1>3. s # <<>> => head = s[1] /\ head \in Linked(s)
  BY <1>1, <1>2 DEF IsList
<1> QED BY <1>1, <1>2, <1>3 DEF IsList

\* A list whose links stay is still the list.
LEMMA ListKeep ==
    ASSUME NEW next, NEW next2, NEW head, NEW s \in Seq(Blocks), IsList(next, head, s),
           \A b \in Linked(s) : next2[b] = next[b]
    PROVE  IsList(next2, head, s)
<1>1. \A i \in 1..Len(s) : s[i] \in Linked(s)
  BY LinkedAt
<1> QED BY <1>1 DEF IsList

\* The first buffer is unlinked.
LEMMA ListPop ==
    ASSUME NEW next, NEW head, NEW s \in Seq(Blocks), IsList(next, head, s), s # <<>>
    PROVE  /\ head = s[1] /\ head \in Linked(s)
           /\ Tail(s) \in Seq(Blocks) /\ Len(Tail(s)) = Len(s) - 1
           /\ \A i \in 1..Len(Tail(s)) : Tail(s)[i] = s[i + 1]
           /\ IsList(next, next[head], Tail(s))
           /\ Linked(Tail(s)) = Linked(s) \ {head}
           /\ next[head] = NULL <=> Tail(s) = <<>>
           /\ Tail(s) # <<>> => Tail(s)[Len(Tail(s))] = s[Len(s)]
<1> DEFINE t == Tail(s)
<1>1. /\ Len(s) \in Nat \ {0} /\ head = s[1] /\ head \in Linked(s)
      /\ \A b : b \in Linked(s) <=> \E i \in 1..Len(s) : s[i] = b
  BY ListFacts, LinkedAt
<1>2. /\ t \in Seq(Blocks) /\ Len(t) = Len(s) - 1 /\ \A i \in 1..Len(t) : t[i] = s[i + 1]
  BY HeadTailProperties
<1> HIDE DEF t
<1>3. \A b : b \in Linked(t) <=> \E i \in 1..Len(t) : t[i] = b
  BY <1>2, LinkedBlocks
<1>4. t = <<>> <=> Len(t) = 0
  BY <1>2, EmptySeq
<1>5. OneNodeEach(t)
  BY <1>1, <1>2 DEF IsList, OneNodeEach
<1>6. next[head] = IF t = <<>> THEN NULL ELSE t[1]
  BY <1>1, <1>2, <1>4 DEF IsList
<1>7. \A i \in 1..Len(t) : next[t[i]] = IF i = Len(t) THEN NULL ELSE t[i + 1]
  BY <1>1, <1>2 DEF IsList
<1>8. IsList(next, next[head], t)
  BY <1>5, <1>6, <1>7 DEF IsList
<1>9. Linked(t) = Linked(s) \ {head}
  <2>1. ASSUME NEW b \in Linked(t) PROVE b \in Linked(s) /\ b # head
    <3>1. PICK i \in 1..Len(t) : t[i] = b
      BY <1>3
    <3>2. i + 1 \in 1..Len(s) /\ 1 \in 1..Len(s) /\ i + 1 # 1 /\ s[i + 1] = b
      BY <1>1, <1>2, <3>1
    <3> QED BY <1>1, <3>2 DEF IsList, OneNodeEach
  <2>2. ASSUME NEW b \in Linked(s), b # head PROVE b \in Linked(t)
    <3>1. PICK i \in 1..Len(s) : s[i] = b
      BY <1>1
    <3>2. i # 1
      BY <1>1, <2>2, <3>1
    <3>3. i - 1 \in 1..Len(t) /\ t[i - 1] = b
      BY <1>1, <1>2, <3>1, <3>2
    <3> QED BY <1>3, <3>3
  <2> QED BY <2>1, <2>2
<1>10. next[head] = NULL <=> t = <<>>
  BY <1>2, <1>8, ListFacts
<1>11. t # <<>> => t[Len(t)] = s[Len(s)]
  BY <1>1, <1>2, <1>4
<1> QED BY <1>1, <1>2, <1>8, <1>9, <1>10, <1>11 DEF t

\* A buffer is linked behind the last one.
LEMMA ListAppend ==
    ASSUME NEW next, NEW next2, NEW head, NEW s \in Seq(Blocks), IsList(next, head, s),
           NEW b \in Blocks, b \notin Linked(s), next2[b] = NULL,
           s # <<>> => next2[s[Len(s)]] = b,
           \A x \in Linked(s) : s # <<>> /\ x # s[Len(s)] => next2[x] = next[x]
    PROVE  /\ IsList(next2, IF s = <<>> THEN b ELSE head, Append(s, b))
           /\ Append(s, b) \in Seq(Blocks) /\ Append(s, b) # <<>> /\ Len(Append(s, b)) = Len(s) + 1
           /\ Append(s, b)[Len(s) + 1] = b /\ \A i \in 1..Len(s) : Append(s, b)[i] = s[i]
           /\ Linked(Append(s, b)) = Linked(s) \cup {b}
<1> DEFINE t == Append(s, b)
<1>1. /\ Len(s) \in Nat /\ \A i \in 1..Len(s) : s[i] \in Linked(s)
      /\ s = <<>> <=> Len(s) = 0
  BY ListFacts
<1>2. /\ t \in Seq(Blocks) /\ Len(t) = Len(s) + 1 /\ t[Len(s) + 1] = b
      /\ \A i \in 1..Len(s) : t[i] = s[i]
  BY AppendProperties
<1>3. OneNodeEach(t) /\ Linked(t) = Linked(s) \cup {b}
  BY AppendLinked DEF IsList
<1> HIDE DEF t
<1>4. t # <<>>
  BY <1>1, <1>2, EmptySeq
<1>5. ASSUME NEW i \in 1..Len(t) PROVE next2[t[i]] = IF i = Len(t) THEN NULL ELSE t[i + 1]
  <2>1. CASE i = Len(t)
    BY <1>2, <2>1
  <2>2. CASE i = Len(s)
    <3>1. s # <<>> /\ t[i] = s[Len(s)] /\ t[i + 1] = b /\ i # Len(t)
      BY <1>1, <1>2, <2>2
    <3> QED BY <3>1
  <2>3. CASE i # Len(s) /\ i # Len(t)
    <3>1. /\ i \in 1..Len(s) /\ i + 1 \in 1..Len(s) /\ t[i] = s[i] /\ t[i + 1] = s[i + 1]
          /\ Len(s) \in 1..Len(s) /\ s # <<>>
      BY <1>1, <1>2, <2>3
    <3>2. s[i] # s[Len(s)]
      BY <2>3, <3>1 DEF IsList, OneNodeEach
    <3>3. next2[s[i]] = next[s[i]]
      BY <1>1, <3>1, <3>2
    <3> QED BY <2>3, <3>1, <3>3 DEF IsList
  <2> QED BY <2>1, <2>2, <2>3
<1>6. t[1] = IF s = <<>> THEN b ELSE s[1]
  BY <1>1, <1>2
<1>7. IsList(next2, IF s = <<>> THEN b ELSE head, t)
  BY <1>3, <1>4, <1>5, <1>6 DEF IsList
<1> QED BY <1>2, <1>3, <1>4, <1>7 DEF t

\* A buffer is linked before the first one.
LEMMA ListPush ==
    ASSUME NEW next, NEW next2, NEW head, NEW s \in Seq(Blocks), IsList(next, head, s),
           NEW b \in Blocks, b \notin Linked(s), next2[b] = head,
           \A x \in Linked(s) : next2[x] = next[x]
    PROVE  /\ IsList(next2, b, <<b>> \o s)
           /\ <<b>> \o s \in Seq(Blocks) /\ Len(<<b>> \o s) = Len(s) + 1
           /\ Linked(<<b>> \o s) = Linked(s) \cup {b}
<1> DEFINE t == <<b>> \o s
<1>1. /\ Len(s) \in Nat /\ \A i \in 1..Len(s) : s[i] \in Linked(s)
      /\ s = <<>> <=> Len(s) = 0
      /\ \A x : x \in Linked(s) <=> \E i \in 1..Len(s) : s[i] = x
  BY ListFacts, LinkedAt
<1>2. /\ t \in Seq(Blocks) /\ Len(t) = Len(s) + 1 /\ t[1] = b
      /\ \A i \in 2..Len(t) : t[i] = s[i - 1]
  <2>1. <<b>> \in Seq(Blocks) /\ Len(<<b>>) = 1 /\ <<b>>[1] = b
    OBVIOUS
  <2>2. /\ t \in Seq(Blocks) /\ Len(t) = 1 + Len(s)
        /\ \A i \in 1..(1 + Len(s)) : t[i] = IF i <= 1 THEN <<b>>[i] ELSE s[i - 1]
    BY <2>1, ConcatProperties
  <2> HIDE DEF t
  <2> QED BY <1>1, <2>1, <2>2
<1> HIDE DEF t
<1>3. \A x : x \in Linked(t) <=> \E i \in 1..Len(t) : t[i] = x
  BY <1>2, LinkedBlocks
<1>4. Linked(t) = Linked(s) \cup {b}
  <2>1. ASSUME NEW x \in Linked(t) PROVE x \in Linked(s) \cup {b}
    <3>1. PICK i \in 1..Len(t) : t[i] = x
      BY <1>3
    <3>2. CASE i = 1
      BY <1>2, <3>1, <3>2
    <3>3. CASE i # 1
      <4>1. i \in 2..Len(t) /\ i - 1 \in 1..Len(s)
        BY <1>1, <1>2, <3>3
      <4> QED BY <1>1, <1>2, <3>1, <4>1
    <3> QED BY <3>2, <3>3
  <2>2. ASSUME NEW x \in Linked(s) PROVE x \in Linked(t)
    <3>1. PICK i \in 1..Len(s) : s[i] = x
      BY <1>1
    <3>2. i + 1 \in 2..Len(t) /\ i + 1 \in 1..Len(t) /\ (i + 1) - 1 = i
      BY <1>1, <1>2
    <3>3. t[i + 1] = x
      BY <1>2, <3>1, <3>2
    <3> QED BY <1>3, <3>2, <3>3
  <2>3. b \in Linked(t)
    <3>1. 1 \in 1..Len(t)
      BY <1>1, <1>2
    <3> QED BY <1>2, <1>3, <3>1
  <2> QED BY <2>1, <2>2, <2>3
<1>5. OneNodeEach(t)
  <2> SUFFICES ASSUME NEW i \in 1..Len(t), NEW j \in 1..Len(t), t[i] = t[j], i # j PROVE FALSE
    BY DEF OneNodeEach
  <2>1. CASE i = 1
    <3>1. j \in 2..Len(t) /\ j - 1 \in 1..Len(s) /\ t[j] = s[j - 1]
      BY <1>1, <1>2, <2>1
    <3> QED BY <1>1, <1>2, <2>1, <3>1
  <2>2. CASE j = 1
    <3>1. i \in 2..Len(t) /\ i - 1 \in 1..Len(s) /\ t[i] = s[i - 1]
      BY <1>1, <1>2, <2>2
    <3> QED BY <1>1, <1>2, <2>2, <3>1
  <2>3. CASE i # 1 /\ j # 1
    <3>1. /\ i - 1 \in 1..Len(s) /\ j - 1 \in 1..Len(s) /\ i - 1 # j - 1
          /\ t[i] = s[i - 1] /\ t[j] = s[j - 1]
      BY <1>1, <1>2, <2>3
    <3> QED BY <3>1 DEF IsList, OneNodeEach
  <2> QED BY <2>1, <2>2, <2>3
<1>6. ASSUME NEW i \in 1..Len(t) PROVE next2[t[i]] = IF i = Len(t) THEN NULL ELSE t[i + 1]
  <2>1. CASE i = 1
    <3>1. t[1] = b /\ next2[t[1]] = head
      BY <1>2
    <3>2. CASE s = <<>>
      BY <1>1, <1>2, <2>1, <3>1, <3>2 DEF IsList
    <3>3. CASE s # <<>>
      <4>1. Len(t) # 1 /\ 2 \in 2..Len(t) /\ t[2] = s[1]
        BY <1>1, <1>2, <3>3
      <4> QED BY <2>1, <3>1, <3>3, <4>1 DEF IsList
    <3> QED BY <3>2, <3>3
  <2>2. CASE i # 1
    <3>0. /\ i \in 2..Len(t) /\ i - 1 \in 1..Len(s) /\ (i = Len(t) <=> i - 1 = Len(s))
          /\ i # Len(t) => i + 1 \in 2..Len(t) /\ (i + 1) - 1 = (i - 1) + 1
      BY <1>1, <1>2, <2>2
    <3>1. /\ i - 1 \in 1..Len(s) /\ t[i] = s[i - 1] /\ (i = Len(t) <=> i - 1 = Len(s))
          /\ i # Len(t) => t[i + 1] = s[(i - 1) + 1]
      BY <1>2, <3>0
    <3>2. next2[t[i]] = next[s[i - 1]]
      BY <1>1, <3>1
    <3> QED BY <3>1, <3>2 DEF IsList
  <2> QED BY <2>1, <2>2
<1>7. t # <<>>
  BY <1>1, <1>2, EmptySeq
<1>8. IsList(next2, b, t)
  BY <1>2, <1>5, <1>6, <1>7 DEF IsList
<1> QED BY <1>2, <1>4, <1>8 DEF t

-----------------------------------------------------------------------------
(* Buffers change places *)

\* A buffer leaves the cache for the heap.
LEMMA ApartPop ==
    ASSUME NEW free, NEW q, NEW c, NEW d, NEW b, Apart(free, q, c), b \in Linked(c),
           Linked(d) = Linked(c) \ {b}
    PROVE  Apart(free \cup {b}, q, d) /\ b \notin free
  BY DEF Apart

\* A buffer goes from the heap to the cache.
LEMMA ApartPush ==
    ASSUME NEW free, NEW q, NEW c, NEW d, NEW b, Apart(free \cup {b}, q, c), b \notin free,
           Linked(d) = Linked(c) \cup {b}
    PROVE  Apart(free, q, d)
  BY DEF Apart

\* A buffer goes from the heap to the list of a port.
LEMMA ApartLink ==
    ASSUME NEW free, NEW q, NEW c, NEW b, NEW p \in Ports, NEW r, Apart(free \cup {b}, q, c), b \notin free,
           \A x \in Ports : Linked(r[x]) = IF x = p THEN Linked(q[p]) \cup {b} ELSE Linked(q[x])
    PROVE  Apart(free, r, c)
<1>1. /\ (free \cup {b}) \cap Linked(c) = {}
      /\ \A x \in Ports : Linked(q[x]) \cap (free \cup {b} \cup Linked(c)) = {}
      /\ \A x, y \in Ports : x # y => Linked(q[x]) \cap Linked(q[y]) = {}
      /\ \A z \in Blocks : z \in free \cup {b} \/ z \in Linked(c) \/ \E x \in Ports : z \in Linked(q[x])
  BY DEF Apart
<1>2. free \cap Linked(c) = {}
  BY <1>1
<1>3. ASSUME NEW x \in Ports PROVE Linked(r[x]) \cap (free \cup Linked(c)) = {}
  BY <1>1
<1>4. ASSUME NEW x \in Ports, NEW y \in Ports, x # y PROVE Linked(r[x]) \cap Linked(r[y]) = {}
  BY <1>1, <1>4
<1>5. ASSUME NEW z \in Blocks PROVE z \in free \/ z \in Linked(c) \/ \E x \in Ports : z \in Linked(r[x])
  <2>1. CASE z = b
    <3>1. z \in Linked(r[p])
      BY <2>1
    <3> QED BY <3>1
  <2>2. CASE \E x \in Ports : z \in Linked(q[x])
    BY <2>2
  <2> QED BY <1>1, <2>1, <2>2
<1> QED BY <1>2, <1>3, <1>4, <1>5 DEF Apart

\* A buffer leaves the list of a port for the heap.
LEMMA ApartUnlink ==
    ASSUME NEW free, NEW q, NEW c, NEW b, NEW p \in Ports, NEW r, Apart(free, q, c), b \in Linked(q[p]),
           \A x \in Ports : Linked(r[x]) = IF x = p THEN Linked(q[p]) \ {b} ELSE Linked(q[x])
    PROVE  Apart(free \cup {b}, r, c) /\ b \notin free
<1>1. /\ free \cap Linked(c) = {}
      /\ \A x \in Ports : Linked(q[x]) \cap (free \cup Linked(c)) = {}
      /\ \A x, y \in Ports : x # y => Linked(q[x]) \cap Linked(q[y]) = {}
      /\ \A z \in Blocks : z \in free \/ z \in Linked(c) \/ \E x \in Ports : z \in Linked(q[x])
  BY DEF Apart
<1>2. (free \cup {b}) \cap Linked(c) = {} /\ b \notin free
  BY <1>1
<1>3. ASSUME NEW x \in Ports PROVE Linked(r[x]) \cap (free \cup {b} \cup Linked(c)) = {}
  BY <1>1
<1>4. ASSUME NEW x \in Ports, NEW y \in Ports, x # y PROVE Linked(r[x]) \cap Linked(r[y]) = {}
  BY <1>1, <1>4
<1>5. ASSUME NEW z \in Blocks
      PROVE  z \in free \cup {b} \/ z \in Linked(c) \/ \E x \in Ports : z \in Linked(r[x])
  <2>1. CASE \E x \in Ports : z \in Linked(q[x])
    BY <2>1
  <2> QED BY <1>1, <2>1
<1> QED BY <1>2, <1>3, <1>4, <1>5 DEF Apart

\* alloc_message takes a buffer that is in no list and not in the heap any more.
LEMMA AllocStep ==
    ASSUME TypeOK, NEW q, NEW c, Listed(q, c), NEW b \in Blocks, NEW m,
           ~NoMemory(m), AllocMessage(b, m)
    PROVE  /\ \E d \in Seq(Blocks) : /\ IsList(m_Next, gk_FirstCachedMessage', d)
                                     /\ Len(d) = gk_CachedMessageCount'
                                     /\ Apart(heap' \cup {b}, q, d)
           /\ gk_CachedMessageCount' \in 0..MAX_CACHED_MESSAGE_COUNT
           /\ gk_FirstCachedMessage' \in Blocks \cup {NULL}
           /\ heap' \subseteq Blocks /\ b \notin heap'
<1> USE DEF TypeOK
<1>1. /\ c \in Seq(Blocks) /\ IsList(m_Next, gk_FirstCachedMessage, c) /\ Len(c) = gk_CachedMessageCount
      /\ Apart(heap, q, c)
  BY DEF Listed
<1>2. CASE FromCache(m)
  <2>1. /\ b = gk_FirstCachedMessage /\ gk_FirstCachedMessage' = m_Next[b]
        /\ gk_CachedMessageCount' = gk_CachedMessageCount - 1 /\ heap' = heap
        /\ gk_CachedMessageCount > 0
    BY <1>2 DEF AllocMessage, FromCache
  <2>2. c # <<>>
    BY <1>1, <2>1, ListFacts
  <2>3. /\ b \in Linked(c) /\ Tail(c) \in Seq(Blocks) /\ Len(Tail(c)) = Len(c) - 1
        /\ IsList(m_Next, m_Next[b], Tail(c)) /\ Linked(Tail(c)) = Linked(c) \ {b}
    BY <1>1, <2>1, <2>2, ListPop
  <2>4. Apart(heap \cup {b}, q, Tail(c)) /\ b \notin heap
    BY <1>1, <2>3, ApartPop
  <2>5. gk_CachedMessageCount' \in 0..MAX_CACHED_MESSAGE_COUNT
    BY <2>1
  <2>6. Len(Tail(c)) = gk_CachedMessageCount'
    BY <1>1, <2>1, <2>3
  <2>7. m_Next[b] \in Blocks \cup {NULL}
    OBVIOUS
  <2> QED BY <2>1, <2>3, <2>4, <2>5, <2>6, <2>7
<1>3. CASE ~FromCache(m)
  <2>1. /\ b \in heap /\ heap' = heap \ {b} /\ gk_FirstCachedMessage' = gk_FirstCachedMessage
        /\ gk_CachedMessageCount' = gk_CachedMessageCount
    BY <1>3 DEF AllocMessage, NoMemory
  <2>2. heap' \cup {b} = heap /\ b \notin heap' /\ heap' \subseteq Blocks
    BY <2>1
  <2>3. /\ IsList(m_Next, gk_FirstCachedMessage', c) /\ Len(c) = gk_CachedMessageCount'
        /\ Apart(heap' \cup {b}, q, c)
    BY <1>1, <2>1, <2>2, Zenon
  <2>4. /\ gk_CachedMessageCount' \in 0..MAX_CACHED_MESSAGE_COUNT
        /\ gk_FirstCachedMessage' \in Blocks \cup {NULL}
    BY <2>1
  <2> QED BY <1>1, <2>2, <2>3, <2>4
<1> QED BY <1>2, <1>3

\* free_message puts a buffer that is in no list into the cache or the heap.
LEMMA FreeStep ==
    ASSUME TypeOK, NEW q, NEW c \in Seq(Blocks), NEW b \in Blocks,
           IsList(m_Next, gk_FirstCachedMessage, c), Len(c) = gk_CachedMessageCount,
           Apart(heap \cup {b}, q, c), b \notin heap, FreeMessage(b)
    PROVE  /\ \E d \in Seq(Blocks) : /\ IsList(m_Next', gk_FirstCachedMessage', d)
                                     /\ Len(d) = gk_CachedMessageCount'
                                     /\ Apart(heap', q, d)
           /\ gk_CachedMessageCount' \in 0..MAX_CACHED_MESSAGE_COUNT
           /\ gk_FirstCachedMessage' \in Blocks \cup {NULL}
           /\ heap' \subseteq Blocks
           /\ m_Next' \in [Blocks -> Blocks \cup {NULL}]
           /\ content' \in [Blocks -> Messages \cup {NULL}]
           /\ \A x \in Blocks : x # b => m_Next'[x] = m_Next[x] /\ content'[x] = content[x]
<1> USE DEF TypeOK
<1>1. b \notin Linked(c) /\ Linked(c) \subseteq Blocks
  BY LinkedAt DEF Apart
<1>2. /\ content' \in [Blocks -> Messages \cup {NULL}]
      /\ \A x \in Blocks : x # b => content'[x] = content[x]
  BY DEF FreeMessage
<1>3. CASE ToCache(b)
  <2>1. /\ m_Next' = [m_Next EXCEPT ![b] = gk_FirstCachedMessage] /\ gk_FirstCachedMessage' = b
        /\ gk_CachedMessageCount' = gk_CachedMessageCount + 1 /\ heap' = heap
        /\ gk_CachedMessageCount < MAX_CACHED_MESSAGE_COUNT
    BY <1>3 DEF FreeMessage, ToCache
  <2>2. /\ m_Next' \in [Blocks -> Blocks \cup {NULL}] /\ m_Next'[b] = gk_FirstCachedMessage
        /\ \A x \in Blocks : x # b => m_Next'[x] = m_Next[x]
    BY <2>1
  <2> DEFINE next == m_Next'
             d == <<b>> \o c
  <2>3. next[b] = gk_FirstCachedMessage /\ \A x \in Linked(c) : next[x] = m_Next[x]
    BY <1>1, <2>2
  <2> HIDE DEF next
  <2>4. IsList(next, b, d) /\ d \in Seq(Blocks) /\ Len(d) = Len(c) + 1 /\ Linked(d) = Linked(c) \cup {b}
    BY <1>1, <2>3, ListPush
  <2> HIDE DEF d
  <2>5. Apart(heap, q, d)
    BY <2>4, ApartPush
  <2>6. gk_CachedMessageCount' \in 0..MAX_CACHED_MESSAGE_COUNT /\ Len(d) = gk_CachedMessageCount'
    BY <2>1, <2>4
  <2> QED BY <1>2, <2>1, <2>2, <2>4, <2>5, <2>6 DEF next
<1>4. CASE ~ToCache(b)
  <2>1. /\ m_Next' = [m_Next EXCEPT ![b] = NULL] /\ heap' = heap \cup {b}
        /\ gk_FirstCachedMessage' = gk_FirstCachedMessage
        /\ gk_CachedMessageCount' = gk_CachedMessageCount
    BY <1>4 DEF FreeMessage
  <2>2. /\ m_Next' \in [Blocks -> Blocks \cup {NULL}]
        /\ \A x \in Blocks : x # b => m_Next'[x] = m_Next[x]
    BY <2>1
  <2> DEFINE next == m_Next'
  <2>3. \A x \in Linked(c) : next[x] = m_Next[x]
    BY <1>1, <2>2
  <2> HIDE DEF next
  <2>4. IsList(next, gk_FirstCachedMessage, c)
    BY <2>3, ListKeep
  <2> QED BY <1>2, <2>1, <2>2, <2>4 DEF next
<1> QED BY <1>3, <1>4

-----------------------------------------------------------------------------
(* Steps that move a buffer *)

\* What the invariant says of one port.
LEMMA PortFacts ==
    ASSUME TypeOK, NEW q, NEW c, Listed(q, c), NEW p \in Ports
    PROVE  /\ q[p] \in Seq(Blocks) /\ Len(q[p]) \in Nat /\ Linked(q[p]) \subseteq Blocks
           /\ IsList(m_Next, m_FirstMsg[p], q[p]) /\ Len(q[p]) <= m_MaxCount[p]
           /\ q[p] = <<>> <=> Len(q[p]) = 0
           /\ \A b \in Linked(q[p]) : content[b] \in Messages
           /\ \A i \in 1..Len(q[p]) : q[p][i] \in Linked(q[p])
           /\ Alive(p) => /\ Len(q[p]) = m_MessageCount[p]
                          /\ m_LastMsg[p] = IF q[p] = <<>> THEN NULL ELSE q[p][Len(q[p])]
           /\ handle[p] = "gone" => q[p] = <<>>
           /\ q[p] = <<>> <=> m_FirstMsg[p] = NULL
<1>1. /\ q[p] \in Seq(Blocks) /\ IsList(m_Next, m_FirstMsg[p], q[p]) /\ Len(q[p]) <= m_MaxCount[p]
      /\ \A b \in Linked(q[p]) : content[b] \in Messages
      /\ Alive(p) => /\ Len(q[p]) = m_MessageCount[p]
                     /\ m_LastMsg[p] = IF q[p] = <<>> THEN NULL ELSE q[p][Len(q[p])]
      /\ handle[p] = "gone" => q[p] = <<>>
  BY DEF Listed, PortListed
<1>2. /\ Len(q[p]) \in Nat /\ Linked(q[p]) \subseteq Blocks
      /\ q[p] = <<>> <=> m_FirstMsg[p] = NULL
      /\ q[p] = <<>> <=> Len(q[p]) = 0
      /\ \A i \in 1..Len(q[p]) : q[p][i] \in Linked(q[p])
  BY <1>1, ListFacts
<1> QED BY <1>1, <1>2

\* A message is sent: its buffer is the new last one of the port.
LEMMA PutStep ==
    ASSUME TypeOK, NEW t \in Threads, NEW p \in Ports, Alive(p), NEW q, NEW c, Listed(q, c),
           ~Full(p), ~NoMemory(t), PutMessage(t, p)
    PROVE  /\ TypeOK'
           /\ \E b \in Blocks : \E d, r : /\ Listed(r, d)' /\ r = [q EXCEPT ![p] = Append(q[p], b)]
                                          /\ content' = [content EXCEPT ![b] = t]
                                          /\ \A x \in Ports : b \notin Linked(q[x])
<1> DEFINE s == q[p]
<1>1. PICK b \in Blocks :
        /\ AllocMessage(b, t) /\ content' = [content EXCEPT ![b] = t] /\ LinkLast(p, b)
        /\ m_MessageCount' = [m_MessageCount EXCEPT ![p] = @ + 1]
        /\ call' = [call EXCEPT ![t] = NoCall] /\ received' = NULL /\ handle' = handle
  BY DEF PutMessage, Return
<1>2. PICK d \in Seq(Blocks) :
        /\ IsList(m_Next, gk_FirstCachedMessage', d) /\ Len(d) = gk_CachedMessageCount'
        /\ Apart(heap' \cup {b}, q, d)
  BY <1>1, AllocStep
<1>3. /\ gk_CachedMessageCount' \in 0..MAX_CACHED_MESSAGE_COUNT /\ heap' \subseteq Blocks
      /\ gk_FirstCachedMessage' \in Blocks \cup {NULL} /\ b \notin heap'
  BY <1>1, AllocStep
<1>4. /\ \A x \in Ports : b \notin Linked(q[x]) /\ b \notin Linked(d)
      /\ \A x \in Ports : Linked(q[x]) \cap Linked(d) = {}
      /\ \A x, y \in Ports : x # y => Linked(q[x]) \cap Linked(q[y]) = {}
  BY <1>2 DEF Apart
<1>5. /\ s \in Seq(Blocks) /\ Len(s) \in Nat /\ Linked(s) \subseteq Blocks
      /\ IsList(m_Next, m_FirstMsg[p], s)
      /\ Len(s) = m_MessageCount[p] /\ (s = <<>> <=> m_FirstMsg[p] = NULL)
      /\ m_LastMsg[p] = IF s = <<>> THEN NULL ELSE s[Len(s)]
      /\ s # <<>> => s[Len(s)] \in Linked(s)
  <2>1. /\ s \in Seq(Blocks) /\ Len(s) \in Nat /\ Linked(s) \subseteq Blocks
        /\ IsList(m_Next, m_FirstMsg[p], s) /\ Len(s) = m_MessageCount[p]
        /\ s = <<>> <=> m_FirstMsg[p] = NULL
        /\ s = <<>> <=> Len(s) = 0
        /\ m_LastMsg[p] = IF s = <<>> THEN NULL ELSE s[Len(s)]
        /\ \A i \in 1..Len(s) : s[i] \in Linked(s)
    BY PortFacts
  <2> HIDE DEF s
  <2>2. s # <<>> => Len(s) \in 1..Len(s)
    BY <2>1
  <2> QED BY <2>1, <2>2
<1>6. /\ m_FirstMsg' = [m_FirstMsg EXCEPT ![p] = IF s = <<>> THEN b ELSE m_FirstMsg[p]]
      /\ m_LastMsg' = [m_LastMsg EXCEPT ![p] = b]
      /\ m_Next' \in [Blocks -> Blocks \cup {NULL}] /\ m_Next'[b] = NULL
      /\ s # <<>> => m_Next'[s[Len(s)]] = b
      /\ \A x \in Blocks : x # b /\ (s # <<>> => x # s[Len(s)]) => m_Next'[x] = m_Next[x]
  <2>1. CASE s = <<>>
    <3>1. m_LastMsg[p] = NULL
      BY <1>5, <2>1
    <3> QED BY <1>1, <2>1, <3>1 DEF LinkLast, TypeOK
  <2>2. CASE s # <<>>
    <3>1. s[Len(s)] \in Blocks /\ s[Len(s)] # b /\ m_LastMsg[p] = s[Len(s)] /\ m_LastMsg[p] # NULL
      BY <1>4, <1>5, <2>2
    <3> HIDE DEF s
    <3>2. /\ m_Next' = [m_Next EXCEPT ![b] = NULL, ![s[Len(s)]] = b] /\ m_FirstMsg' = m_FirstMsg
          /\ m_LastMsg' = [m_LastMsg EXCEPT ![p] = b]
      BY <1>1, <3>1 DEF LinkLast
    <3> QED BY <2>2, <3>1, <3>2 DEF TypeOK
  <2> QED BY <2>1, <2>2
<1> DEFINE next == m_Next'
           new == Append(s, b)
<1>7. /\ IsList(next, IF s = <<>> THEN b ELSE m_FirstMsg[p], new)
      /\ new \in Seq(Blocks) /\ new # <<>> /\ Len(new) = Len(s) + 1 /\ new[Len(s) + 1] = b
      /\ Linked(new) = Linked(s) \cup {b}
  <2>1. /\ next[b] = NULL /\ (s # <<>> => next[s[Len(s)]] = b) /\ b \notin Linked(s)
        /\ \A x \in Linked(s) : s # <<>> /\ x # s[Len(s)] => next[x] = m_Next[x]
    BY <1>4, <1>5, <1>6
  <2> DEFINE head == m_FirstMsg[p]
  <2>2. s \in Seq(Blocks) /\ IsList(m_Next, head, s)
    BY <1>5
  <2> HIDE DEF s, next, head
  <2>3. /\ IsList(next, IF s = <<>> THEN b ELSE head, Append(s, b))
        /\ Append(s, b) \in Seq(Blocks) /\ Append(s, b) # <<>> /\ Len(Append(s, b)) = Len(s) + 1
        /\ Append(s, b)[Len(s) + 1] = b /\ Linked(Append(s, b)) = Linked(s) \cup {b}
    BY <2>1, <2>2, ListAppend
  <2> QED BY <2>3 DEF head
<1>8. IsList(next, gk_FirstCachedMessage', d)
  <2> DEFINE first == gk_FirstCachedMessage'
  <2>1. \A x \in Linked(d) : next[x] = m_Next[x]
    <3>1. Linked(d) \subseteq Blocks
      BY LinkedAt
    <3> QED BY <1>4, <1>5, <1>6, <3>1
  <2>2. IsList(m_Next, first, d)
    BY <1>2
  <2> HIDE DEF next, first
  <2>3. IsList(next, first, d)
    BY <2>1, <2>2, ListKeep
  <2> QED BY <2>3 DEF first
<1>9. ASSUME NEW x \in Ports, x # p PROVE IsList(next, m_FirstMsg[x], q[x])
  <2>1. q[x] \in Seq(Blocks) /\ Linked(q[x]) \subseteq Blocks /\ IsList(m_Next, m_FirstMsg[x], q[x])
    BY PortFacts
  <2>2. \A y \in Linked(q[x]) : next[y] = m_Next[y]
    BY <1>4, <1>5, <1>6, <1>9, <2>1
  <2> HIDE DEF next
  <2> QED BY <2>1, <2>2, ListKeep
<1>10. PICK r : r = [q EXCEPT ![p] = new]
  OBVIOUS
<1>11. q \in [Ports -> Seq(Blocks)]
  BY DEF Listed
<1>12. r[p] = new /\ r \in [Ports -> Seq(Blocks)] /\ \A x \in Ports : x # p => r[x] = q[x]
  BY <1>7, <1>10, <1>11
<1>13. Apart(heap', r, d)
  <2>1. \A x \in Ports : Linked(r[x]) = IF x = p THEN Linked(q[p]) \cup {b} ELSE Linked(q[x])
    BY <1>7, <1>12
  <2> DEFINE free == heap'
  <2>2. Apart(free \cup {b}, q, d) /\ b \notin free
    BY <1>2, <1>3
  <2> HIDE DEF free
  <2>3. Apart(free, r, d)
    BY <2>1, <2>2, ApartLink
  <2> QED BY <2>3 DEF free
<1>14. ASSUME NEW x \in Ports PROVE PortListed(x, r[x])'
  <2>1. CASE x = p
    <3> HIDE DEF new, s
    <3>1. m_FirstMsg'[p] = (IF s = <<>> THEN b ELSE m_FirstMsg[p]) /\ m_LastMsg'[p] = b
      BY <1>6 DEF TypeOK
    <3>2. m_MessageCount'[p] = Len(s) + 1 /\ Len(new) <= m_MaxCount[p]
      BY <1>1, <1>5, <1>7 DEF TypeOK, Full
    <3>3. \A y \in Linked(new) : content'[y] \in Messages
      <4>1. \A y \in Linked(s) : content[y] \in Messages
        BY PortFacts DEF s
      <4> QED BY <1>1, <1>5, <1>7, <4>1 DEF TypeOK, Messages
    <3>4. new[Len(new)] = b
      BY <1>7
    <3>5. handle[p] # "gone" /\ handle' = handle
      BY <1>1 DEF Alive
    <3> QED BY <1>7, <1>12, <2>1, <3>1, <3>2, <3>3, <3>4, <3>5 DEF PortListed, next
  <2>2. CASE x # p
    <3>1. /\ m_FirstMsg'[x] = m_FirstMsg[x] /\ m_LastMsg'[x] = m_LastMsg[x]
          /\ m_MessageCount'[x] = m_MessageCount[x] /\ handle' = handle
      BY <1>1, <1>6, <2>2 DEF TypeOK
    <3>2. \A y \in Linked(q[x]) : content'[y] = content[y]
      BY <1>1, <1>4, PortFacts DEF TypeOK
    <3>3. IsList(next, m_FirstMsg[x], q[x])
      BY <1>9, <2>2
    <3>4. PortListed(x, q[x]) /\ r[x] = q[x]
      BY <1>12, <2>2 DEF Listed
    <3> QED BY <3>1, <3>2, <3>3, <3>4 DEF PortListed, Alive
  <2> QED BY <2>1, <2>2
<1>15. Listed(r, d)'
  <2>1. IsList(m_Next', gk_FirstCachedMessage', d)
    BY <1>8
  <2> QED BY <1>2, <1>12, <1>13, <1>14, <2>1 DEF Listed
<1>16. TypeOK'
  <2>1. m_FirstMsg' \in [Ports -> Blocks \cup {NULL}] /\ m_LastMsg' \in [Ports -> Blocks \cup {NULL}]
    <3> HIDE DEF s
    <3> QED BY <1>6 DEF TypeOK
  <2>2. /\ m_MessageCount' \in [Ports -> Nat] /\ content' \in [Blocks -> Messages \cup {NULL}]
        /\ call' \in [Threads -> Calls \cup {NoCall}]
    BY <1>1 DEF TypeOK, Messages
  <2>3. m_Next' \in [Blocks -> Blocks \cup {NULL}] /\ received' \in Messages \cup {NULL}
        /\ handle' \in [Ports -> {"open", "deleted", "dying", "gone"}]
    BY <1>1, <1>6 DEF TypeOK
  <2> QED BY <1>3, <2>1, <2>2, <2>3 DEF TypeOK
<1> QED BY <1>1, <1>4, <1>10, <1>15, <1>16

\* The first buffer of a port is unlinked and freed.
LEMMA TakeStep ==
    ASSUME TypeOK, NEW p \in Ports, NEW q, NEW c, Listed(q, c), m_FirstMsg[p] # NULL,
           m_FirstMsg' = [m_FirstMsg EXCEPT ![p] = m_Next[@]], FreeMessage(m_FirstMsg[p]), handle' = handle,
           \A x \in Ports : x # p => m_LastMsg'[x] = m_LastMsg[x] /\ m_MessageCount'[x] = m_MessageCount[x],
           Alive(p) => /\ m_MessageCount'[p] = m_MessageCount[p] - 1
                       /\ m_LastMsg'[p] = IF m_Next[m_FirstMsg[p]] = NULL THEN NULL ELSE m_LastMsg[p]
    PROVE  /\ \E d, r : Listed(r, d)' /\ r = [q EXCEPT ![p] = Tail(q[p])]
           /\ q[p] # <<>> /\ m_FirstMsg[p] = q[p][1]
           /\ \A x \in Blocks : x # m_FirstMsg[p] => content'[x] = content[x]
           /\ m_FirstMsg' \in [Ports -> Blocks \cup {NULL}]
           /\ gk_CachedMessageCount' \in 0..MAX_CACHED_MESSAGE_COUNT
           /\ gk_FirstCachedMessage' \in Blocks \cup {NULL}
           /\ heap' \subseteq Blocks
           /\ m_Next' \in [Blocks -> Blocks \cup {NULL}]
           /\ content' \in [Blocks -> Messages \cup {NULL}]
<1> DEFINE s == q[p]
           b == m_FirstMsg[p]
           new == Tail(s)
           next == m_Next'
<1>1. /\ s \in Seq(Blocks) /\ Len(s) \in Nat /\ Linked(s) \subseteq Blocks
      /\ IsList(m_Next, b, s) /\ s # <<>> /\ Len(s) <= m_MaxCount[p]
      /\ Alive(p) => /\ Len(s) = m_MessageCount[p]
                     /\ m_LastMsg[p] = IF s = <<>> THEN NULL ELSE s[Len(s)]
      /\ \A x \in Linked(s) : content[x] \in Messages
      /\ handle[p] = "gone" => s = <<>>
  BY PortFacts
<1>2. /\ b = s[1] /\ b \in Linked(s) /\ new \in Seq(Blocks) /\ Len(new) = Len(s) - 1
      /\ IsList(m_Next, m_Next[b], new) /\ Linked(new) = Linked(s) \ {b}
      /\ m_Next[b] = NULL <=> new = <<>>
      /\ new # <<>> => new[Len(new)] = s[Len(s)]
  <2> HIDE DEF s, b
  <2> QED BY <1>1, ListPop DEF new
<1>3. b \in Blocks
  BY <1>1, <1>2
<1>4. /\ q \in [Ports -> Seq(Blocks)] /\ c \in Seq(Blocks) /\ IsList(m_Next, gk_FirstCachedMessage, c)
      /\ Len(c) = gk_CachedMessageCount /\ Apart(heap, q, c)
  BY DEF Listed
<1>5. PICK r : r = [q EXCEPT ![p] = new]
  OBVIOUS
<1>6. r[p] = new /\ r \in [Ports -> Seq(Blocks)] /\ \A x \in Ports : x # p => r[x] = q[x]
  BY <1>2, <1>4, <1>5
<1>7. Apart(heap \cup {b}, r, c) /\ b \notin heap
  <2>1. \A x \in Ports : Linked(r[x]) = IF x = p THEN Linked(q[p]) \ {b} ELSE Linked(q[x])
    BY <1>2, <1>6
  <2>2. b \in Linked(q[p])
    BY <1>2
  <2>3. Apart(heap, q, c)
    BY <1>4
  <2> HIDE DEF b
  <2>4. p \in Ports
    OBVIOUS
  <2> QED BY ONLY <2>1, <2>2, <2>3, <2>4, ApartUnlink
<1>8. /\ FreeMessage(b) /\ b \in Blocks /\ b \notin heap /\ c \in Seq(Blocks)
      /\ IsList(m_Next, gk_FirstCachedMessage, c) /\ Len(c) = gk_CachedMessageCount
      /\ Apart(heap \cup {b}, r, c)
  BY <1>3, <1>4, <1>7
<1> HIDE DEF b
<1>9. PICK d \in Seq(Blocks) :
        /\ IsList(m_Next', gk_FirstCachedMessage', d) /\ Len(d) = gk_CachedMessageCount'
        /\ Apart(heap', r, d)
  BY <1>8, FreeStep
<1>10. /\ gk_CachedMessageCount' \in 0..MAX_CACHED_MESSAGE_COUNT
       /\ gk_FirstCachedMessage' \in Blocks \cup {NULL}
       /\ heap' \subseteq Blocks
       /\ m_Next' \in [Blocks -> Blocks \cup {NULL}]
       /\ content' \in [Blocks -> Messages \cup {NULL}]
       /\ \A x \in Blocks : x # b => m_Next'[x] = m_Next[x] /\ content'[x] = content[x]
  <2>1. TypeOK
    OBVIOUS
  <2> QED BY ONLY <1>8, <2>1, FreeStep
<1>11. m_FirstMsg'[p] = m_Next[b] /\ \A x \in Ports : x # p => m_FirstMsg'[x] = m_FirstMsg[x]
  BY DEF TypeOK, b
<1>12. IsList(next, m_Next[b], new)
  <2> DEFINE head == m_Next[b]
  <2>1. \A x \in Linked(new) : next[x] = m_Next[x]
    BY <1>1, <1>2, <1>10
  <2>2. IsList(m_Next, head, new) /\ new \in Seq(Blocks)
    BY <1>2
  <2> HIDE DEF next, new, head
  <2>3. IsList(next, head, new)
    BY <2>1, <2>2, ListKeep
  <2> QED BY <2>3 DEF head
<1>13. ASSUME NEW x \in Ports, x # p
       PROVE  IsList(next, m_FirstMsg[x], q[x]) /\ \A y \in Linked(q[x]) : content'[y] = content[y]
  <2>1. q[x] \in Seq(Blocks) /\ Linked(q[x]) \subseteq Blocks /\ IsList(m_Next, m_FirstMsg[x], q[x])
    BY PortFacts
  <2>2. b \notin Linked(q[x])
    BY <1>2, <1>4, <1>13 DEF Apart
  <2>3. \A y \in Linked(q[x]) : next[y] = m_Next[y] /\ content'[y] = content[y]
    BY <1>10, <2>1, <2>2
  <2> HIDE DEF next
  <2> QED BY <2>1, <2>3, ListKeep
<1>14. ASSUME NEW x \in Ports PROVE PortListed(x, r[x])'
  <2>1. CASE x = p
    <3>1. Len(new) <= m_MaxCount[p]
      BY <1>1, <1>2
    <3>2. Alive(p)' => /\ Len(new) = m_MessageCount'[p]
                       /\ m_LastMsg'[p] = IF new = <<>> THEN NULL ELSE new[Len(new)]
      <4> SUFFICES ASSUME Alive(p)' PROVE /\ Len(new) = m_MessageCount'[p]
                                          /\ m_LastMsg'[p] = IF new = <<>> THEN NULL ELSE new[Len(new)]
        OBVIOUS
      <4>1. Alive(p)
        BY DEF Alive
      <4>2. m_MessageCount'[p] = m_MessageCount[p] - 1 /\ m_LastMsg'[p] = IF m_Next[b] = NULL THEN NULL ELSE m_LastMsg[p]
        BY <4>1 DEF b
      <4> HIDE DEF new, s
      <4> QED BY <1>1, <1>2, <4>1, <4>2
    <3>3. handle'[p] # "gone"
      BY <1>1
    <3>4. \A y \in Linked(new) : content'[y] \in Messages
      BY <1>1, <1>2, <1>10
    <3> HIDE DEF new
    <3> QED BY <1>6, <1>11, <1>12, <2>1, <3>1, <3>2, <3>3, <3>4 DEF PortListed, next
  <2>2. CASE x # p
    <3>1. /\ m_FirstMsg'[x] = m_FirstMsg[x] /\ m_LastMsg'[x] = m_LastMsg[x]
          /\ m_MessageCount'[x] = m_MessageCount[x] /\ handle' = handle
      BY <1>11, <2>2
    <3>2. IsList(next, m_FirstMsg[x], q[x]) /\ \A y \in Linked(q[x]) : content'[y] = content[y]
      BY <1>13, <2>2
    <3>3. PortListed(x, q[x]) /\ r[x] = q[x]
      BY <1>6, <2>2 DEF Listed
    <3> QED BY <3>1, <3>2, <3>3 DEF PortListed, Alive
  <2> QED BY <2>1, <2>2
<1>15. Listed(r, d)'
  BY <1>6, <1>9, <1>14 DEF Listed
<1>16. m_FirstMsg' \in [Ports -> Blocks \cup {NULL}]
  <2>1. m_Next[b] \in Blocks \cup {NULL}
    BY <1>3 DEF TypeOK
  <2> QED BY <2>1 DEF TypeOK, b
<1> QED BY <1>1, <1>2, <1>5, <1>10, <1>15, <1>16 DEF b

-----------------------------------------------------------------------------
(* The other parts of the invariant *)

\* The lists are not touched, and a port goes on only along its life.
LEMMA ListsKeep ==
    ASSUME TypeOK, NEW q, NEW c, Listed(q, c), UNCHANGED <<queueVars, m_Next, content, cacheVars>>,
           \A p \in Ports : \/ handle'[p] = handle[p]
                            \/ Alive(p) /\ handle'[p] \in {"deleted", "dying"}
                            \/ handle'[p] = "gone" /\ m_FirstMsg[p] = NULL
    PROVE  Listed(q, c)'
<1>1. ASSUME NEW p \in Ports PROVE PortListed(p, q[p])'
  <2>1. PortListed(p, q[p])
    BY DEF Listed
  <2>2. Alive(p)' => Alive(p)
    BY DEF Alive
  <2>3. handle'[p] = "gone" => q[p] = <<>>
    BY PortFacts
  <2>4. m_Next' = m_Next /\ m_FirstMsg' = m_FirstMsg /\ content' = content
        /\ m_MessageCount' = m_MessageCount /\ m_LastMsg' = m_LastMsg
    BY DEF queueVars
  <2> QED BY <2>1, <2>2, <2>3, <2>4 DEF PortListed
<1>2. /\ m_Next' = m_Next /\ gk_FirstCachedMessage' = gk_FirstCachedMessage
      /\ gk_CachedMessageCount' = gk_CachedMessageCount /\ heap' = heap
  BY DEF cacheVars
<1> QED BY <1>1, <1>2 DEF Listed

\* Whoever is queued may stay, whoever comes has to wait, and the count is the same.
LEMMA WaitKeep ==
    ASSUME WaitInv, m_MessageCount' = m_MessageCount,
           m_SendCondition' \in [Ports -> Seq(Threads \cup Listeners)],
           m_ReceiveCondition' \in [Ports -> Seq(Threads \cup Listeners)],
           \A p \in Ports :
              /\ Alive(p)' => Alive(p)
              /\ handle'[p] = "gone" => handle[p] = "gone"
              /\ \/ m_SendCondition'[p] = <<>> \/ m_SendCondition[p] # <<>>
                 \/ Alive(p) /\ Full(p)
              /\ \/ m_ReceiveCondition'[p] = <<>> \/ m_ReceiveCondition[p] # <<>>
                 \/ Alive(p) /\ m_MessageCount[p] = 0
    PROVE  WaitInv'
<1>1. WaitersMustWait'
  BY DEF WaitInv, WaitersMustWait, Alive, Full
<1>2. ASSUME NEW p \in Ports, handle'[p] = "gone"
      PROVE  m_SendCondition'[p] = <<>> /\ m_ReceiveCondition'[p] = <<>>
  BY <1>2 DEF WaitInv, Alive
<1> QED BY <1>1, <1>2 DEF WaitInv

\* A call is not the absence of one.
LEMMA CallFacts ==
    ASSUME NEW c \in Calls
    PROVE  /\ c # NoCall /\ c.port \in Ports /\ c.op \in {"send", "receive"} /\ c.deadline \in Deadlines
  BY DEF Calls, NoCall

\* The empty state satisfies the invariant.
LEMMA InitIInv == Init => IInv
<1> SUFFICES ASSUME Init PROVE IInv
  OBVIOUS
<1> USE DEF Init
<1>1. TypeOK
  BY DEF TypeOK
<1>2. ListInv
  <2> DEFINE q == [p \in Ports |-> <<>>]
  <2>1. IsList(m_Next, NULL, <<>>)
    BY EmptyLinked DEF IsList
  <2>2. Apart(heap, q, <<>>)
    BY EmptyLinked DEF Apart
  <2>3. \A p \in Ports : PortListed(p, q[p])
    BY <2>1, EmptyLinked DEF PortListed
  <2>4. q \in [Ports -> Seq(Blocks)] /\ <<>> \in Seq(Blocks) /\ Len(<<>>) = 0
    OBVIOUS
  <2> HIDE DEF q
  <2>5. Listed(q, <<>>)
    BY <2>1, <2>2, <2>3, <2>4 DEF Listed
  <2> QED BY <2>5 DEF ListInv
<1>3. CallInv
  BY DEF CallInv
<1>4. WaitInv
  <2>1. /\ m_SendCondition \in [Ports -> Seq(Threads \cup Listeners)]
        /\ m_ReceiveCondition \in [Ports -> Seq(Threads \cup Listeners)]
    OBVIOUS
  <2> QED BY <2>1 DEF WaitInv, WaitersMustWait
<1> QED BY <1>1, <1>2, <1>3, <1>4 DEF IInv

-----------------------------------------------------------------------------
(* Every step keeps the invariant *)

\* What a step does to the lists q of the ports, which become r: a message is sent, one is
\* received, the destructor drops one, or they stay and at most one port ends or begins.
Sent(q, r) ==
    \E p \in Ports, t \in Threads, b \in Blocks :
        /\ Alive(p) /\ ~Full(p) /\ handle' = handle /\ received' = NULL
        /\ r = [q EXCEPT ![p] = Append(q[p], b)]
        /\ content' = [content EXCEPT ![b] = t]
        /\ \A x \in Ports : b \notin Linked(q[x])

Dropped(p, q, r) ==
    /\ handle' = handle /\ q[p] # <<>> /\ r = [q EXCEPT ![p] = Tail(q[p])]
    /\ \A x \in Blocks : x # q[p][1] => content'[x] = content[x]

Received(q, r) ==
    \E p \in Ports : Alive(p) /\ Dropped(p, q, r) /\ received' = content[q[p][1]]

Freed(q, r) ==
    \E p \in Ports : ~Alive(p) /\ Dropped(p, q, r) /\ received' = NULL

Quiet(q, r) ==
    /\ r = q /\ content' = content /\ received' = NULL
    /\ \A p \in Ports : Alive(p)' = Alive(p) \/ q[p] = <<>>

Ended(q, r) ==
    /\ r = q /\ content' = content /\ received' = NULL
    /\ \E p \in Ports : ~Alive(p)' /\ \A x \in Ports \ {p} : Alive(x)' = Alive(x)

Moved(q, r) == Sent(q, r) \/ Received(q, r) \/ Freed(q, r) \/ Quiet(q, r) \/ Ended(q, r)

Stepped(q) == /\ TypeOK' /\ CallInv' /\ WaitInv'
              /\ \E r, d : Listed(r, d)' /\ Moved(q, r)

\* A step that touches neither lists nor ports.
LEMMA QuietStep ==
    ASSUME IInv, NEW q, NEW c, Listed(q, c), UNCHANGED <<queueVars, m_Next, content, cacheVars, handle>>,
           call' \in [Threads -> Calls \cup {NoCall}], received' = NULL, CallInv', WaitInv'
    PROVE  Stepped(q)
<1>1. Listed(q, c)'
  BY ListsKeep DEF IInv
<1>2. Quiet(q, q)
  BY DEF Quiet, Alive
<1>3. TypeOK'
  BY DEF IInv, TypeOK, queueVars, cacheVars
<1> QED BY <1>1, <1>2, <1>3 DEF Stepped, Moved

\* A call that goes to sleep has its node in a queue it belongs to.
LEMMA SleepStep ==
    ASSUME IInv, NEW q, NEW c, Listed(q, c), NEW t \in Threads, NEW k \in Calls, Alive(k.port),
           call' = [call EXCEPT ![t] = k], received' = NULL,
           UNCHANGED <<queueVars, m_Next, content, cacheVars, handle>>,
           \/ /\ Full(k.port) /\ UNCHANGED m_ReceiveCondition
              /\ m_SendCondition' = [m_SendCondition EXCEPT ![k.port] = Append(@, t)]
           \/ /\ m_MessageCount[k.port] = 0 /\ UNCHANGED m_SendCondition
              /\ m_ReceiveCondition' = [m_ReceiveCondition EXCEPT ![k.port] = Append(@, t)]
    PROVE  Stepped(q)
<1>1. k.port \in Ports
  BY CallFacts
<1>2. CallInv'
  BY <1>1 DEF IInv, CallInv, TypeOK, Alive
<1>3. m_SendCondition[k.port] \in Seq(Threads \cup Listeners) /\ m_ReceiveCondition[k.port] \in Seq(Threads \cup Listeners)
  BY <1>1 DEF IInv, WaitInv
<1>4. /\ Append(m_SendCondition[k.port], t) \in Seq(Threads \cup Listeners)
      /\ Append(m_ReceiveCondition[k.port], t) \in Seq(Threads \cup Listeners)
  BY <1>3
<1>5. /\ m_SendCondition' \in [Ports -> Seq(Threads \cup Listeners)]
      /\ m_ReceiveCondition' \in [Ports -> Seq(Threads \cup Listeners)]
      /\ \A p \in Ports : p # k.port => /\ m_SendCondition'[p] = m_SendCondition[p]
                                        /\ m_ReceiveCondition'[p] = m_ReceiveCondition[p]
      /\ m_SendCondition'[k.port] = m_SendCondition[k.port] \/ Full(k.port)
      /\ m_ReceiveCondition'[k.port] = m_ReceiveCondition[k.port] \/ m_MessageCount[k.port] = 0
  BY <1>1, <1>4 DEF IInv, WaitInv
<1>6. WaitInv'
  <2>1. /\ WaitInv /\ m_MessageCount' = m_MessageCount
        /\ \A p \in Ports : (Alive(p)' => Alive(p)) /\ (handle'[p] = "gone" => handle[p] = "gone")
    BY DEF IInv, queueVars, Alive
  <2>2. ASSUME NEW p \in Ports
        PROVE  /\ m_SendCondition'[p] = <<>> \/ m_SendCondition[p] # <<>> \/ (Alive(p) /\ Full(p))
               /\ \/ m_ReceiveCondition'[p] = <<>> \/ m_ReceiveCondition[p] # <<>>
                  \/ Alive(p) /\ m_MessageCount[p] = 0
    BY <1>5
  <2> QED BY <1>5, <2>1, <2>2, WaitKeep
<1>7. call' \in [Threads -> Calls \cup {NoCall}]
  BY DEF IInv, TypeOK
<1> QED BY <1>2, <1>6, <1>7, QuietStep

\* A call that returns leaves the other calls alone.
LEMMA ReturnCalls ==
    ASSUME IInv, NEW t \in Threads, NEW message, Return(t, message),
           \A p \in Ports : Alive(p) => Alive(p)'
    PROVE  CallInv' /\ call' \in [Threads -> Calls \cup {NoCall}] /\ received' = message
<1>1. call' = [call EXCEPT ![t] = NoCall] /\ received' = message
  BY DEF Return
<1>2. call' \in [Threads -> Calls \cup {NoCall}]
  BY <1>1 DEF IInv, TypeOK
<1>3. ASSUME NEW u \in Threads, call'[u] # NoCall PROVE Alive(call[u].port)'
  <2>1. call'[u] = call[u] /\ call[u] \in Calls
    BY <1>1, <1>3 DEF IInv, TypeOK
  <2>2. call[u].port \in Ports /\ Alive(call[u].port)
    BY <1>3, <2>1, CallFacts DEF IInv, CallInv
  <2> QED BY <2>1, <2>2 DEF Alive
<1> QED BY <1>1, <1>2, <1>3 DEF CallInv

\* NOMEM or TIMEDOUT.
LEMMA GiveUpStep ==
    ASSUME IInv, NEW q, NEW c, Listed(q, c), NEW t \in Threads, GiveUp(t)
    PROVE  Stepped(q)
<1>1. Return(t, NULL) /\ UNCHANGED <<queueVars, waitVars, m_Next, content, cacheVars, handle>>
  BY DEF GiveUp
<1>2. CallInv' /\ call' \in [Threads -> Calls \cup {NoCall}] /\ received' = NULL
  BY <1>1, ReturnCalls DEF Alive
<1>3. WaitInv'
  BY <1>1 DEF IInv, WaitInv, WaitersMustWait, Full, waitVars, queueVars
<1> QED BY <1>1, <1>2, <1>3, QuietStep

\* Everybody in a queue is woken.
LEMMA WakeupAllEmpties ==
    ASSUME IInv, NEW p \in Ports
    PROVE  WakeupAll(m_SendCondition[p]) = <<>> /\ WakeupAll(m_ReceiveCondition[p]) = <<>>
<1>1. m_SendCondition[p] \in Seq(Threads \cup Listeners) /\ m_ReceiveCondition[p] \in Seq(Threads \cup Listeners)
  BY DEF IInv, WaitInv
<1> QED BY <1>1, QueueTypes DEF WakeupAll

\* A send that finds room and memory.
LEMMA SendStep ==
    ASSUME IInv, NEW q, NEW c, Listed(q, c), NEW t \in Threads, NEW p \in Ports, Alive(p),
           ~Full(p), ~NoMemory(t), PutMessage(t, p)
    PROVE  Stepped(q)
<1>1. /\ Return(t, NULL) /\ handle' = handle /\ m_SendCondition' = m_SendCondition
      /\ m_MessageCount' = [m_MessageCount EXCEPT ![p] = @ + 1]
      /\ m_ReceiveCondition' = [m_ReceiveCondition EXCEPT ![p] = <<>>]
  BY WakeupAllEmpties DEF PutMessage
<1>2. CallInv' /\ received' = NULL
  BY <1>1, ReturnCalls DEF Alive
<1>3. WaitInv'
  <2>1. m_MessageCount[p] \in Nat /\ m_MaxCount[p] \in Nat /\ handle[p] # "gone"
    BY DEF IInv, TypeOK, Alive
  <2>2. /\ m_SendCondition' \in [Ports -> Seq(Threads \cup Listeners)]
        /\ m_ReceiveCondition' \in [Ports -> Seq(Threads \cup Listeners)]
    <3>1. <<>> \in Seq(Threads \cup Listeners)
      OBVIOUS
    <3> QED BY <1>1, <3>1 DEF IInv, WaitInv
  <2>3. ASSUME NEW x \in Ports
        PROVE  /\ m_SendCondition'[x] = m_SendCondition[x] /\ (Full(x) => Full(x)')
               /\ m_ReceiveCondition'[x] = <<>> \/ (/\ m_ReceiveCondition'[x] = m_ReceiveCondition[x]
                                                    /\ m_MessageCount'[x] = m_MessageCount[x])
    BY <1>1, <2>1 DEF IInv, WaitInv, TypeOK, Full
  <2>4. WaitersMustWait'
    BY <1>1, <2>3 DEF IInv, WaitInv, WaitersMustWait
  <2> QED BY <1>1, <2>1, <2>2, <2>3, <2>4 DEF IInv, WaitInv
<1>4. /\ TypeOK'
      /\ \E b \in Blocks : \E d, r : /\ Listed(r, d)' /\ r = [q EXCEPT ![p] = Append(q[p], b)]
                                     /\ content' = [content EXCEPT ![b] = t]
                                     /\ \A x \in Ports : b \notin Linked(q[x])
  BY PutStep DEF IInv
<1>5. \E r, d : Listed(r, d)' /\ Sent(q, r)
  BY <1>1, <1>2, <1>4 DEF Sent
<1> QED BY <1>2, <1>3, <1>4, <1>5 DEF Stepped, Moved

\* A receive that finds a message.
LEMMA ReceiveStep ==
    ASSUME IInv, NEW q, NEW c, Listed(q, c), NEW t \in Threads, NEW p \in Ports, Alive(p),
           m_MessageCount[p] > 0, DetachMessage(t, p)
    PROVE  Stepped(q)
<1> DEFINE b == m_FirstMsg[p]
<1>1. /\ UnlinkFirst(p) /\ handle' = handle /\ m_ReceiveCondition' = m_ReceiveCondition
      /\ m_MessageCount' = [m_MessageCount EXCEPT ![p] = @ - 1]
      /\ m_SendCondition' = [m_SendCondition EXCEPT ![p] = <<>>]
      /\ Return(t, content[b]) /\ FreeMessage(b)
  BY WakeupAllEmpties DEF DetachMessage, WakeSenders
<1>2. CallInv' /\ received' = content[b] /\ call' \in [Threads -> Calls \cup {NoCall}]
  BY <1>1, ReturnCalls DEF Alive
<1>3. WaitInv'
  <2>1. handle[p] # "gone"
    BY DEF Alive
  <2>2. /\ m_SendCondition' \in [Ports -> Seq(Threads \cup Listeners)]
        /\ m_ReceiveCondition' \in [Ports -> Seq(Threads \cup Listeners)]
    <3>1. <<>> \in Seq(Threads \cup Listeners)
      OBVIOUS
    <3> QED BY <1>1, <3>1 DEF IInv, WaitInv
  <2>3. ASSUME NEW x \in Ports
        PROVE  \/ x = p /\ m_SendCondition'[x] = <<>> /\ m_ReceiveCondition'[x] = <<>>
               \/ /\ m_SendCondition'[x] = m_SendCondition[x] /\ m_MessageCount'[x] = m_MessageCount[x]
                  /\ m_ReceiveCondition'[x] = m_ReceiveCondition[x]
    BY <1>1 DEF IInv, WaitInv, WaitersMustWait, TypeOK, Alive
  <2>4. WaitersMustWait'
    BY <1>1, <2>3 DEF IInv, WaitInv, WaitersMustWait, Full
  <2> QED BY <1>1, <2>1, <2>2, <2>3, <2>4 DEF IInv, WaitInv
<1>4. m_FirstMsg[p] # NULL
  BY PortFacts DEF IInv
<1>5. /\ m_FirstMsg' = [m_FirstMsg EXCEPT ![p] = m_Next[@]]
      /\ m_LastMsg' = IF m_Next[b] = NULL THEN [m_LastMsg EXCEPT ![p] = NULL] ELSE m_LastMsg
  BY <1>1 DEF UnlinkFirst
<1>6. /\ \A x \in Ports : x # p => m_LastMsg'[x] = m_LastMsg[x] /\ m_MessageCount'[x] = m_MessageCount[x]
      /\ m_MessageCount'[p] = m_MessageCount[p] - 1
      /\ m_LastMsg'[p] = IF m_Next[b] = NULL THEN NULL ELSE m_LastMsg[p]
  BY <1>1, <1>5 DEF IInv, TypeOK
<1>7. /\ \E d, r : Listed(r, d)' /\ r = [q EXCEPT ![p] = Tail(q[p])]
      /\ q[p] # <<>> /\ m_FirstMsg[p] = q[p][1]
      /\ \A x \in Blocks : x # m_FirstMsg[p] => content'[x] = content[x]
      /\ m_FirstMsg' \in [Ports -> Blocks \cup {NULL}]
      /\ gk_CachedMessageCount' \in 0..MAX_CACHED_MESSAGE_COUNT
      /\ gk_FirstCachedMessage' \in Blocks \cup {NULL}
      /\ heap' \subseteq Blocks
      /\ m_Next' \in [Blocks -> Blocks \cup {NULL}]
      /\ content' \in [Blocks -> Messages \cup {NULL}]
  BY <1>1, <1>4, <1>5, <1>6, TakeStep DEF IInv
<1>8. TypeOK'
  <2>1. m_MessageCount[p] - 1 \in Nat /\ m_FirstMsg[p] \in Blocks
    BY <1>4 DEF IInv, TypeOK
  <2>2. /\ m_MessageCount' \in [Ports -> Nat] /\ m_LastMsg' \in [Ports -> Blocks \cup {NULL}]
        /\ received' \in Messages \cup {NULL} /\ handle' \in [Ports -> {"open", "deleted", "dying", "gone"}]
    BY <1>1, <1>2, <1>5, <2>1 DEF IInv, TypeOK
  <2> QED BY <1>2, <1>7, <2>2 DEF TypeOK
<1>9. \E r, d : Listed(r, d)' /\ Received(q, r)
  BY <1>1, <1>2, <1>7 DEF Received, Dropped
<1> QED BY <1>2, <1>3, <1>8, <1>9 DEF Stepped, Moved

\* One turn of the loop of a send or a receive.
LEMMA LoopStep ==
    ASSUME IInv, NEW q, NEW c, Listed(q, c), NEW t \in Threads, NEW k \in Calls, Alive(k.port), Loop(t, k)
    PROVE  Stepped(q)
<1>0. k.port \in Ports /\ m_MessageCount[k.port] \in Nat
  BY CallFacts DEF IInv, TypeOK
<1>1. CASE SendLoop(t, k)
  <2>1. CASE /\ Full(k.port) /\ k.deadline # "passed"
             /\ m_SendCondition' = [m_SendCondition EXCEPT ![k.port] = Append(@, t)]
             /\ call' = [call EXCEPT ![t] = k]
             /\ received' = NULL
             /\ UNCHANGED <<queueVars, m_ReceiveCondition, m_Next, content, cacheVars, handle>>
    BY <2>1, SleepStep
  <2>2. CASE ~Full(k.port) /\ ~NoMemory(t) /\ PutMessage(t, k.port)
    BY <1>0, <2>2, SendStep
  <2>3. CASE GiveUp(t)
    BY <2>3, GiveUpStep
  <2> QED BY <1>1, <2>1, <2>2, <2>3 DEF SendLoop
<1>2. CASE ReceiveLoop(t, k)
  <2>1. CASE m_MessageCount[k.port] > 0 /\ DetachMessage(t, k.port)
    BY <1>0, <2>1, ReceiveStep
  <2>2. CASE GiveUp(t)
    BY <2>2, GiveUpStep
  <2>3. CASE /\ m_MessageCount[k.port] = 0
             /\ m_ReceiveCondition' = [m_ReceiveCondition EXCEPT ![k.port] = Append(@, t)]
             /\ call' = [call EXCEPT ![t] = k]
             /\ received' = NULL
             /\ UNCHANGED <<queueVars, m_SendCondition, m_Next, content, cacheVars, handle>>
    BY <2>3, SleepStep
  <2> QED BY <1>0, <1>2, <2>1, <2>2, <2>3 DEF ReceiveLoop
<1> QED BY <1>1, <1>2 DEF Loop

\* Nodes are only unlinked, or one that has to wait is linked.
LEMMA NodeStep ==
    ASSUME IInv, NEW q, NEW c, Listed(q, c), UNCHANGED <<queueVars, m_Next, content, cacheVars, handle>>,
           CallInv', call' \in [Threads -> Calls \cup {NoCall}], received' = NULL,
           m_SendCondition' \in [Ports -> Seq(Threads \cup Listeners)],
           m_ReceiveCondition' \in [Ports -> Seq(Threads \cup Listeners)],
           \A p \in Ports :
              /\ \/ m_SendCondition'[p] = <<>> \/ m_SendCondition[p] # <<>>
                 \/ Alive(p) /\ Full(p)
              /\ \/ m_ReceiveCondition'[p] = <<>> \/ m_ReceiveCondition[p] # <<>>
                 \/ Alive(p) /\ m_MessageCount[p] = 0
    PROVE  Stepped(q)
<1>1. /\ WaitInv /\ m_MessageCount' = m_MessageCount
      /\ \A p \in Ports : (Alive(p)' => Alive(p)) /\ (handle'[p] = "gone" => handle[p] = "gone")
  BY DEF IInv, queueVars, Alive
<1>2. WaitInv'
  BY <1>1, WaitKeep
<1> QED BY <1>2, QuietStep

\* The clock passes a deadline; a timed wait ends.
LEMMA TimeStep ==
    ASSUME IInv, NEW q, NEW c, Listed(q, c), NEW t \in Threads, DeadlinePasses(t) \/ Expire(t)
    PROVE  Stepped(q)
<1>0. \A p \in Ports : /\ m_SendCondition[p] \in Seq(Threads \cup Listeners)
                       /\ m_ReceiveCondition[p] \in Seq(Threads \cup Listeners)
  BY DEF IInv, WaitInv
<1>1. CASE DeadlinePasses(t)
  <2>1. /\ call[t] # NoCall /\ call' = [call EXCEPT ![t].deadline = "passed"] /\ received' = NULL
        /\ UNCHANGED <<queueVars, waitVars, m_Next, content, cacheVars, handle>>
    BY <1>1 DEF DeadlinePasses
  <2>2. call[t] \in Calls
    BY <2>1 DEF IInv, TypeOK
  <2>3. [call[t] EXCEPT !.deadline = "passed"] \in Calls /\ [call[t] EXCEPT !.deadline = "passed"].port = call[t].port
    BY <2>2 DEF Calls, Deadlines
  <2>4. call' \in [Threads -> Calls \cup {NoCall}]
    BY <2>1, <2>3 DEF IInv, TypeOK
  <2>5. CallInv'
    BY <2>1, <2>3 DEF IInv, TypeOK, CallInv, Alive
  <2>6. /\ m_SendCondition' = m_SendCondition /\ m_ReceiveCondition' = m_ReceiveCondition
    BY <2>1 DEF waitVars
  <2>7. /\ m_SendCondition' \in [Ports -> Seq(Threads \cup Listeners)]
        /\ m_ReceiveCondition' \in [Ports -> Seq(Threads \cup Listeners)]
    BY <2>6 DEF IInv, WaitInv
  <2> QED BY <2>1, <2>4, <2>5, <2>6, <2>7, NodeStep
<1>2. CASE Expire(t)
  <2>1. /\ m_SendCondition' = [p \in Ports |-> Detatch(m_SendCondition[p], t)]
        /\ m_ReceiveCondition' = [p \in Ports |-> Detatch(m_ReceiveCondition[p], t)]
        /\ Return(t, NULL) /\ UNCHANGED <<queueVars, m_Next, content, cacheVars, handle>>
    BY <1>2 DEF Expire
  <2>2. CallInv' /\ call' \in [Threads -> Calls \cup {NoCall}] /\ received' = NULL
    BY <2>1, ReturnCalls DEF Alive
  <2>3. \A p \in Ports : /\ Detatch(m_SendCondition[p], t) \in Seq(Threads \cup Listeners)
                         /\ Detatch(m_ReceiveCondition[p], t) \in Seq(Threads \cup Listeners)
                         /\ m_SendCondition[p] = <<>> => Detatch(m_SendCondition[p], t) = <<>>
                         /\ m_ReceiveCondition[p] = <<>> => Detatch(m_ReceiveCondition[p], t) = <<>>
    BY <1>0, QueueTypes
  <2>4. /\ m_SendCondition' \in [Ports -> Seq(Threads \cup Listeners)]
        /\ m_ReceiveCondition' \in [Ports -> Seq(Threads \cup Listeners)]
        /\ \A p \in Ports : /\ m_SendCondition'[p] = <<>> \/ m_SendCondition[p] # <<>>
                            /\ m_ReceiveCondition'[p] = <<>> \/ m_ReceiveCondition[p] # <<>>
    BY <2>1, <2>3
  <2> QED BY <2>1, <2>2, <2>4, NodeStep
<1> QED BY <1>1, <1>2

\* The node of a wait group comes or goes.
LEMMA ListenerStep ==
    ASSUME IInv, NEW q, NEW c, Listed(q, c), NEW p \in Ports, NEW l \in Listeners,
           (\E mode \in {"Read", "Write"} : AddListener(l, p, mode)) \/ DetachListener(l, p)
    PROVE  Stepped(q)
<1> DEFINE S == Threads \cup Listeners
<1>0. /\ m_SendCondition \in [Ports -> Seq(S)] /\ m_ReceiveCondition \in [Ports -> Seq(S)]
      /\ l \in S /\ m_SendCondition[p] \in Seq(S) /\ m_ReceiveCondition[p] \in Seq(S)
  BY DEF IInv, WaitInv
<1>1. /\ received' = NULL /\ UNCHANGED <<queueVars, m_Next, content, cacheVars, handle, call>>
  BY DEF AddListener, DetachListener
<1>2. CallInv' /\ call' \in [Threads -> Calls \cup {NoCall}]
  BY <1>1 DEF IInv, CallInv, TypeOK, Alive
<1>3. CASE \E mode \in {"Read", "Write"} : AddListener(l, p, mode)
  <2>1. /\ Alive(p)
        /\ \/ /\ m_MessageCount[p] = 0 /\ m_SendCondition' = m_SendCondition
              /\ m_ReceiveCondition' = [m_ReceiveCondition EXCEPT ![p] = Append(@, l)]
           \/ /\ Full(p) /\ m_ReceiveCondition' = m_ReceiveCondition
              /\ m_SendCondition' = [m_SendCondition EXCEPT ![p] = Append(@, l)]
    BY <1>3 DEF AddListener, Alive
  <2>2. Append(m_SendCondition[p], l) \in Seq(S) /\ Append(m_ReceiveCondition[p], l) \in Seq(S)
    BY <1>0
  <2> HIDE DEF S
  <2>3. m_SendCondition' \in [Ports -> Seq(S)] /\ m_ReceiveCondition' \in [Ports -> Seq(S)]
    BY <1>0, <2>1, <2>2
  <2>4. \A x \in Ports : /\ \/ m_SendCondition'[x] = m_SendCondition[x] \/ (Alive(x) /\ Full(x))
                         /\ \/ m_ReceiveCondition'[x] = m_ReceiveCondition[x]
                            \/ Alive(x) /\ m_MessageCount[x] = 0
    BY <1>0, <2>1
  <2>5. \A x \in Ports :
              /\ \/ m_SendCondition'[x] = <<>> \/ m_SendCondition[x] # <<>>
                 \/ Alive(x) /\ Full(x)
              /\ \/ m_ReceiveCondition'[x] = <<>> \/ m_ReceiveCondition[x] # <<>>
                 \/ Alive(x) /\ m_MessageCount[x] = 0
    BY <2>4
  <2> QED BY <1>1, <1>2, <2>3, <2>5, NodeStep DEF S
<1>4. CASE DetachListener(l, p)
  <2>1. /\ m_SendCondition' = [m_SendCondition EXCEPT ![p] = Detatch(@, l)]
        /\ m_ReceiveCondition' = [m_ReceiveCondition EXCEPT ![p] = Detatch(@, l)]
    BY <1>4 DEF DetachListener
  <2> HIDE DEF S
  <2>2. /\ Detatch(m_SendCondition[p], l) \in Seq(S) /\ Detatch(m_ReceiveCondition[p], l) \in Seq(S)
        /\ m_SendCondition[p] = <<>> => Detatch(m_SendCondition[p], l) = <<>>
        /\ m_ReceiveCondition[p] = <<>> => Detatch(m_ReceiveCondition[p], l) = <<>>
    BY <1>0, QueueTypes
  <2>3. m_SendCondition' \in [Ports -> Seq(S)] /\ m_ReceiveCondition' \in [Ports -> Seq(S)]
    BY <1>0, <2>1, <2>2
  <2>4. \A x \in Ports : /\ m_SendCondition'[x] = <<>> \/ m_SendCondition[x] # <<>>
                         /\ m_ReceiveCondition'[x] = <<>> \/ m_ReceiveCondition[x] # <<>>
    BY <1>0, <2>1, <2>2
  <2> QED BY <1>1, <1>2, <2>3, <2>4, NodeStep DEF S
<1> QED BY <1>3, <1>4

\* The life of a port.
LEMMA PortLifeStep ==
    ASSUME IInv, NEW q, NEW c, Listed(q, c), NEW p \in Ports,
           Create(p) \/ Delete(p) \/ PortStep(p)
    PROVE  Stepped(q)
<1> USE DEF IInv
<1>0. call' = call /\ \A t \in Threads : call[t] # NoCall => call[t].port \in Ports /\ Alive(call[t].port)
  <2>1. call' = call
    BY DEF Create, Delete, PortStep, LastReferenceGone, DestructorFree, DestroyConditions
  <2> QED BY <2>1, CallFacts DEF CallInv, TypeOK
<1>1. CASE Create(p)
  <2>1. /\ handle[p] = "gone" /\ handle' = [handle EXCEPT ![p] = "open"]
        /\ m_FirstMsg' = [m_FirstMsg EXCEPT ![p] = NULL]
        /\ m_LastMsg' = [m_LastMsg EXCEPT ![p] = NULL]
        /\ m_MessageCount' = [m_MessageCount EXCEPT ![p] = 0] /\ received' = NULL
        /\ UNCHANGED <<m_SendCondition, m_ReceiveCondition, m_Next, content, gk_FirstCachedMessage,
                       gk_CachedMessageCount, heap>>
    BY <1>1 DEF Create, waitVars, cacheVars
  <2>2. TypeOK'
    BY <1>0, <2>1 DEF TypeOK
  <2>3. \A x \in Ports : x # p => Alive(x)' = Alive(x)
    BY <2>1 DEF Alive, TypeOK
  <2>4. CallInv'
    BY <1>0, <2>1 DEF CallInv, Alive, TypeOK
  <2>5. WaitInv'
    <3>1. m_SendCondition[p] = <<>> /\ m_ReceiveCondition[p] = <<>>
      BY <2>1 DEF WaitInv
    <3> QED BY <2>1, <3>1 DEF WaitInv, WaitersMustWait, Full, TypeOK
  <2>6. q[p] = <<>>
    BY <2>1, PortFacts
  <2>7. ASSUME NEW x \in Ports PROVE PortListed(x, q[x])'
    <3>1. PortListed(x, q[x])
      BY DEF Listed
    <3>2. CASE x = p
      <4>1. /\ m_FirstMsg'[p] = NULL /\ m_LastMsg'[p] = NULL /\ m_MessageCount'[p] = 0
            /\ m_Next' = m_Next /\ content' = content
        BY <2>1 DEF TypeOK
      <4>2. m_FirstMsg[p] = NULL /\ Len(q[p]) = 0
        BY <2>6, PortFacts
      <4> QED BY <2>6, <3>1, <3>2, <4>1, <4>2 DEF PortListed
    <3>3. CASE x # p
      <4>1. /\ m_FirstMsg'[x] = m_FirstMsg[x] /\ m_LastMsg'[x] = m_LastMsg[x]
            /\ m_MessageCount'[x] = m_MessageCount[x] /\ handle'[x] = handle[x]
            /\ m_Next' = m_Next /\ content' = content
        BY <2>1, <3>3 DEF TypeOK
      <4> QED BY <3>1, <4>1 DEF PortListed, Alive
    <3> QED BY <3>2, <3>3
  <2>8. Listed(q, c)'
    BY <2>1, <2>7 DEF Listed
  <2>9. Quiet(q, q)
    BY <2>1, <2>3, <2>6 DEF Quiet
  <2> QED BY <2>2, <2>4, <2>5, <2>8, <2>9 DEF Stepped, Moved
<1>2. CASE Delete(p) \/ LastReferenceGone(p) \/ DestroyConditions(p)
  <2>1. /\ received' = NULL /\ UNCHANGED <<queueVars, m_Next, content, cacheVars>>
        /\ \/ handle[p] = "open" /\ handle' = [handle EXCEPT ![p] = "deleted"]
           \/ handle[p] = "deleted" /\ Inside(p) = {} /\ handle' = [handle EXCEPT ![p] = "dying"]
           \/ handle[p] = "dying" /\ m_FirstMsg[p] = NULL /\ handle' = [handle EXCEPT ![p] = "gone"]
    BY <1>2 DEF Delete, LastReferenceGone, DestroyConditions
  <2>2. TypeOK'
    BY <1>0, <2>1 DEF TypeOK, queueVars, cacheVars
  <2>3. Listed(q, c)'
    <3>1. \A x \in Ports : \/ handle'[x] = handle[x]
                           \/ Alive(x) /\ handle'[x] \in {"deleted", "dying"}
                           \/ handle'[x] = "gone" /\ m_FirstMsg[x] = NULL
      BY <2>1 DEF Alive, TypeOK
    <3> QED BY <2>1, <3>1, ListsKeep
  <2>4. CallInv'
    <3>1. \A x \in Ports : Alive(x) => Alive(x)' \/ Inside(x) = {}
      BY <2>1 DEF Alive, TypeOK
    <3>2. ASSUME NEW t \in Threads, call[t] # NoCall PROVE Alive(call[t].port)'
      <4>1. t \in Inside(call[t].port)
        BY <3>2 DEF Inside
      <4> QED BY <1>0, <3>1, <3>2, <4>1 DEF Alive
    <3> QED BY <1>0, <3>2 DEF CallInv
  <2>5. /\ \A x \in Ports : x # p => handle'[x] = handle[x]
        /\ (Alive(p)' => Alive(p))
        /\ handle'[p] = "gone" => DestroyConditions(p)
    BY <1>2, <2>1 DEF TypeOK, Alive, Delete, LastReferenceGone
  <2>6. WaitInv'
    <3>0. m_MessageCount' = m_MessageCount
      BY <2>1 DEF queueVars
    <3>1. CASE DestroyConditions(p)
      <4>1. /\ m_SendCondition' = [m_SendCondition EXCEPT ![p] = <<>>]
            /\ m_ReceiveCondition' = [m_ReceiveCondition EXCEPT ![p] = <<>>]
        BY <3>1 DEF DestroyConditions
      <4>2. <<>> \in Seq(Threads \cup Listeners)
        OBVIOUS
      <4>3. /\ m_SendCondition' \in [Ports -> Seq(Threads \cup Listeners)]
            /\ m_ReceiveCondition' \in [Ports -> Seq(Threads \cup Listeners)]
        BY <4>1, <4>2 DEF WaitInv
      <4>4. ASSUME NEW x \in Ports
            PROVE  \/ m_SendCondition'[x] = <<>> /\ m_ReceiveCondition'[x] = <<>>
                   \/ /\ m_SendCondition'[x] = m_SendCondition[x] /\ handle'[x] = handle[x]
                      /\ m_ReceiveCondition'[x] = m_ReceiveCondition[x]
        BY <2>5, <4>1 DEF WaitInv
      <4> QED BY <3>0, <4>3, <4>4 DEF WaitInv, WaitersMustWait, Full
    <3>2. CASE ~DestroyConditions(p)
      <4>1. m_SendCondition' = m_SendCondition /\ m_ReceiveCondition' = m_ReceiveCondition
        BY <1>2, <3>2 DEF Delete, LastReferenceGone, waitVars
      <4>2. /\ m_SendCondition' \in [Ports -> Seq(Threads \cup Listeners)]
            /\ m_ReceiveCondition' \in [Ports -> Seq(Threads \cup Listeners)]
        BY <4>1 DEF WaitInv
      <4>3. \A x \in Ports : (Alive(x)' => Alive(x)) /\ (handle'[x] = "gone" => handle[x] = "gone")
        BY <2>5, <3>2 DEF Alive
      <4> QED BY <3>0, <4>1, <4>2, <4>3, WaitKeep
    <3> QED BY <3>1, <3>2
  <2>7. Quiet(q, q) \/ Ended(q, q)
    <3>1. \A x \in Ports \ {p} : Alive(x)' = Alive(x)
      BY <2>5 DEF Alive
    <3>2. CASE Alive(p)'
      <4>1. Alive(p)' = Alive(p)
        BY <2>5, <3>2 DEF Alive
      <4> QED BY <2>1, <3>1, <4>1 DEF Quiet
    <3>3. CASE ~Alive(p)'
      BY <2>1, <3>1, <3>3 DEF Ended
    <3> QED BY <3>2, <3>3
  <2> QED BY <2>2, <2>3, <2>4, <2>6, <2>7 DEF Stepped, Moved
<1>3. CASE DestructorFree(p)
  <2>1. /\ handle[p] = "dying" /\ m_FirstMsg[p] # NULL
        /\ m_FirstMsg' = [m_FirstMsg EXCEPT ![p] = m_Next[@]] /\ FreeMessage(m_FirstMsg[p])
        /\ received' = NULL
        /\ UNCHANGED <<m_LastMsg, m_MessageCount, m_SendCondition, m_ReceiveCondition, handle, call>>
    BY <1>3 DEF DestructorFree, waitVars
  <2>2. ~Alive(p)
    BY <2>1 DEF Alive
  <2>3. /\ \E d, r : Listed(r, d)' /\ r = [q EXCEPT ![p] = Tail(q[p])]
        /\ q[p] # <<>> /\ m_FirstMsg[p] = q[p][1]
        /\ \A x \in Blocks : x # m_FirstMsg[p] => content'[x] = content[x]
        /\ m_FirstMsg' \in [Ports -> Blocks \cup {NULL}]
        /\ gk_CachedMessageCount' \in 0..MAX_CACHED_MESSAGE_COUNT
        /\ gk_FirstCachedMessage' \in Blocks \cup {NULL}
        /\ heap' \subseteq Blocks
        /\ m_Next' \in [Blocks -> Blocks \cup {NULL}]
        /\ content' \in [Blocks -> Messages \cup {NULL}]
    BY <2>1, <2>2, TakeStep
  <2>4. TypeOK'
    BY <2>1, <2>3 DEF TypeOK
  <2>5. CallInv' /\ WaitInv'
    BY <2>1 DEF CallInv, WaitInv, WaitersMustWait, Alive, Full
  <2>6. \E r, d : Listed(r, d)' /\ Freed(q, r)
    BY <2>1, <2>2, <2>3 DEF Freed, Dropped
  <2> QED BY <2>4, <2>5, <2>6 DEF Stepped, Moved
<1> QED BY <1>1, <1>2, <1>3 DEF PortStep

\* Every step does one of the four things, and keeps the other parts of the invariant.
LEMMA NextStep ==
    ASSUME IInv, NEW q, NEW c, Listed(q, c), Next
    PROVE  Stepped(q)
<1>1. ASSUME NEW t \in Threads, NEW k \in Calls, Enter(t, k) PROVE Stepped(q)
  <2>1. Loop(t, k) /\ Alive(k.port)
    BY <1>1 DEF Enter, Alive
  <2> QED BY <2>1, LoopStep
<1>2. ASSUME NEW t \in Threads, Resume(t) PROVE Stepped(q)
  <2>1. Loop(t, call[t]) /\ call[t] \in Calls /\ Alive(call[t].port)
    BY <1>2 DEF Resume, IInv, TypeOK, CallInv
  <2> QED BY <2>1, LoopStep
<1>3. ASSUME NEW t \in Threads, DeadlinePasses(t) \/ Expire(t) PROVE Stepped(q)
  BY <1>3, TimeStep
<1>4. ASSUME NEW p \in Ports, NEW l \in Listeners,
             (\E mode \in {"Read", "Write"} : AddListener(l, p, mode)) \/ DetachListener(l, p)
      PROVE  Stepped(q)
  BY <1>4, ListenerStep
<1>5. ASSUME NEW p \in Ports, Create(p) \/ Delete(p) \/ PortStep(p) PROVE Stepped(q)
  BY <1>5, PortLifeStep
<1> QED BY <1>1, <1>2, <1>3, <1>4, <1>5 DEF Next

\* Every step keeps the invariant.
LEMMA NextIInv == IInv /\ [Next]_vars => IInv'
<1> SUFFICES ASSUME IInv, [Next]_vars PROVE IInv'
  OBVIOUS
<1>1. PICK q, c : Listed(q, c)
  BY DEF IInv, ListInv
<1>2. CASE Next
  <2>1. Stepped(q)
    BY <1>1, <1>2, NextStep
  <2> QED BY <2>1 DEF Stepped, IInv, ListInv
<1>3. CASE UNCHANGED vars
  <2> USE <1>3 DEF vars, queueVars, waitVars, cacheVars, IInv
  <2>1. Listed(q, c)'
    BY <1>1, ListsKeep
  <2>2. TypeOK'
    BY DEF TypeOK
  <2>3. CallInv' /\ WaitInv'
    BY DEF CallInv, WaitInv, WaitersMustWait, Alive, Full
  <2> QED BY <2>1, <2>2, <2>3 DEF ListInv
<1> QED BY <1>2, <1>3

\* The inductive invariant holds in every reachable state.
LEMMA Inductive == Spec => []IInv
  BY InitIInv, NextIInv, PTL DEF Spec

-----------------------------------------------------------------------------
(***************************************************************************)
(* Nobody sleeps beside work: only a full port has senders queued, only an *)
(* empty one receivers.                                                    *)
(***************************************************************************)
THEOREM NobodyWaitsInVain == Spec => []WaitersMustWait
<1>1. IInv => WaitersMustWait
  BY DEF IInv, WaitInv
<1> QED BY Inductive, <1>1, PTL

-----------------------------------------------------------------------------
(* Chain computes the lists *)

\* The equation that defines Chain.
Follows(at, head, n) ==
    at = [i \in 1..n |-> IF i = 1 THEN head
                         ELSE IF at[i-1] = NULL THEN NULL ELSE m_Next[at[i-1]]]

\* It has at most one solution: two cannot differ at a first place.
LEMMA FollowsOnce ==
    ASSUME NEW head, NEW n \in Nat, NEW s, NEW t, Follows(s, head, n), Follows(t, head, n)
    PROVE  s = t
<1> DEFINE T == {i \in 1..n : s[i] # t[i]}
<1>1. /\ DOMAIN s = 1..n /\ s = [i \in DOMAIN s |-> s[i]]
      /\ DOMAIN t = 1..n /\ t = [i \in DOMAIN t |-> t[i]]
  BY DEF Follows
<1>2. CASE T = {}
  <2>1. \A i \in 1..n : s[i] = t[i]
    BY <1>2
  <2> QED BY <1>1, <2>1
<1>3. CASE T # {}
  <2>1. T \subseteq Nat
    OBVIOUS
  <2> HIDE DEF T
  <2>2. PICK x \in T : \A y \in T : ~(y < x)
    BY <1>3, <2>1, LeastNumber
  <2>3. x # 1
    BY <2>2 DEF Follows, T
  <2>4. x - 1 \in 1..n /\ x - 1 \notin T
    BY <2>2, <2>3 DEF T
  <2>5. x \in 1..n /\ s[x] # t[x] /\ s[x-1] = t[x-1]
    BY <2>4 DEF T
  <2> QED BY <2>3, <2>5 DEF Follows
<1> QED BY <1>2, <1>3

\* Following m_Next for at least as many steps as a list is long yields it.
LEMMA ChainIs ==
    ASSUME NEW head, NEW s \in Seq(Blocks), IsList(m_Next, head, s), NEW n \in Nat, Len(s) <= n
    PROVE  /\ Chain(head, n) = [i \in 1..n |-> IF i <= Len(s) THEN s[i] ELSE NULL]
           /\ ChainSet(head, n) \ {NULL} = Linked(s)
           /\ n = Len(s) => ChainSet(head, n) = Linked(s)
<1> DEFINE at == [i \in 1..n |-> IF i <= Len(s) THEN s[i] ELSE NULL]
<1>1. /\ Len(s) \in Nat /\ Linked(s) \subseteq Blocks
      /\ \A i \in 1..Len(s) : s[i] \in Linked(s)
      /\ \A b \in Linked(s) : \E i \in 1..Len(s) : s[i] = b
  BY ListFacts
<1>2. ASSUME NEW i \in 1..n
      PROVE  at[i] = IF i = 1 THEN head ELSE IF at[i-1] = NULL THEN NULL ELSE m_Next[at[i-1]]
  <2>1. CASE i = 1
    <3>1. s = <<>> <=> Len(s) = 0
      BY EmptySeq
    <3> QED BY <1>1, <2>1, <3>1 DEF IsList
  <2>2. CASE i # 1 /\ i - 1 <= Len(s)
    <3>1. i - 1 \in 1..Len(s) /\ i - 1 \in 1..n /\ (i - 1) + 1 = i
      BY <1>1, <2>2
    <3>2. at[i - 1] = s[i - 1] /\ s[i - 1] # NULL
      BY <1>1, <3>1
    <3>3. m_Next[s[i - 1]] = IF i - 1 = Len(s) THEN NULL ELSE s[i]
      BY <3>1 DEF IsList
    <3>4. at[i] = IF i - 1 = Len(s) THEN NULL ELSE s[i]
      BY <1>1, <2>2
    <3> HIDE DEF at
    <3> QED BY <2>2, <3>2, <3>3, <3>4
  <2>3. CASE i # 1 /\ ~(i - 1 <= Len(s))
    BY <1>1, <2>3
  <2> QED BY <2>1, <2>2, <2>3
<1>3. Follows(at, head, n)
  <2>1. at = [i \in 1..n |-> at[i]]
    OBVIOUS
  <2> HIDE DEF at
  <2>2. [i \in 1..n |-> at[i]] = [i \in 1..n |-> IF i = 1 THEN head
                                     ELSE IF at[i-1] = NULL THEN NULL ELSE m_Next[at[i-1]]]
    BY <1>2
  <2> QED BY <2>1, <2>2 DEF Follows
<1> HIDE DEF at
<1>4. Follows(Chain(head, n), head, n)
  BY <1>3 DEF Chain, Follows
<1>5. Chain(head, n) = at
  BY <1>3, <1>4, FollowsOnce
<1>6. ChainSet(head, n) = {at[i] : i \in 1..n}
  BY <1>5 DEF ChainSet
<1>7. \A i \in 1..n : at[i] = IF i <= Len(s) THEN s[i] ELSE NULL
  BY DEF at
<1>8. ASSUME NEW x, x # NULL PROVE x \in ChainSet(head, n) <=> x \in Linked(s)
  <2>1. ASSUME x \in ChainSet(head, n) PROVE x \in Linked(s)
    <3>1. PICK i \in 1..n : at[i] = x
      BY <1>6, <2>1
    <3>2. i \in 1..Len(s) /\ s[i] = x
      BY <1>1, <1>7, <1>8, <3>1
    <3> QED BY <1>1, <3>2
  <2>2. ASSUME x \in Linked(s) PROVE x \in ChainSet(head, n)
    <3>1. PICK i \in 1..Len(s) : s[i] = x
      BY <1>1, <2>2
    <3>2. i \in 1..n /\ at[i] = x
      BY <1>1, <1>7, <3>1
    <3> QED BY <1>6, <3>2
  <2> QED BY <2>1, <2>2
<1>9. NULL \notin Linked(s)
  BY <1>1
<1>10. n = Len(s) => NULL \notin ChainSet(head, n)
  BY <1>1, <1>6, <1>7, <1>9
<1>11. ChainSet(head, n) \ {NULL} = Linked(s)
  BY <1>8, <1>9
<1>12. n = Len(s) => ChainSet(head, n) = Linked(s)
  BY <1>10, <1>11
<1> QED BY <1>5, <1>11, <1>12 DEF at

\* A list has as many buffers as it is long.
LEMMA ListSize ==
    ASSUME NEW s \in Seq(Blocks), OneNodeEach(s)
    PROVE  Cardinality(Linked(s)) = Len(s)
<1> DEFINE n == Len(s)
<1>1. n \in Nat /\ \A b : b \in Linked(s) <=> \E i \in 1..n : s[i] = b
  BY LinkedBlocks, LenProperties
<1>2. s \in [1..n -> Linked(s)]
  BY <1>1, LenProperties
<1>3. s \in Injection(1..n, Linked(s))
  BY <1>2 DEF Injection, IsInjective, OneNodeEach
<1>4. s \in Surjection(1..n, Linked(s))
  BY <1>1, <1>2 DEF Surjection
<1>5. ExistsBijection(1..n, Linked(s))
  BY <1>3, <1>4 DEF ExistsBijection, Bijection
<1>6. IsFiniteSet(1..n) /\ Cardinality(1..n) = n
  <2> HIDE DEF n
  <2> QED BY <1>1, FS_Interval
<1> QED BY <1>5, <1>6, FS_Bijection

(***************************************************************************)
(* No buffer is lost, shared or free as well as queued: each list has the  *)
(* buffers its counter says, ends where m_LastMsg points, and together     *)
(* with the cache, which never exceeds its limit, and the heap they are    *)
(* all there is.                                                           *)
(***************************************************************************)
THEOREM NoBufferLost == Spec => []BuffersAccounted
<1>1. ASSUME IInv PROVE BuffersAccounted
  <2>1. PICK q, c : Listed(q, c)
    BY <1>1 DEF IInv, ListInv
  <2> DEFINE cached == ChainSet(gk_FirstCachedMessage, gk_CachedMessageCount)
             queued(p) == IF handle[p] \in {"open", "deleted"}
                          THEN ChainSet(m_FirstMsg[p], m_MessageCount[p])
                          ELSE ChainSet(m_FirstMsg[p], m_MaxCount[p]) \ {NULL}
  <2>2. /\ c \in Seq(Blocks) /\ IsList(m_Next, gk_FirstCachedMessage, c)
        /\ Len(c) = gk_CachedMessageCount /\ Apart(heap, q, c) /\ heap \subseteq Blocks
    BY <1>1, <2>1 DEF Listed, IInv, TypeOK
  <2>3. cached = Linked(c) /\ Cardinality(cached) = gk_CachedMessageCount /\ NULL \notin cached /\ cached \subseteq Blocks
    <3>1. Len(c) \in Nat /\ Linked(c) \subseteq Blocks
      BY <2>2, LinkedAt
    <3>2. ChainSet(gk_FirstCachedMessage, Len(c)) = Linked(c)
      BY <2>2, <3>1, ChainIs
    <3>3. Cardinality(Linked(c)) = Len(c)
      BY <2>2, ListSize DEF IsList
    <3> QED BY <2>2, <3>1, <3>2, <3>3
  <2>4. ASSUME NEW p \in Ports
        PROVE  /\ queued(p) = Linked(q[p])
               /\ handle[p] \in {"open", "deleted"} =>
                      /\ NULL \notin queued(p) /\ Cardinality(queued(p)) = m_MessageCount[p]
                      /\ m_MessageCount[p] = 0 => m_FirstMsg[p] = NULL /\ m_LastMsg[p] = NULL
                      /\ m_MessageCount[p] > 0 =>
                             /\ m_LastMsg[p] = Chain(m_FirstMsg[p], m_MessageCount[p])[m_MessageCount[p]]
                             /\ m_Next[m_LastMsg[p]] = NULL
    <3> DEFINE s == q[p]
    <3>1. /\ s \in Seq(Blocks) /\ Len(s) \in Nat /\ Linked(s) \subseteq Blocks
          /\ IsList(m_Next, m_FirstMsg[p], s) /\ Len(s) <= m_MaxCount[p]
          /\ s = <<>> <=> Len(s) = 0
          /\ handle[p] \in {"open", "deleted"} =>
                /\ Len(s) = m_MessageCount[p]
                /\ m_LastMsg[p] = IF s = <<>> THEN NULL ELSE s[Len(s)]
          /\ s = <<>> <=> m_FirstMsg[p] = NULL
      BY <1>1, <2>1, PortFacts DEF IInv, Alive
    <3>2. m_MaxCount[p] \in Nat
      OBVIOUS
    <3> HIDE DEF s
    <3>3. /\ Chain(m_FirstMsg[p], Len(s)) = [i \in 1..Len(s) |-> IF i <= Len(s) THEN s[i] ELSE NULL]
          /\ ChainSet(m_FirstMsg[p], Len(s)) = Linked(s)
      BY <3>1, ChainIs
    <3>4. ChainSet(m_FirstMsg[p], m_MaxCount[p]) \ {NULL} = Linked(s)
      BY <3>1, <3>2, ChainIs
    <3>5. queued(p) = Linked(s)
      BY <3>1, <3>3, <3>4
    <3>6. Cardinality(Linked(s)) = Len(s)
      BY <3>1, ListSize DEF IsList
    <3>7. NULL \notin Linked(s)
      BY <3>1
    <3>8. ASSUME handle[p] \in {"open", "deleted"}, m_MessageCount[p] > 0
          PROVE  /\ m_LastMsg[p] = Chain(m_FirstMsg[p], m_MessageCount[p])[m_MessageCount[p]]
                 /\ m_Next[m_LastMsg[p]] = NULL
      <4>1. Len(s) = m_MessageCount[p] /\ Len(s) \in 1..Len(s) /\ m_LastMsg[p] = s[Len(s)]
        BY <3>1, <3>8
      <4>2. Chain(m_FirstMsg[p], Len(s))[Len(s)] = s[Len(s)]
        BY <3>3, <4>1
      <4>3. m_Next[s[Len(s)]] = NULL
        BY <3>1, <4>1 DEF IsList
      <4> QED BY <4>1, <4>2, <4>3
    <3>9. ASSUME handle[p] \in {"open", "deleted"}, m_MessageCount[p] = 0
          PROVE  m_FirstMsg[p] = NULL /\ m_LastMsg[p] = NULL
      BY <3>1, <3>9
    <3>10. queued(p) = Linked(q[p])
      BY <3>5 DEF s
    <3> HIDE DEF queued
    <3> QED BY <3>1, <3>5, <3>6, <3>7, <3>8, <3>9, <3>10
  <2> HIDE DEF cached, queued
  <2>5. /\ cached \cap heap = {}
        /\ \A p \in Ports : queued(p) \cap (heap \cup cached) = {}
        /\ \A p, r \in Ports : p # r => queued(p) \cap queued(r) = {}
    BY <2>2, <2>3, <2>4 DEF Apart
  <2>6. Blocks = heap \cup cached \cup UNION {queued(p) : p \in Ports}
    <3>1. \A p \in Ports : queued(p) = Linked(q[p]) /\ Linked(q[p]) \subseteq Blocks
      BY <1>1, <2>1, <2>4, PortFacts DEF IInv
    <3>2. \A b \in Blocks : b \in heap \/ b \in cached \/ \E p \in Ports : b \in queued(p)
      BY <2>2, <2>3, <3>1 DEF Apart
    <3> QED BY <2>2, <2>3, <3>1, <3>2
  <2>7. TypeOK
    BY <1>1 DEF IInv
  <2> QED BY <2>3, <2>4, <2>5, <2>6, <2>7 DEF BuffersAccounted, cached, queued
<1> QED BY Inductive, <1>1, PTL

-----------------------------------------------------------------------------
(* Every port is a bounded channel *)

\* The messages in the buffers of a list.
Texts(f, s) == [i \in 1..Len(s) |-> f[s[i]]]

\* What a port contains is what its list does.
Described == \A q, c : Listed(q, c) =>
                 \A p \in Ports : Contents(p) = IF Alive(p) THEN Texts(content, q[p]) ELSE <<>>

\* Contents reads the list of the port.
LEMMA ContentsAre == TypeOK => Described
<1> SUFFICES ASSUME TypeOK, NEW q, NEW c, Listed(q, c), NEW p \in Ports
             PROVE  Contents(p) = IF Alive(p) THEN Texts(content, q[p]) ELSE <<>>
  BY DEF Described
<1>1. CASE ~Alive(p)
  BY <1>1 DEF Contents, Alive
<1>2. CASE Alive(p)
  <2> DEFINE s == q[p]
  <2>1. /\ s \in Seq(Blocks) /\ Len(s) \in Nat /\ IsList(m_Next, m_FirstMsg[p], s)
        /\ Len(s) = m_MessageCount[p]
    BY <1>2, PortFacts
  <2> HIDE DEF s
  <2>2. Chain(m_FirstMsg[p], Len(s)) = [i \in 1..Len(s) |-> IF i <= Len(s) THEN s[i] ELSE NULL]
    BY <2>1, ChainIs
  <2>3. \A i \in 1..Len(s) : Chain(m_FirstMsg[p], Len(s))[i] = s[i]
    BY <2>2
  <2>4. Contents(p) = [i \in 1..Len(s) |-> content[Chain(m_FirstMsg[p], Len(s))[i]]]
    BY <1>2, <2>1 DEF Contents, Alive
  <2>5. Contents(p) = Texts(content, s)
    BY <2>3, <2>4 DEF Texts
  <2> QED BY <1>2, <2>5 DEF s
<1> QED BY <1>1, <1>2

\* The same of the next state.
LEMMA ContentsAreNext == TypeOK' => Described'
  BY ContentsAre, PTL

\* The messages of a list are a sequence.
LEMMA TextsSeq ==
    ASSUME NEW s \in Seq(Blocks), NEW f, \A b \in Linked(s) : f[b] \in Messages
    PROVE  /\ Texts(f, s) \in Seq(Messages) /\ Len(Texts(f, s)) = Len(s) /\ Len(s) \in Nat
           /\ \A i \in 1..Len(s) : Texts(f, s)[i] = f[s[i]]
<1>1. Len(s) \in Nat /\ \A i \in 1..Len(s) : s[i] \in Linked(s)
  BY LinkedAt
<1>2. Texts(f, s) \in [1..Len(s) -> Messages]
  BY <1>1 DEF Texts
<1>3. Texts(f, s) \in Seq(Messages) /\ Len(Texts(f, s)) = Len(s)
  BY <1>1, <1>2
<1> QED BY <1>1, <1>3 DEF Texts

\* Buffers of other lists do not matter.
LEMMA TextsKeep ==
    ASSUME NEW s \in Seq(Blocks), NEW f, NEW g, \A b \in Linked(s) : g[b] = f[b]
    PROVE  Texts(g, s) = Texts(f, s)
<1>1. \A i \in 1..Len(s) : s[i] \in Linked(s)
  BY LinkedAt
<1> QED BY <1>1 DEF Texts

\* One more buffer, one more message.
LEMMA TextsAppend ==
    ASSUME NEW s \in Seq(Blocks), NEW f, NEW g, NEW b \in Blocks, NEW t \in Messages,
           \A x \in Linked(s) : f[x] \in Messages /\ g[x] = f[x], g[b] = t, b \notin Linked(s)
    PROVE  Texts(g, Append(s, b)) = Append(Texts(f, s), t)
<1> DEFINE u == Append(s, b)
           old == Texts(f, s)
           new == Texts(g, u)
<1>1. /\ u \in Seq(Blocks) /\ Len(u) = Len(s) + 1 /\ u[Len(s) + 1] = b
      /\ \A i \in 1..Len(s) : u[i] = s[i]
  BY AppendProperties
<1>2. /\ old \in Seq(Messages) /\ Len(old) = Len(s) /\ Len(s) \in Nat
      /\ \A i \in 1..Len(s) : old[i] = f[s[i]]
  BY TextsSeq
<1>3. \A i \in 1..Len(s) : s[i] \in Linked(s)
  BY LinkedAt
<1> HIDE DEF u
<1>4. \A i \in 1..Len(u) : u[i] = IF i = Len(s) + 1 THEN b ELSE s[i]
  BY <1>1, <1>2
<1>5. \A i \in 1..Len(u) : g[u[i]] = (IF i = Len(s) + 1 THEN t ELSE old[i]) /\ g[u[i]] \in Messages
  BY <1>1, <1>2, <1>3, <1>4
<1>6. new \in [1..Len(u) -> Messages] /\ \A i \in 1..Len(u) : new[i] = g[u[i]]
  BY <1>5 DEF Texts
<1>7. new \in Seq(Messages) /\ Len(new) = Len(s) + 1
  BY <1>1, <1>2, <1>6
<1> HIDE DEF old, new
<1>8. /\ Append(old, t) \in Seq(Messages) /\ Len(Append(old, t)) = Len(s) + 1
      /\ \A i \in 1..Len(s) : Append(old, t)[i] = old[i] /\ Append(old, t)[Len(s) + 1] = t
  BY <1>2, AppendProperties
<1>9. Append(old, t)[Len(s) + 1] = t
  BY <1>2, AppendProperties
<1>10. \A i \in 1..Len(new) : new[i] = Append(old, t)[i]
  BY <1>1, <1>2, <1>5, <1>6, <1>7, <1>8, <1>9
<1>11. new = Append(old, t)
  BY <1>7, <1>8, <1>10, SeqEqual
<1> QED BY <1>11 DEF old, new, u

\* One buffer less, one message less.
LEMMA TextsTail ==
    ASSUME NEW s \in Seq(Blocks), NEW f, NEW g, s # <<>>, OneNodeEach(s),
           \A x \in Linked(s) : f[x] \in Messages /\ (x # s[1] => g[x] = f[x])
    PROVE  /\ Texts(g, Tail(s)) = Tail(Texts(f, s))
           /\ Texts(f, s) # <<>> /\ Head(Texts(f, s)) = f[s[1]]
<1> DEFINE u == Tail(s)
           old == Texts(f, s)
           new == Texts(g, u)
<1>1. u \in Seq(Blocks) /\ Len(u) = Len(s) - 1 /\ \A i \in 1..Len(u) : u[i] = s[i + 1]
  BY HeadTailProperties
<1>2. /\ old \in Seq(Messages) /\ Len(old) = Len(s) /\ Len(s) \in Nat
      /\ \A i \in 1..Len(s) : old[i] = f[s[i]]
  BY TextsSeq
<1>3. Len(s) \in Nat \ {0} /\ \A i \in 1..Len(s) : s[i] \in Linked(s)
  BY LinkedAt, EmptySeq
<1> HIDE DEF u
<1>4. ASSUME NEW i \in 1..Len(u) PROVE g[u[i]] = old[i + 1] /\ g[u[i]] \in Messages
  <2>1. i + 1 \in 1..Len(s) /\ 1 \in 1..Len(s) /\ i + 1 # 1
    BY <1>1, <1>3
  <2>2. s[i + 1] # s[1] /\ s[i + 1] \in Linked(s)
    BY <1>3, <2>1 DEF OneNodeEach
  <2>3. g[s[i + 1]] = f[s[i + 1]] /\ f[s[i + 1]] \in Messages
    BY <2>2
  <2> QED BY <1>1, <1>2, <2>1, <2>3
<1>5. new \in [1..Len(u) -> Messages] /\ \A i \in 1..Len(u) : new[i] = g[u[i]]
  BY <1>4 DEF Texts
<1>6. new \in Seq(Messages) /\ Len(new) = Len(s) - 1
  BY <1>1, <1>3, <1>5
<1> HIDE DEF old, new
<1>7. old # <<>>
  BY <1>2, <1>3, EmptySeq
<1>8. /\ Head(old) = old[1] /\ Tail(old) \in Seq(Messages) /\ Len(Tail(old)) = Len(s) - 1
      /\ \A i \in 1..Len(Tail(old)) : Tail(old)[i] = old[i + 1]
  BY <1>2, <1>7, HeadTailProperties
<1>9. \A i \in 1..Len(new) : new[i] = Tail(old)[i]
  BY <1>1, <1>4, <1>5, <1>6, <1>8
<1>10. new = Tail(old)
  BY <1>6, <1>8, <1>9, SeqEqual
<1>11. Head(old) = f[s[1]]
  BY <1>2, <1>3, <1>8
<1> QED BY <1>7, <1>10, <1>11 DEF old, new, u

\* Every step is a step of the channel, or leaves it alone.
LEMMA ChannelStep ==
    ASSUME IInv, IInv', [Next]_vars
    PROVE  [Channel!Next]_(Channel!vars)
<1> DEFINE chan == [p \in Ports |-> Contents(p)]
<1>1. PICK q, c : Listed(q, c)
  BY DEF IInv, ListInv
<1>2. \A p \in Ports : Contents(p) = IF Alive(p) THEN Texts(content, q[p]) ELSE <<>>
  BY <1>1, ContentsAre DEF IInv, Described
<1>3. \A p \in Ports : /\ q[p] \in Seq(Blocks) /\ Linked(q[p]) \subseteq Blocks /\ OneNodeEach(q[p])
                       /\ \A b \in Linked(q[p]) : content[b] \in Messages
                       /\ Len(q[p]) \in Nat
                       /\ Alive(p) => Len(q[p]) = m_MessageCount[p]
  BY <1>1, PortFacts DEF IInv, IsList
<1>4. q \in [Ports -> Seq(Blocks)]
  BY <1>1 DEF Listed
<1>5. \A r, d : Listed(r, d)' =>
         \A p \in Ports : Contents(p)' = IF Alive(p)' THEN Texts(content', r[p]) ELSE <<>>
  BY ContentsAreNext DEF IInv, Described
<1>6. CASE UNCHANGED vars
  <2>1. Listed(q, c)'
    BY <1>1, <1>6, ListsKeep DEF vars, IInv
  <2>2. \A p \in Ports : Contents(p)' = Contents(p)
    BY <1>2, <1>5, <1>6, <2>1 DEF vars, Alive
  <2>3. received' = received
    BY <1>6 DEF vars
  <2>4. UNCHANGED Channel!vars
    BY <2>2, <2>3 DEF Channel!vars
  <2> QED BY <2>4
<1>7. CASE Next
  <2>1. PICK r, d : Listed(r, d)' /\ Moved(q, r)
    BY <1>1, <1>7, NextStep DEF Stepped
  <2>2. \A p \in Ports : Contents(p)' = IF Alive(p)' THEN Texts(content', r[p]) ELSE <<>>
    BY <1>5, <2>1
  <2>3. CASE Sent(q, r)
    <3>1. PICK p \in Ports, t \in Threads, b \in Blocks :
             /\ Alive(p) /\ ~Full(p) /\ handle' = handle /\ received' = NULL
             /\ r = [q EXCEPT ![p] = Append(q[p], b)]
             /\ content' = [content EXCEPT ![b] = t]
             /\ \A x \in Ports : b \notin Linked(q[x])
      BY <2>3 DEF Sent
    <3>2. \A x \in Ports : Alive(x)' = Alive(x)
      BY <3>1 DEF Alive
    <3>3. \A x \in Blocks : content'[x] = IF x = b THEN t ELSE content[x]
      BY <3>1 DEF IInv, TypeOK
    <3> DEFINE g == content'
    <3>4. ASSUME NEW x \in Ports, x # p PROVE Contents(x)' = Contents(x)
      <4>1. r[x] = q[x]
        BY <1>4, <3>1, <3>4
      <4>2. \A y \in Linked(q[x]) : g[y] = content[y]
        BY <1>3, <3>1, <3>3
      <4>3. q[x] \in Seq(Blocks)
        BY <1>3
      <4> HIDE DEF g
      <4>4. Texts(g, q[x]) = Texts(content, q[x])
        BY <4>2, <4>3, TextsKeep
      <4> QED BY <1>2, <2>2, <3>2, <4>1, <4>4 DEF g
    <3>5. Contents(p)' = Append(Contents(p), t)
      <4>1. r[p] = Append(q[p], b)
        BY <1>4, <3>1
      <4>2. /\ \A x \in Linked(q[p]) : content[x] \in Messages /\ g[x] = content[x]
            /\ g[b] = t /\ b \notin Linked(q[p]) /\ t \in Messages /\ q[p] \in Seq(Blocks)
        BY <1>3, <3>1, <3>3 DEF Messages
      <4> DEFINE s == q[p]
                 f == content
      <4>3. /\ s \in Seq(Blocks) /\ b \in Blocks /\ t \in Messages
            /\ \A x \in Linked(s) : f[x] \in Messages /\ g[x] = f[x]
            /\ g[b] = t /\ b \notin Linked(s)
        BY <4>2, <3>1
      <4> HIDE DEF g, s, f
      <4>4. Texts(g, Append(s, b)) = Append(Texts(f, s), t)
        BY ONLY <4>3, TextsAppend
      <4> QED BY <1>2, <2>2, <3>1, <3>2, <4>1, <4>4 DEF g, s, f
    <3>6. Len(Contents(p)) < m_MaxCount[p]
      <4>1. Contents(p) = Texts(content, q[p])
        BY <1>2, <3>1
      <4>2. Len(Texts(content, q[p])) = Len(q[p])
        BY <1>3, TextsSeq
      <4> QED BY <1>3, <3>1, <4>1, <4>2 DEF Full
    <3>7. chan' = [chan EXCEPT ![p] = Append(chan[p], t)]
      BY <3>4, <3>5
    <3>8. Channel!Send(p, t)
      BY <3>1, <3>6, <3>7 DEF Channel!Send
    <3> QED BY <3>8 DEF Channel!Next, Messages
  <2>4. ASSUME NEW p \in Ports, Dropped(p, q, r)
        PROVE  /\ \A x \in Ports : x # p => Contents(x)' = Contents(x)
               /\ Alive(p) => /\ Contents(p)' = Tail(Contents(p)) /\ Contents(p) # <<>>
                              /\ Head(Contents(p)) = content[q[p][1]]
               /\ ~Alive(p) => Contents(p)' = Contents(p)
    <3>1. /\ handle' = handle /\ q[p] # <<>> /\ r = [q EXCEPT ![p] = Tail(q[p])]
          /\ \A x \in Blocks : x # q[p][1] => content'[x] = content[x]
      BY <2>4 DEF Dropped
    <3>2. \A x \in Ports : Alive(x)' = Alive(x)
      BY <3>1 DEF Alive
    <3> DEFINE g == content'
    <3>3. q[p][1] \in Linked(q[p])
      <4>1. Len(q[p]) # 0
        BY <1>3, <3>1, EmptySeq
      <4>2. 1 \in 1..Len(q[p])
        BY <1>3, <4>1
      <4> QED BY <1>3, <4>2, LinkedBlocks
    <3>4. ASSUME NEW x \in Ports, x # p PROVE Contents(x)' = Contents(x)
      <4>1. r[x] = q[x]
        BY <1>4, <3>1, <3>4
      <4>2. q[p][1] \notin Linked(q[x])
        BY <1>1, <3>3, <3>4 DEF Listed, Apart
      <4>3. \A y \in Linked(q[x]) : g[y] = content[y]
        BY <1>3, <3>1, <4>2
      <4>4. q[x] \in Seq(Blocks)
        BY <1>3
      <4> HIDE DEF g
      <4>5. Texts(g, q[x]) = Texts(content, q[x])
        BY <4>3, <4>4, TextsKeep
      <4> QED BY <1>2, <2>2, <3>2, <4>1, <4>5 DEF g
    <3>5. ASSUME Alive(p)
          PROVE  /\ Contents(p)' = Tail(Contents(p)) /\ Contents(p) # <<>>
                 /\ Head(Contents(p)) = content[q[p][1]]
      <4>1. r[p] = Tail(q[p])
        BY <1>4, <3>1
      <4>2. /\ \A x \in Linked(q[p]) : content[x] \in Messages /\ (x # q[p][1] => g[x] = content[x])
            /\ q[p] \in Seq(Blocks) /\ q[p] # <<>> /\ OneNodeEach(q[p])
        BY <1>3, <3>1
      <4> HIDE DEF g
      <4>3. /\ Texts(g, Tail(q[p])) = Tail(Texts(content, q[p]))
            /\ Texts(content, q[p]) # <<>> /\ Head(Texts(content, q[p])) = content[q[p][1]]
        BY <4>2, TextsTail
      <4> QED BY <1>2, <2>2, <3>2, <3>5, <4>1, <4>3 DEF g
    <3>6. ~Alive(p) => Contents(p)' = Contents(p)
      BY <1>2, <2>2, <3>2
    <3> QED BY <3>4, <3>5, <3>6
  <2>5. CASE Received(q, r)
    <3>1. PICK p \in Ports : Alive(p) /\ Dropped(p, q, r) /\ received' = content[q[p][1]]
      BY <2>5 DEF Received
    <3>2. chan' = [chan EXCEPT ![p] = Tail(chan[p])] /\ chan[p] # <<>> /\ received' = Head(chan[p])
      BY <2>4, <3>1
    <3>3. Channel!Receive(p)
      BY <3>2 DEF Channel!Receive
    <3> QED BY <3>3 DEF Channel!Next
  <2>6. CASE Freed(q, r)
    <3>1. PICK p \in Ports : ~Alive(p) /\ Dropped(p, q, r) /\ received' = NULL
      BY <2>6 DEF Freed
    <3>2. \A x \in Ports : Contents(x)' = Contents(x)
      BY <2>4, <3>1
    <3>3. Channel!Taken
      BY <3>1, <3>2 DEF Channel!Taken
    <3> QED BY <3>3 DEF Channel!Next
  <2>7. CASE Quiet(q, r)
    <3>1. /\ r = q /\ content' = content /\ received' = NULL
          /\ \A p \in Ports : Alive(p)' = Alive(p) \/ q[p] = <<>>
      BY <2>7 DEF Quiet
    <3>2. ASSUME NEW p \in Ports PROVE Contents(p)' = Contents(p)
      <4>1. CASE Alive(p)' = Alive(p)
        BY <1>2, <2>2, <3>1, <4>1
      <4>2. CASE q[p] = <<>>
        <5>1. Texts(content, <<>>) = <<>>
          BY DEF Texts
        <5> QED BY <1>2, <2>2, <3>1, <4>2, <5>1
      <4> QED BY <3>1, <4>1, <4>2
    <3>3. Channel!Taken
      BY <3>1, <3>2 DEF Channel!Taken
    <3> QED BY <3>3 DEF Channel!Next
  <2>8. CASE Ended(q, r)
    <3>1. /\ r = q /\ content' = content /\ received' = NULL
      BY <2>8 DEF Ended
    <3>2. PICK p \in Ports : ~Alive(p)' /\ \A x \in Ports \ {p} : Alive(x)' = Alive(x)
      BY <2>8 DEF Ended
    <3>3. Contents(p)' = <<>> /\ \A x \in Ports : x # p => Contents(x)' = Contents(x)
      BY <1>2, <2>2, <3>1, <3>2
    <3>4. chan' = [chan EXCEPT ![p] = <<>>]
      BY <3>3
    <3>5. Channel!Destroy(p)
      BY <3>1, <3>4 DEF Channel!Destroy
    <3> QED BY <3>5 DEF Channel!Next
  <2> QED BY <2>1, <2>3, <2>5, <2>6, <2>7, <2>8 DEF Moved
<1> QED BY <1>6, <1>7

(***************************************************************************)
(* Every port is a bounded FIFO channel: what is sent is received once,    *)
(* whole and in order, whatever the cache and the other ports do with the  *)
(* buffers, and a channel is emptied without a receiver only by the end of *)
(* its port.                                                               *)
(***************************************************************************)
THEOREM Refinement == Spec => ImplementsChannel
<1>1. Init => Channel!Init
  <2> SUFFICES ASSUME Init PROVE Channel!Init
    OBVIOUS
  <2>1. ASSUME NEW p \in Ports PROVE Contents(p) = <<>>
    <3>1. m_MessageCount[p] = 0 /\ handle[p] = "open"
      BY DEF Init
    <3> QED BY <3>1 DEF Contents
  <2> QED BY <2>1 DEF Init, Channel!Init
<1>2. IInv /\ IInv' /\ [Next]_vars => [Channel!Next]_(Channel!vars)
  BY ChannelStep
<1> QED BY Inductive, <1>1, <1>2, PTL DEF Spec, ImplementsChannel, Channel!Spec

=============================================================================
