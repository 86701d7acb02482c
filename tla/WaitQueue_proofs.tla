-------------------------- MODULE WaitQueue_proofs --------------------------
(***************************************************************************)
(* What the operations on a wait list do to the set of linked threads, for *)
(* every list in which no thread has two nodes.                            *)
(***************************************************************************)
EXTENDS WaitQueue, FiniteSets, FiniteSetTheorems, SequenceTheorems, TLAPS

\* No thread has two nodes in the list.
OneNodeEach(queue) == \A i, j \in 1..Len(queue) : queue[i] = queue[j] => i = j

\* The linked threads, by position.
LEMMA LinkedAt ==
    ASSUME NEW S, NEW queue \in Seq(S)
    PROVE  /\ Linked(queue) \subseteq S
           /\ Len(queue) \in Nat /\ DOMAIN queue = 1..Len(queue)
           /\ \A t : t \in Linked(queue) <=> \E i \in 1..Len(queue) : queue[i] = t
<1>1. Len(queue) \in Nat /\ DOMAIN queue = 1..Len(queue) /\ \A i \in 1..Len(queue) : queue[i] \in S
  BY LenProperties, ElementOfSeq
<1> QED BY <1>1 DEF Linked

\* Nobody is linked in the empty list.
LEMMA EmptyLinked == <<>> \in Seq({}) /\ Linked(<<>>) = {} /\ OneNodeEach(<<>>)
  BY DEF Linked, OneNodeEach

\* Linking the node of t.
LEMMA AppendLinked ==
    ASSUME NEW S, NEW queue \in Seq(S), OneNodeEach(queue), NEW t \in S, t \notin Linked(queue)
    PROVE  /\ Append(queue, t) \in Seq(S)
           /\ OneNodeEach(Append(queue, t))
           /\ Linked(Append(queue, t)) = Linked(queue) \cup {t}
<1> DEFINE new == Append(queue, t)
<1>1. /\ new \in Seq(S) /\ Len(new) = Len(queue) + 1 /\ Len(queue) \in Nat
      /\ \A i \in 1..Len(queue) : new[i] = queue[i]
      /\ new[Len(queue) + 1] = t
  BY AppendProperties, LenProperties
<1>2. \A i \in 1..Len(queue) : queue[i] # t
  BY LinkedAt
<1>3. \A u : u \in Linked(queue) <=> \E i \in 1..Len(queue) : queue[i] = u
  BY LinkedAt
<1>4. \A u : u \in Linked(new) <=> \E i \in 1..Len(new) : new[i] = u
  BY <1>1, LinkedAt
<1> HIDE DEF new
<1>5. OneNodeEach(new)
  BY <1>1, <1>2 DEF OneNodeEach
<1>6. Linked(new) = Linked(queue) \cup {t}
  BY <1>1, <1>3, <1>4
<1> QED BY <1>1, <1>5, <1>6 DEF new

\* Unlinking the node of t.
LEMMA DetatchLinked ==
    ASSUME NEW S, NEW queue \in Seq(S), OneNodeEach(queue), NEW t
    PROVE  /\ Detatch(queue, t) \in Seq(S)
           /\ OneNodeEach(Detatch(queue, t))
           /\ Linked(Detatch(queue, t)) = Linked(queue) \ {t}
<1>1. CASE t \notin Linked(queue)
  BY <1>1 DEF Detatch
<1>2. CASE t \in Linked(queue)
  <2> DEFINE n == CHOOSE n \in DOMAIN queue : queue[n] = t
             new == [i \in 1..(Len(queue) - 1) |-> IF i < n THEN queue[i] ELSE queue[i + 1]]
  <2>1. Detatch(queue, t) = new
    BY <1>2 DEF Detatch
  <2>2. Len(queue) \in Nat /\ n \in 1..Len(queue) /\ queue[n] = t
    BY <1>2, LinkedAt
  <2>3. \A i \in 1..Len(queue) : queue[i] \in S
    BY ElementOfSeq
  <2> HIDE DEF n
  <2>4. new \in [1..(Len(queue) - 1) -> S]
    BY <2>2, <2>3
  <2>5. new \in Seq(S) /\ Len(new) = Len(queue) - 1
    BY <2>2, <2>4
  <2>6. OneNodeEach(new)
    BY <2>2, <2>5 DEF OneNodeEach
  <2>7. \A u : u \in Linked(queue) <=> \E i \in 1..Len(queue) : queue[i] = u
    BY LinkedAt
  <2>8. \A u : u \in Linked(new) <=> \E i \in 1..Len(new) : new[i] = u
    BY <2>5, LinkedAt
  <2>9. ASSUME NEW u \in Linked(new) PROVE u \in Linked(queue) \ {t}
    <3> PICK i \in 1..(Len(queue) - 1) : new[i] = u
      BY <2>5, <2>8, <2>9
    <3>1. CASE i < n
      BY <2>2, <2>7, <3>1 DEF OneNodeEach
    <3>2. CASE ~(i < n)
      BY <2>2, <2>7, <3>2 DEF OneNodeEach
    <3> QED BY <3>1, <3>2
  <2>10. ASSUME NEW u \in Linked(queue), u # t PROVE u \in Linked(new)
    <3> PICK i \in 1..Len(queue) : queue[i] = u
      BY <2>7, <2>10
    <3>1. CASE i < n
      BY <2>2, <2>5, <2>8, <3>1
    <3>2. CASE i > n
      <4>1. i - 1 \in 1..(Len(queue) - 1) /\ new[i - 1] = u
        BY <2>2, <3>2
      <4> QED BY <2>5, <2>8, <4>1
    <3> QED BY <2>2, <2>10, <3>1, <3>2
  <2>11. Linked(new) = Linked(queue) \ {t}
    BY <2>9, <2>10
  <2> QED BY <2>1, <2>5, <2>6, <2>11
<1> QED BY <1>1, <1>2

\* wakeup_wait_queue: those who are popped, and those who stay.
LEMMA PopLinked ==
    ASSUME NEW S, NEW queue \in Seq(S), OneNodeEach(queue), NEW n \in Nat
    PROVE  /\ Remaining(queue, n) \in Seq(S)
           /\ OneNodeEach(Remaining(queue, n))
           /\ Linked(Remaining(queue, n)) = Linked(queue) \ Popped(queue, n)
           /\ Popped(queue, n) \subseteq Linked(queue)
           /\ PopCount(queue, n) \in 0..Len(queue)
<1> DEFINE c == PopCount(queue, n)
           new == Remaining(queue, n)
<1>1. Len(queue) \in Nat /\ \A i \in 1..Len(queue) : queue[i] \in S
  BY LenProperties, ElementOfSeq
<1>2. c \in 0..Len(queue)
  BY <1>1 DEF PopCount
<1>3. \A t : t \in Linked(queue) <=> \E i \in 1..Len(queue) : queue[i] = t
  BY LinkedAt
<1>4. \A t : t \in Popped(queue, n) <=> \E i \in 1..c : queue[i] = t
  BY <1>2 DEF Popped
<1>5. /\ new \in Seq(S) /\ Len(new) = Len(queue) - c
      /\ \A i \in 1..(Len(queue) - c) : new[i] = queue[c + i]
  <2>1. new = SubSeq(queue, c + 1, Len(queue))
    BY DEF Remaining
  <2> HIDE DEF c, new
  <2>2. \A i \in (c + 1)..Len(queue) : queue[i] \in S
    BY <1>1, <1>2
  <2>3. /\ SubSeq(queue, c + 1, Len(queue)) \in Seq(S)
        /\ Len(SubSeq(queue, c + 1, Len(queue)))
              = IF c + 1 <= Len(queue) THEN Len(queue) - (c + 1) + 1 ELSE 0
        /\ \A i \in 1..(Len(queue) - (c + 1) + 1) :
              SubSeq(queue, c + 1, Len(queue))[i] = queue[c + 1 + i - 1]
    BY <1>1, <1>2, <2>2, SubSeqProperties
  <2> QED BY <1>1, <1>2, <2>1, <2>3
<1>6. \A t : t \in Linked(new) <=> \E i \in 1..Len(new) : new[i] = t
  BY <1>5, LinkedAt
<1> HIDE DEF c, new
<1>7. OneNodeEach(new)
  BY <1>1, <1>2, <1>5 DEF OneNodeEach
<1>8. Popped(queue, n) \subseteq Linked(queue)
  BY <1>1, <1>2, <1>3, <1>4
<1>9. ASSUME NEW t \in Linked(new) PROVE t \in Linked(queue) \ Popped(queue, n)
  <2> PICK i \in 1..(Len(queue) - c) : queue[c + i] = t
    BY <1>5, <1>6, <1>9
  <2>1. c + i \in 1..Len(queue)
    BY <1>1, <1>2
  <2>2. t \in Linked(queue)
    BY <1>3, <2>1
  <2>3. ASSUME NEW j \in 1..c, queue[j] = t PROVE FALSE
    BY <1>1, <1>2, <2>1, <2>3 DEF OneNodeEach
  <2> QED BY <1>4, <2>2, <2>3
<1>10. ASSUME NEW t \in Linked(queue) \ Popped(queue, n) PROVE t \in Linked(new)
  <2> PICK i \in 1..Len(queue) : queue[i] = t
    BY <1>3
  <2>1. i > c
    BY <1>2, <1>4
  <2>2. i - c \in 1..(Len(queue) - c) /\ new[i - c] = t
    BY <1>1, <1>2, <1>5, <2>1
  <2> QED BY <1>5, <1>6, <2>2
<1> QED BY <1>2, <1>5, <1>7, <1>8, <1>9, <1>10 DEF c, new

\* The list is no longer than there are threads, and as many are popped as counted.
LEMMA QueueSize ==
    ASSUME NEW S, IsFiniteSet(S), NEW queue \in Seq(S), OneNodeEach(queue), NEW n \in Nat
    PROVE  /\ Len(queue) <= Cardinality(S)
           /\ IsFiniteSet(Popped(queue, n))
           /\ Cardinality(Popped(queue, n)) = PopCount(queue, n)
<1>1. Len(queue) \in Nat /\ queue \in [1..Len(queue) -> S]
  BY LenProperties
<1>2. queue \in Injection(1..Len(queue), S)
  BY <1>1 DEF OneNodeEach, Injection, IsInjective
<1>3. Len(queue) <= Cardinality(S)
  BY <1>1, <1>2, FS_Injection, FS_Interval
<1> DEFINE c == PopCount(queue, n)
           first == [i \in 1..c |-> queue[i]]
<1>4. c \in 0..Len(queue)
  BY PopLinked
<1>5. Popped(queue, n) = {queue[i] : i \in 1..c}
  BY DEF Popped
<1> HIDE DEF c
<1>6. first \in [1..c -> Popped(queue, n)]
  BY <1>5
<1>7. \A i, j \in 1..c : queue[i] = queue[j] => i = j
  BY <1>1, <1>4 DEF OneNodeEach
<1>8. first \in Bijection(1..c, Popped(queue, n))
  BY <1>5, <1>6, <1>7 DEF Bijection, Injection, Surjection, IsInjective
<1>9. IsFiniteSet(1..c) /\ Cardinality(1..c) = c
  BY <1>1, <1>4, FS_Interval
<1>10. ExistsBijection(1..c, Popped(queue, n))
  BY <1>8 DEF ExistsBijection
<1> QED BY <1>3, <1>9, <1>10, FS_Bijection DEF c

\* A list that loses a node, or all of them, is a list still; one that has none gets none.
LEMMA QueueTypes ==
    ASSUME NEW S, NEW queue \in Seq(S), NEW t
    PROVE  /\ Detatch(queue, t) \in Seq(S)
           /\ queue = <<>> => Detatch(queue, t) = <<>>
           /\ Remaining(queue, 0) = <<>>
<1>1. /\ Len(queue) \in Nat /\ DOMAIN queue = 1..Len(queue) /\ Linked(queue) \subseteq S
      /\ \A i \in 1..Len(queue) : queue[i] \in S
      /\ \A x : x \in Linked(queue) <=> \E i \in 1..Len(queue) : queue[i] = x
  BY LinkedAt, ElementOfSeq
<1>2. Remaining(queue, 0) = <<>>
  <2>1. PopCount(queue, 0) = Len(queue)
    BY DEF PopCount
  <2> DEFINE n == Len(queue)
  <2>2. n \in Int /\ n + 1 \in Int /\ n < n + 1 /\ PopCount(queue, 0) = n
    BY <1>1, <2>1
  <2> HIDE DEF n
  <2>3. SubSeq(queue, n + 1, n) = <<>>
    BY <2>2, SubSeqEmpty
  <2> QED BY <2>2, <2>3 DEF Remaining, n
<1>3. CASE t \notin Linked(queue)
  BY <1>2, <1>3 DEF Detatch
<1>4. CASE t \in Linked(queue)
  <2> DEFINE n == CHOOSE n \in DOMAIN queue : queue[n] = t
             new == [i \in 1..(Len(queue) - 1) |-> IF i < n THEN queue[i] ELSE queue[i + 1]]
  <2>1. n \in 1..Len(queue)
    BY <1>1, <1>4
  <2>2. Detatch(queue, t) = new
    BY <1>4 DEF Detatch
  <2> HIDE DEF n
  <2>3. new \in [1..(Len(queue) - 1) -> S] /\ Len(queue) - 1 \in Nat
    BY <1>1, <2>1
  <2>4. new \in Seq(S)
    BY <2>3
  <2>5. queue # <<>>
    BY <1>1, <2>1, EmptySeq
  <2> QED BY <1>2, <2>2, <2>4, <2>5
<1> QED BY <1>3, <1>4

\* Two lists that share nobody, one behind the other.
LEMMA ConcatLinked ==
    ASSUME NEW S, NEW s \in Seq(S), NEW r \in Seq(S), OneNodeEach(s), OneNodeEach(r),
           Linked(s) \cap Linked(r) = {}
    PROVE  /\ s \o r \in Seq(S)
           /\ OneNodeEach(s \o r)
           /\ Linked(s \o r) = Linked(s) \cup Linked(r)
<1> DEFINE new == s \o r
<1>1. /\ new \in Seq(S) /\ Len(new) = Len(s) + Len(r) /\ Len(s) \in Nat /\ Len(r) \in Nat
      /\ \A i \in 1..Len(new) : new[i] = IF i <= Len(s) THEN s[i] ELSE r[i - Len(s)]
  BY ConcatProperties, LenProperties
<1> HIDE DEF new
<1>2. /\ \A t : t \in Linked(s) <=> \E i \in 1..Len(s) : s[i] = t
      /\ \A t : t \in Linked(r) <=> \E i \in 1..Len(r) : r[i] = t
      /\ \A t : t \in Linked(new) <=> \E i \in 1..Len(new) : new[i] = t
  <2>1. \A t : t \in Linked(s) <=> \E i \in 1..Len(s) : s[i] = t
    BY LinkedAt
  <2>2. \A t : t \in Linked(r) <=> \E i \in 1..Len(r) : r[i] = t
    BY LinkedAt
  <2> new \in Seq(S)
    BY <1>1
  <2>3. \A t : t \in Linked(new) <=> \E i \in 1..Len(new) : new[i] = t
    BY LinkedAt
  <2> QED BY <2>1, <2>2, <2>3
<1>3. ASSUME NEW i \in 1..Len(new), NEW j \in 1..Len(new), new[i] = new[j] PROVE i = j
  <2>1. CASE i <= Len(s) /\ j <= Len(s)
    BY <1>1, <1>3, <2>1 DEF OneNodeEach
  <2>2. CASE ~(i <= Len(s)) /\ ~(j <= Len(s))
    <3>1. i - Len(s) \in 1..Len(r) /\ j - Len(s) \in 1..Len(r)
      BY <1>1, <2>2
    <3>2. r[i - Len(s)] = r[j - Len(s)]
      BY <1>1, <1>3, <2>2
    <3>3. i - Len(s) = j - Len(s)
      BY <3>1, <3>2 DEF OneNodeEach
    <3> QED BY <1>1, <3>3
  <2>3. CASE i <= Len(s) /\ ~(j <= Len(s))
    <3>1. s[i] \in Linked(s) /\ j - Len(s) \in 1..Len(r) /\ r[j - Len(s)] \in Linked(r)
      BY <1>1, <1>2, <2>3
    <3> QED BY <1>1, <1>3, <2>3, <3>1
  <2>4. CASE ~(i <= Len(s)) /\ j <= Len(s)
    <3>1. s[j] \in Linked(s) /\ i - Len(s) \in 1..Len(r) /\ r[i - Len(s)] \in Linked(r)
      BY <1>1, <1>2, <2>4
    <3> QED BY <1>1, <1>3, <2>4, <3>1
  <2> QED BY <2>1, <2>2, <2>3, <2>4
<1>4. ASSUME NEW t, t \in Linked(new) PROVE t \in Linked(s) \cup Linked(r)
  <2>1. PICK i \in 1..Len(new) : new[i] = t
    BY <1>2, <1>4
  <2>2. CASE i <= Len(s)
    BY <1>1, <1>2, <2>1, <2>2
  <2>3. CASE ~(i <= Len(s))
    <3>1. i - Len(s) \in 1..Len(r) /\ r[i - Len(s)] = t
      BY <1>1, <2>1, <2>3
    <3> QED BY <1>2, <3>1
  <2> QED BY <2>2, <2>3
<1>5. ASSUME NEW t, t \in Linked(s) PROVE t \in Linked(new)
  <2>1. PICK i \in 1..Len(s) : s[i] = t
    BY <1>2, <1>5
  <2>2. i \in 1..Len(new) /\ new[i] = t
    BY <1>1, <2>1
  <2> QED BY <1>2, <2>2
<1>6. ASSUME NEW t, t \in Linked(r) PROVE t \in Linked(new)
  <2>1. PICK i \in 1..Len(r) : r[i] = t
    BY <1>2, <1>6
  <2>2. /\ i + Len(s) \in 1..Len(new) /\ (i + Len(s)) - Len(s) = i
        /\ ~(i + Len(s) <= Len(s))
    BY <1>1, <2>1
  <2>3. new[i + Len(s)] = r[(i + Len(s)) - Len(s)]
    BY <1>1, <2>2
  <2> QED BY <1>2, <2>1, <2>2, <2>3
<1>7. OneNodeEach(new)
  BY <1>3 DEF OneNodeEach
<1>8. Linked(new) = Linked(s) \cup Linked(r)
  BY <1>4, <1>5, <1>6
<1> QED BY <1>1, <1>7, <1>8 DEF new

\* The first of a list leaves it.
LEMMA TailLinked ==
    ASSUME NEW S, NEW s \in Seq(S), OneNodeEach(s), s # <<>>
    PROVE  /\ Head(s) \in Linked(s) /\ Tail(s) \in Seq(S) /\ OneNodeEach(Tail(s))
           /\ Linked(Tail(s)) = Linked(s) \ {Head(s)}
<1> DEFINE new == Tail(s)
<1>1. /\ new \in Seq(S) /\ Len(s) \in Nat \ {0} /\ Len(new) = Len(s) - 1 /\ Head(s) = s[1]
      /\ \A i \in 1..Len(new) : new[i] = s[i + 1]
  BY HeadTailProperties, EmptySeq, LenProperties
<1> HIDE DEF new
<1>2. /\ \A t : t \in Linked(s) <=> \E i \in 1..Len(s) : s[i] = t
      /\ \A t : t \in Linked(new) <=> \E i \in 1..Len(new) : new[i] = t
  BY <1>1, LinkedAt
<1>3. OneNodeEach(new)
  <2>1. \A i \in 1..Len(new) : i + 1 \in 1..Len(s)
    BY <1>1
  <2>2. ASSUME NEW i \in 1..Len(new), NEW j \in 1..Len(new), new[i] = new[j] PROVE i + 1 = j + 1
    BY <1>1, <2>1, <2>2 DEF OneNodeEach
  <2> QED BY <2>2 DEF OneNodeEach
<1>4. ASSUME NEW t, t \in Linked(new) PROVE t \in Linked(s) \ {s[1]}
  <2>1. PICK i \in 1..Len(new) : new[i] = t
    BY <1>2, <1>4
  <2>2. i + 1 \in 1..Len(s) /\ s[i + 1] = t /\ i + 1 # 1 /\ 1 \in 1..Len(s)
    BY <1>1, <2>1
  <2> QED BY <1>2, <2>2 DEF OneNodeEach
<1>5. ASSUME NEW t, t \in Linked(s), t # s[1] PROVE t \in Linked(new)
  <2>1. PICK i \in 1..Len(s) : s[i] = t
    BY <1>2, <1>5
  <2>2. i - 1 \in 1..Len(new) /\ new[i - 1] = t
    BY <1>1, <1>5, <2>1
  <2> QED BY <1>2, <2>2
<1>6. Linked(new) = Linked(s) \ {s[1]}
  BY <1>4, <1>5
<1>7. s[1] \in Linked(s)
  BY <1>1, <1>2
<1> QED BY <1>1, <1>3, <1>6, <1>7 DEF new

\* The list of one thread.
LEMMA SingleLinked ==
    ASSUME NEW S, NEW t \in S
    PROVE  <<t>> \in Seq(S) /\ OneNodeEach(<<t>>) /\ Linked(<<t>>) = {t}
<1>1. <<t>> \in Seq(S) /\ Len(<<t>>) = 1 /\ <<t>>[1] = t /\ DOMAIN <<t>> = 1..1
  OBVIOUS
<1>2. \A i \in 1..1 : i = 1
  OBVIOUS
<1> QED BY <1>1, <1>2 DEF OneNodeEach, Linked

\* A set of numbers that is not empty has a least one.
LEMMA LeastNumber ==
    ASSUME NEW T, T \subseteq Nat, T # {}
    PROVE  \E x \in T : \A y \in T : ~(y < x)
<1> DEFINE less == {ss \in Nat \X Nat : ss[1] < ss[2]}
<1>1. IsWellFoundedOn(less, Nat)
  BY NatLessThanWellFounded DEF OpToRel
<1> HIDE DEF less
<1>2. PICK x \in T : \A y \in T : ~(<<y, x>> \in less)
  BY <1>1, WFMin
<1>3. \A y \in T : y < x => <<y, x>> \in less
  BY DEF less
<1> QED BY <1>2, <1>3

\* The equation that defines Those, up to a length.
Selects(f, list, set, n) ==
    f = [i \in 0..n |-> IF i = 0 THEN <<>>
                        ELSE IF list[i] \in set THEN Append(f[i-1], list[i]) ELSE f[i-1]]

\* It has a solution: a least length without one would not be 0, nor one more than another.
LEMMA SelectsExists ==
    ASSUME NEW list, NEW set, NEW n \in Nat
    PROVE  \E f : Selects(f, list, set, n)
<1> DEFINE T == {m \in Nat : ~\E f : Selects(f, list, set, m)}
<1>1. SUFFICES T = {}
  OBVIOUS
<1>2. SUFFICES ASSUME T # {} PROVE FALSE
  OBVIOUS
<1>3. T \subseteq Nat
  OBVIOUS
<1> HIDE DEF T
<1>4. PICK x \in T : \A y \in T : ~(y < x)
  BY <1>2, <1>3, LeastNumber
<1>5. CASE x = 0
  <2> DEFINE f == [i \in 0..0 |-> <<>>]
  <2>1. \A i \in 0..0 : i = 0
    OBVIOUS
  <2>2. Selects(f, list, set, 0)
    BY <2>1 DEF Selects
  <2> HIDE DEF f
  <2> QED BY <1>4, <1>5, <2>2 DEF T
<1>6. CASE x # 0
  <2>1. x - 1 \in Nat /\ x - 1 \notin T /\ x \in Nat
    BY <1>3, <1>4, <1>6
  <2>2. PICK f : Selects(f, list, set, x - 1)
    BY <2>1 DEF T
  <2> DEFINE g == [i \in 0..x |-> IF i # x THEN f[i]
                                  ELSE IF list[i] \in set THEN Append(f[i-1], list[i]) ELSE f[i-1]]
  <2>3. ASSUME NEW i \in 0..x
        PROVE  g[i] = IF i = 0 THEN <<>>
                      ELSE IF list[i] \in set THEN Append(g[i-1], list[i]) ELSE g[i-1]
    <3>1. i # 0 => i - 1 \in 0..x /\ i - 1 # x
      BY <2>1
    <3>2. i # 0 => g[i-1] = f[i-1]
      BY <3>1
    <3>3. CASE i = x
      BY <1>6, <3>2, <3>3
    <3>4. CASE i # x
      <4>1. i \in 0..(x-1) /\ g[i] = f[i]
        BY <2>1, <3>4
      <4>2. f[i] = IF i = 0 THEN <<>>
                   ELSE IF list[i] \in set THEN Append(f[i-1], list[i]) ELSE f[i-1]
        BY <2>2, <4>1 DEF Selects
      <4> HIDE DEF g
      <4> QED BY <3>2, <4>1, <4>2
    <3> QED BY <3>3, <3>4
  <2>4. g = [i \in 0..x |-> g[i]]
    OBVIOUS
  <2> HIDE DEF g
  <2>5. Selects(g, list, set, x)
    <3>1. [i \in 0..x |-> g[i]] = [i \in 0..x |-> IF i = 0 THEN <<>>
                        ELSE IF list[i] \in set THEN Append(g[i-1], list[i]) ELSE g[i-1]]
      BY <2>3
    <3> QED BY <2>4, <3>1 DEF Selects
  <2> QED BY <1>4, <2>5 DEF T
<1> QED BY <1>5, <1>6

\* Those of a list: nobody twice, and exactly the threads of the set.
LEMMA ThoseAre ==
    ASSUME NEW S, NEW list \in Seq(S), OneNodeEach(list), NEW set
    PROVE  /\ Those(list, set) \in Seq(S) /\ OneNodeEach(Those(list, set))
           /\ Linked(Those(list, set)) = Linked(list) \cap set
<1> DEFINE f == CHOOSE f : Selects(f, list, set, Len(list))
           First(n) == {list[i] : i \in 1..n}
           Good(n) == /\ f[n] \in Seq(S) /\ OneNodeEach(f[n])
                      /\ Linked(f[n]) = First(n) \cap set
           T == {n \in 0..Len(list) : ~Good(n)}
<1>1. Len(list) \in Nat /\ \A i \in 1..Len(list) : list[i] \in S
  BY LenProperties, ElementOfSeq
<1>2. Selects(f, list, set, Len(list))
  <2>1. \E g : Selects(g, list, set, Len(list))
    BY <1>1, SelectsExists
  <2> QED BY <2>1
<1>3. Those(list, set) = f[Len(list)]
  BY DEF Those, Selects
<1> HIDE DEF f
<1>4. \A i \in 0..Len(list) :
         f[i] = IF i = 0 THEN <<>>
                ELSE IF list[i] \in set THEN Append(f[i-1], list[i]) ELSE f[i-1]
  BY <1>2 DEF Selects
<1>5. T = {}
  <2>1. SUFFICES ASSUME T # {} PROVE FALSE
    OBVIOUS
  <2>2. T \subseteq Nat
    BY <1>1
  <2> HIDE DEF T
  <2>3. PICK x \in T : \A y \in T : ~(y < x)
    BY <2>1, <2>2, LeastNumber
  <2>4. x \in 0..Len(list) /\ ~Good(x)
    BY <2>3 DEF T
  <2>5. CASE x = 0
    <3>1. f[0] = <<>> /\ First(0) = {}
      BY <1>1, <1>4
    <3> QED BY <2>4, <2>5, <3>1, EmptyLinked
  <2>6. CASE x # 0
    <3> DEFINE b == x - 1
    <3>1. b \in 0..Len(list) /\ b < x /\ x \in 1..Len(list) /\ x = b + 1
      BY <1>1, <2>4, <2>6
    <3>2. b \notin T
      BY <2>3, <3>1
    <3>3. Good(b)
      BY <3>1, <3>2 DEF T
    <3>4. f[x] = IF list[x] \in set THEN Append(f[b], list[x]) ELSE f[b]
      BY <1>4, <2>4, <2>6
    <3> HIDE DEF b
    <3>5. First(x) = First(b) \cup {list[x]}
      BY <3>1
    <3>6. list[x] \notin First(b)
      BY <1>1, <3>1 DEF OneNodeEach
    <3>7. list[x] \in S
      BY <1>1, <3>1
    <3> DEFINE p == f[b]
               e == list[x]
               F == First(b)
    <3>8. p \in Seq(S) /\ OneNodeEach(p) /\ Linked(p) = F \cap set /\ e \in S /\ e \notin F
      BY <3>3, <3>6, <3>7
    <3>9. f[x] = (IF e \in set THEN Append(p, e) ELSE p) /\ First(x) = F \cup {e}
      BY <3>4, <3>5
    <3> HIDE DEF p, e, F, First, Good
    <3>10. CASE e \in set
      <4>1. /\ Append(p, e) \in Seq(S) /\ OneNodeEach(Append(p, e))
            /\ Linked(Append(p, e)) = Linked(p) \cup {e}
        BY <3>8, AppendLinked
      <4> QED BY <2>4, <3>8, <3>9, <3>10, <4>1 DEF Good
    <3>11. CASE e \notin set
      BY <2>4, <3>8, <3>9, <3>11 DEF Good
    <3> QED BY <3>10, <3>11
  <2> QED BY <2>5, <2>6
<1>6. Good(Len(list))
  <2>1. Len(list) \in 0..Len(list)
    BY <1>1
  <2> HIDE DEF Good
  <2> QED BY <1>5, <2>1
<1>7. First(Len(list)) = Linked(list)
  BY <1>1, LinkedAt
<1> QED BY <1>3, <1>6, <1>7
=============================================================================
