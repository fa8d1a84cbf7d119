---------------------------- MODULE SelectIoProofs ----------------------------
(***************************************************************************)
(* Proofs about the select() scheduler: the descriptor sets and counts are *)
(* exact, and no thread is linked twice, for any number of threads and     *)
(* descriptors.                                                            *)
(***************************************************************************)
EXTENDS SelectIo, SequenceTheorems, FiniteSetTheorems, NaturalsInduction,
        WellFoundedInduction, TLAPS

(* A queue of threads in which nobody is linked twice.                     *)
Queue(q) == q \in Seq(Threads) /\ IsInjective(q)

SiType ==
    /\ cur \in Threads \cup {Idle}
    /\ call \in [Threads -> Calls \cup {None}]
    /\ avail \in [Pds -> Nat]
    /\ maxfd \in -1..NumFds - 1

(* The running thread is on no queue but perhaps the I/O queue, which      *)
(* holds threads in a call, all those that sleep among them.               *)
QueueInv ==
    /\ Queue(runq) /\ Queue(sleepq) /\ Queue(ioq)
    /\ ToSet(runq) \cap ToSet(sleepq) = {}
    /\ cur \notin ToSet(runq) \cup ToSet(sleepq)
    /\ ToSet(sleepq) \subseteq ToSet(ioq)
    /\ \A t \in ToSet(ioq) : call[t] # None

(* The inductive invariant.                                                *)
SiInv == SiType /\ QueueInv /\ SelectSetExact

-----------------------------------------------------------------------------
(* Facts about the queues.                                                 *)

(* The members of a queue.                                                 *)
LEMMA Members ==
  ASSUME NEW q \in Seq(Threads)
  PROVE  /\ Len(q) \in Nat /\ q \in [1..Len(q) -> Threads] /\ ToSet(q) \subseteq Threads
         /\ \A x : x \in ToSet(q) <=> \E i \in 1..Len(q) : q[i] = x
         /\ \A x : Contains(q, x) <=> x \in ToSet(q)
         /\ IsInjective(q) <=> \A i, j \in 1..Len(q) : q[i] = q[j] => i = j
BY DEF ToSet, Contains, IsInjective

(* The empty queue.                                                        *)
LEMMA EmptyQueue == Queue(<<>>) /\ ToSet(<<>>) = {}
BY DEF Queue, IsInjective, ToSet

(* Linking a thread at the end.                                            *)
LEMMA AppendQueue ==
  ASSUME NEW q, Queue(q), NEW t \in Threads, t \notin ToSet(q)
  PROVE  Queue(Append(q, t)) /\ ToSet(Append(q, t)) = ToSet(q) \cup {t}
<1> DEFINE r == Append(q, t)
<1>1. q \in Seq(Threads) /\ Len(q) \in Nat
  BY DEF Queue
<1>2. /\ r \in Seq(Threads) /\ Len(r) = Len(q) + 1 /\ r[Len(q) + 1] = t
      /\ \A i \in 1..Len(q) : r[i] = q[i]
  BY <1>1, AppendProperties
<1> HIDE DEF r
<1>3. \A i, j \in 1..Len(q) : q[i] = q[j] => i = j
  BY <1>1, Members DEF Queue
<1>4. \A i \in 1..Len(q) : q[i] # t
  BY <1>1, Members
<1>5. \A i, j \in 1..Len(r) : r[i] = r[j] => i = j
  BY <1>1, <1>2, <1>3, <1>4
<1>6. \A x : (\E i \in 1..Len(r) : r[i] = x) <=> (\E i \in 1..Len(q) : q[i] = x) \/ x = t
  BY <1>1, <1>2
<1>7. ToSet(r) = ToSet(q) \cup {t}
  BY <1>1, <1>2, <1>6, Members
<1> QED BY <1>2, <1>5, <1>7, Members DEF Queue, r

(* Taking the first thread.                                                *)
LEMMA HeadQueue ==
  ASSUME NEW q, Queue(q), q # <<>>
  PROVE  /\ Queue(Tail(q)) /\ Head(q) \in Threads /\ Head(q) \notin ToSet(Tail(q))
         /\ ToSet(q) = ToSet(Tail(q)) \cup {Head(q)}
<1> DEFINE r == Tail(q)
<1>1. q \in Seq(Threads) /\ Len(q) \in Nat /\ Len(q) >= 1 /\ Head(q) = q[1]
  BY DEF Queue
<1>2. r \in Seq(Threads) /\ Len(r) = Len(q) - 1 /\ \A i \in 1..Len(r) : r[i] = q[i + 1]
  BY <1>1
<1> HIDE DEF r
<1>3. \A i, j \in 1..Len(q) : q[i] = q[j] => i = j
  BY <1>1, Members DEF Queue
<1>4. /\ \A i \in 1..Len(r) : i + 1 \in 1..Len(q) /\ i + 1 # 1
      /\ 1 \in 1..Len(q)
      /\ \A i \in 1..Len(q) : i # 1 => i - 1 \in 1..Len(r) /\ (i - 1) + 1 = i
  BY <1>1, <1>2
<1>5. \A i, j \in 1..Len(r) : r[i] = r[j] => i = j
  <2> SUFFICES ASSUME NEW i \in 1..Len(r), NEW j \in 1..Len(r), r[i] = r[j] PROVE i = j
    OBVIOUS
  <2>1. i + 1 = j + 1
    BY <1>2, <1>3, <1>4
  <2> QED BY <1>1, <1>2, <2>1
<1>6. \A i \in 1..Len(r) : r[i] # q[1]
  BY <1>2, <1>3, <1>4
<1>7. \A x : (\E i \in 1..Len(q) : q[i] = x) <=> (\E i \in 1..Len(r) : r[i] = x) \/ x = q[1]
  <2>1. ASSUME NEW i \in 1..Len(q) PROVE (\E j \in 1..Len(r) : r[j] = q[i]) \/ q[i] = q[1]
    BY <1>2, <1>4
  <2>2. ASSUME NEW i \in 1..Len(r) PROVE \E j \in 1..Len(q) : q[j] = r[i]
    BY <1>2, <1>4
  <2> QED BY <1>4, <2>1, <2>2
<1>8. ToSet(q) = ToSet(r) \cup {q[1]}
  BY <1>1, <1>2, <1>7, Members
<1>9. q[1] \notin ToSet(r)
  BY <1>2, <1>6, Members
<1> QED BY <1>1, <1>2, <1>5, <1>8, <1>9, Members DEF Queue, r

(* Two queues, one behind the other.                                       *)
LEMMA ConcatQueue ==
  ASSUME NEW p, Queue(p), NEW q, Queue(q), ToSet(p) \cap ToSet(q) = {}
  PROVE  Queue(p \o q) /\ ToSet(p \o q) = ToSet(p) \cup ToSet(q)
<1> DEFINE r == p \o q
           m == Len(p)
           n == Len(q)
<1>1. p \in Seq(Threads) /\ m \in Nat /\ q \in Seq(Threads) /\ n \in Nat
  BY DEF Queue
<1>2. /\ r \in Seq(Threads) /\ Len(r) = m + n
      /\ \A i \in 1..(m + n) : r[i] = IF i <= m THEN p[i] ELSE q[i - m]
  BY <1>1, ConcatProperties
<1> HIDE DEF r
<1>3. /\ \A i, j \in 1..m : p[i] = p[j] => i = j
      /\ \A i, j \in 1..n : q[i] = q[j] => i = j
      /\ \A i \in 1..m, j \in 1..n : p[i] # q[j]
  BY <1>1, Members DEF Queue
<1>4. /\ \A x : x \in ToSet(p) <=> \E i \in 1..m : p[i] = x
      /\ \A x : x \in ToSet(q) <=> \E i \in 1..n : q[i] = x
      /\ \A x : x \in ToSet(r) <=> \E i \in 1..(m + n) : r[i] = x
  <2>1. \A x : x \in ToSet(r) <=> \E i \in 1..Len(r) : r[i] = x
    BY <1>2, Members
  <2> QED BY <1>1, <1>2, <2>1, Members
<1> HIDE DEF m, n
<1>5. /\ \A i \in 1..(m + n) : i \in 1..m \/ (~(i <= m) /\ i - m \in 1..n)
      /\ \A i \in 1..m : i <= m /\ i \in 1..(m + n)
      /\ \A i \in 1..n : m + i \in 1..(m + n) /\ ~(m + i <= m) /\ (m + i) - m = i
  BY <1>1
<1>6. \A i, j \in 1..(m + n) : r[i] = r[j] => i = j
  <2> SUFFICES ASSUME NEW i \in 1..(m + n), NEW j \in 1..(m + n), r[i] = r[j] PROVE i = j
    OBVIOUS
  <2>1. CASE i <= m /\ j <= m
    <3>1. i \in 1..m /\ j \in 1..m
      BY <1>1, <2>1
    <3> QED BY <1>2, <1>3, <2>1, <3>1
  <2>2. CASE ~(i <= m) /\ ~(j <= m)
    <3>1. i - m \in 1..n /\ j - m \in 1..n
      BY <1>1, <2>2
    <3>2. i - m = j - m
      BY <1>2, <1>3, <2>2, <3>1
    <3> QED BY <1>1, <3>2
  <2>3. CASE i <= m /\ ~(j <= m)
    <3>1. i \in 1..m /\ j - m \in 1..n
      BY <1>1, <2>3
    <3> QED BY <1>2, <1>3, <2>3, <3>1
  <2>4. CASE ~(i <= m) /\ j <= m
    <3>1. j \in 1..m /\ i - m \in 1..n
      BY <1>1, <2>4
    <3> QED BY <1>2, <1>3, <2>4, <3>1
  <2> QED BY <2>1, <2>2, <2>3, <2>4
<1>7. ToSet(r) = ToSet(p) \cup ToSet(q)
  <2>1. ASSUME NEW i \in 1..(m + n) PROVE r[i] \in ToSet(p) \cup ToSet(q)
    BY <1>2, <1>4, <1>5
  <2>2. ASSUME NEW i \in 1..m PROVE p[i] \in ToSet(r)
    BY <1>2, <1>4, <1>5
  <2>3. ASSUME NEW i \in 1..n PROVE q[i] \in ToSet(r)
    BY <1>2, <1>4, <1>5
  <2> QED BY <1>4, <2>1, <2>2, <2>3
<1>8. Queue(r)
  BY <1>2, <1>6, Members DEF Queue
<1> QED BY <1>7, <1>8 DEF r

(* The first k threads of a queue and the others.                          *)
LEMMA SplitQueue ==
  ASSUME NEW q, Queue(q), NEW k \in 0..Len(q)
  PROVE  LET a == SubSeq(q, 1, k)
             b == SubSeq(q, k + 1, Len(q))
         IN  Queue(a) /\ Queue(b) /\ ToSet(a) \cap ToSet(b) = {} /\ ToSet(a) \cup ToSet(b) = ToSet(q)
<1> DEFINE a == SubSeq(q, 1, k)
           b == SubSeq(q, k + 1, Len(q))
           n == Len(q)
<1>1. q \in Seq(Threads) /\ n \in Nat /\ k \in 0..n
  BY DEF Queue
<1>2. a \in Seq(Threads) /\ Len(a) = k /\ \A i \in 1..k : a[i] = q[i]
  BY <1>1
<1>3. b \in Seq(Threads) /\ Len(b) = n - k /\ \A i \in 1..(n - k) : b[i] = q[k + i]
  <2>1. \A i \in 1..(n - k) : b[i] = q[(k + 1) + i - 1] /\ (k + 1) + i - 1 = k + i
    BY <1>1
  <2>2. b \in Seq(Threads) /\ Len(b) = n - k
    BY <1>1
  <2> QED BY <2>1, <2>2
<1>4. \A i, j \in 1..n : q[i] = q[j] => i = j
  BY <1>1, Members DEF Queue
<1>5. /\ \A x : x \in ToSet(a) <=> \E i \in 1..k : a[i] = x
      /\ \A x : x \in ToSet(b) <=> \E i \in 1..(n - k) : b[i] = x
      /\ \A x : x \in ToSet(q) <=> \E i \in 1..n : q[i] = x
  BY <1>1, <1>2, <1>3, Members
<1> HIDE DEF a, b, n
<1>6. /\ \A i \in 1..k : i \in 1..n
      /\ \A i \in 1..(n - k) : k + i \in 1..n
      /\ \A i \in 1..k, j \in 1..(n - k) : i # k + j
      /\ \A i \in 1..n : i \in 1..k \/ (i - k \in 1..(n - k) /\ k + (i - k) = i)
      /\ \A i, j \in 1..(n - k) : k + i = k + j => i = j
  BY <1>1
<1>7. Queue(a)
  BY <1>2, <1>4, <1>6, Members DEF Queue
<1>8. Queue(b)
  <2>1. \A i, j \in 1..(n - k) : b[i] = b[j] => i = j
    BY <1>3, <1>4, <1>6
  <2> QED BY <1>3, <2>1, Members DEF Queue
<1>9. ToSet(a) \cap ToSet(b) = {}
  BY <1>2, <1>3, <1>4, <1>5, <1>6
<1>10. ToSet(a) \cup ToSet(b) = ToSet(q)
  BY <1>2, <1>3, <1>5, <1>6
<1> QED BY <1>7, <1>8, <1>9, <1>10 DEF a, b, n

(* A thread by itself.                                                     *)
LEMMA OneQueue == ASSUME NEW t \in Threads PROVE Queue(<<t>>) /\ ToSet(<<t>>) = {t}
<1>1. Append(<<>>, t) = <<t>>
  OBVIOUS
<1>2. Queue(Append(<<>>, t)) /\ ToSet(Append(<<>>, t)) = ToSet(<<>>) \cup {t}
  <2>1. t \notin ToSet(<<>>)
    BY EmptyQueue
  <2> QED BY <2>1, EmptyQueue, AppendQueue
<1> QED BY <1>1, <1>2, EmptyQueue

(* Linking a thread anywhere.                                              *)
LEMMA InsertQueue ==
  ASSUME NEW q, Queue(q), NEW t \in Threads, t \notin ToSet(q), NEW k \in 1..Len(q) + 1
  PROVE  Queue(InsertAt(q, k, t)) /\ ToSet(InsertAt(q, k, t)) = ToSet(q) \cup {t}
<1>1. q \in Seq(Threads) /\ Len(q) \in Nat
  BY DEF Queue
<1>2. k - 1 \in 0..Len(q) /\ (k - 1) + 1 = k
  BY <1>1
<1> DEFINE a == SubSeq(q, 1, k - 1)
           b == SubSeq(q, k, Len(q))
<1>3. Queue(a) /\ Queue(b) /\ ToSet(a) \cap ToSet(b) = {} /\ ToSet(a) \cup ToSet(b) = ToSet(q)
  BY <1>2, SplitQueue
<1>4. InsertAt(q, k, t) = a \o <<t>> \o b
  BY DEF InsertAt
<1> HIDE DEF a, b
<1>5. Queue(a \o <<t>>) /\ ToSet(a \o <<t>>) = ToSet(a) \cup {t}
  <2>1. ToSet(a) \cap ToSet(<<t>>) = {}
    BY <1>3, OneQueue
  <2> QED BY <1>3, <2>1, OneQueue, ConcatQueue
<1>6. ToSet(a \o <<t>>) \cap ToSet(b) = {}
  BY <1>3, <1>5
<1>7. Queue((a \o <<t>>) \o b) /\ ToSet((a \o <<t>>) \o b) = ToSet(a \o <<t>>) \cup ToSet(b)
  BY <1>3, <1>5, <1>6, ConcatQueue
<1> QED BY <1>3, <1>4, <1>5, <1>7

(* The order in which a least number is taken.                             *)
Less == {ss \in Nat \X Nat : ss[1] < ss[2]}

(* A set of numbers has one whose predecessor is not in it.                *)
LEMMA LeastNumber ==
  ASSUME NEW D, D \subseteq Nat, D # {}
  PROVE  \E d \in D : d = 0 \/ (d - 1 \in Nat /\ d - 1 \notin D)
<1>1. IsWellFoundedOn(Less, Nat)
  <2>1. Less = OpToRel(<, Nat)
    BY Zenon DEF Less, OpToRel
  <2> QED BY <2>1, NatLessThanWellFounded
<1>2. PICK d \in D : \A e \in D : ~(<<e, d>> \in Less)
  BY <1>1, WFMin
<1>3. d = 0 \/ (d - 1 \in Nat /\ <<d - 1, d>> \in Less)
  <2>1. d = 0 \/ (d - 1 \in Nat /\ d - 1 < d /\ d \in Nat)
    OBVIOUS
  <2> QED BY <2>1 DEF Less
<1> QED BY <1>2, <1>3

(* What Keep promises, for the first m threads of a queue.                 *)
KeptOf(r, q, m, S) ==
    /\ r \in Seq(Threads) /\ Len(r) <= m
    /\ \A i \in 1..Len(r) : r[i] \in S /\ \E k \in 1..m : q[k] = r[i]
    /\ \A k \in 1..m : q[k] \in S => \E i \in 1..Len(r) : r[i] = q[k]
    /\ \A i, j \in 1..Len(r) : i < j => \E k, l \in 1..m : k < l /\ q[k] = r[i] /\ q[l] = r[j]

(* One more thread of the queue.                                           *)
LEMMA KeptNext ==
  ASSUME NEW q \in Seq(Threads), NEW S, NEW m \in Nat, m + 1 \in 1..Len(q),
         NEW r, KeptOf(r, q, m, S)
  PROVE  \E u : KeptOf(u, q, m + 1, S)
<1> DEFINE x == q[m + 1]
<1>1. r \in Seq(Threads) /\ Len(r) \in Nat /\ Len(r) <= m /\ x \in Threads
  BY DEF KeptOf
<1>2. /\ \A k \in 1..m : k \in 1..(m + 1) /\ k < m + 1
      /\ m + 1 \in 1..(m + 1)
      /\ \A k \in 1..(m + 1) : k \in 1..m \/ k = m + 1
  OBVIOUS
<1>3. CASE x \notin S
  <2>1. Len(r) <= m + 1
    BY <1>1
  <2>2. \A k \in 1..(m + 1) : q[k] \in S => \E i \in 1..Len(r) : r[i] = q[k]
    BY <1>2, <1>3 DEF KeptOf
  <2>3. \A i \in 1..Len(r) : r[i] \in S /\ \E k \in 1..(m + 1) : q[k] = r[i]
    BY <1>2 DEF KeptOf
  <2>4. \A i, j \in 1..Len(r) : i < j => \E k, l \in 1..(m + 1) : k < l /\ q[k] = r[i] /\ q[l] = r[j]
    BY <1>2 DEF KeptOf
  <2>5. KeptOf(r, q, m + 1, S)
    BY <1>1, <2>1, <2>2, <2>3, <2>4 DEF KeptOf
  <2> QED BY <2>5
<1>4. CASE x \in S
  <2> DEFINE u == Append(r, x)
             n == Len(r)
  <2>1. /\ u \in Seq(Threads) /\ Len(u) = n + 1 /\ u[n + 1] = x
        /\ \A i \in 1..n : u[i] = r[i]
    BY <1>1, AppendProperties
  <2>2. n \in Nat /\ n + 1 <= m + 1
    BY <1>1
  <2>3. /\ \A i \in 1..n : r[i] \in S /\ \E k \in 1..m : q[k] = r[i]
        /\ \A k \in 1..m : q[k] \in S => \E i \in 1..n : r[i] = q[k]
        /\ \A i, j \in 1..n : i < j => \E k, l \in 1..m : k < l /\ q[k] = r[i] /\ q[l] = r[j]
    BY DEF KeptOf
  <2>4. q[m + 1] = x
    OBVIOUS
  <2> HIDE DEF u, n, x
  <2>5. /\ \A i \in 1..(n + 1) : i \in 1..n \/ i = n + 1
        /\ \A i \in 1..n : i \in 1..(n + 1)
        /\ n + 1 \in 1..(n + 1)
        /\ \A i \in 1..(n + 1) : ~(n + 1 < i)
    BY <2>2
  <2>6. \A i \in 1..(n + 1) : u[i] \in S /\ \E k \in 1..(m + 1) : q[k] = u[i]
    BY <1>2, <1>4, <2>1, <2>3, <2>4, <2>5
  <2>7. \A k \in 1..(m + 1) : q[k] \in S => \E i \in 1..(n + 1) : u[i] = q[k]
    <3> SUFFICES ASSUME NEW k \in 1..(m + 1), q[k] \in S PROVE \E i \in 1..(n + 1) : u[i] = q[k]
      OBVIOUS
    <3>1. CASE k \in 1..m
      BY <2>1, <2>3, <2>5, <3>1
    <3>2. CASE k = m + 1
      BY <2>1, <2>4, <2>5, <3>2
    <3> QED BY <1>2, <3>1, <3>2
  <2>8. \A i, j \in 1..(n + 1) : i < j => \E k, l \in 1..(m + 1) : k < l /\ q[k] = u[i] /\ q[l] = u[j]
    <3> SUFFICES ASSUME NEW i \in 1..(n + 1), NEW j \in 1..(n + 1), i < j
                 PROVE  \E k, l \in 1..(m + 1) : k < l /\ q[k] = u[i] /\ q[l] = u[j]
      OBVIOUS
    <3>1. CASE j \in 1..n
      <4>1. i \in 1..n
        BY <2>2, <3>1
      <4>2. PICK k, l \in 1..m : k < l /\ q[k] = r[i] /\ q[l] = r[j]
        BY <2>3, <3>1, <4>1
      <4> QED BY <1>2, <2>1, <3>1, <4>1, <4>2
    <3>2. CASE j = n + 1
      <4>1. i \in 1..n
        BY <2>2, <3>2
      <4>2. PICK k \in 1..m : q[k] = r[i]
        BY <2>3, <4>1
      <4> QED BY <1>2, <2>1, <2>4, <3>2, <4>1, <4>2
    <3> QED BY <2>5, <3>1, <3>2
  <2>9. KeptOf(u, q, m + 1, S)
    BY <2>1, <2>2, <2>6, <2>7, <2>8 DEF KeptOf
  <2> QED BY <2>9
<1> QED BY <1>3, <1>4

(* Unlinking threads leaves a queue of the others.                         *)
LEMMA KeepQueue ==
  ASSUME NEW q, Queue(q), NEW S
  PROVE  Queue(Keep(q, S)) /\ ToSet(Keep(q, S)) = ToSet(q) \cap S
<1>1. q \in Seq(Threads) /\ Len(q) \in Nat
  BY DEF Queue
<1> DEFINE D == {m \in 0..Len(q) : ~\E r : KeptOf(r, q, m, S)}
<1>2. D = {}
  <2> SUFFICES ASSUME D # {} PROVE FALSE
    OBVIOUS
  <2>1. D \subseteq Nat
    BY <1>1
  <2>2. PICK d \in D : d = 0 \/ (d - 1 \in Nat /\ d - 1 \notin D)
    <3> HIDE DEF D
    <3> QED BY <2>1, LeastNumber
  <2>3. KeptOf(<<>>, q, 0, S)
    BY DEF KeptOf
  <2>4. d # 0
    BY <2>2, <2>3
  <2>5. d - 1 \in 0..Len(q) /\ (d - 1) + 1 = d /\ d \in 1..Len(q)
    BY <1>1, <2>2, <2>4
  <2>6. PICK r : KeptOf(r, q, d - 1, S)
    BY <2>2, <2>4, <2>5
  <2>7. \E u : KeptOf(u, q, (d - 1) + 1, S)
    BY <1>1, <2>2, <2>4, <2>5, <2>6, KeptNext
  <2> QED BY <2>2, <2>5, <2>7
<1>3. PICK r : KeptOf(r, q, Len(q), S)
  BY <1>1, <1>2
<1>4. r \in Seq(Threads) /\ Len(r) \in Nat /\ Len(r) <= Len(q)
  BY <1>3 DEF KeptOf
<1>5. r \in BoundedSeq(Threads, Len(q))
  <2>1. r \in [1..Len(r) -> Threads] /\ Len(r) \in 0..Len(q)
    BY <1>1, <1>4
  <2> QED BY <2>1 DEF BoundedSeq, SeqOf
<1>6. ToSet(r) = ToSet(q) \cap S
  BY <1>1, <1>3, <1>4, Members DEF KeptOf
<1>7. IsKept(r, q, S)
  BY <1>3, <1>6 DEF IsKept, KeptOf
<1> DEFINE u == Keep(q, S)
<1>8. u \in BoundedSeq(Threads, Len(q)) /\ IsKept(u, q, S)
  BY <1>5, <1>7 DEF Keep
<1> HIDE DEF u
<1>9. u \in Seq(Threads) /\ Len(u) \in Nat
  <2>1. PICK m \in 0..Len(q) : u \in [1..m -> Threads]
    BY <1>8 DEF BoundedSeq, SeqOf
  <2> QED BY <1>1, <2>1
<1>10. \A i, j \in 1..Len(u) : u[i] = u[j] => i = j
  <2> SUFFICES ASSUME NEW i \in 1..Len(u), NEW j \in 1..Len(u), u[i] = u[j] PROVE i = j
    OBVIOUS
  <2>1. \A k, l \in 1..Len(q) : q[k] = q[l] => k = l
    BY <1>1, Members DEF Queue
  <2>2. ~(i < j)
    <3> SUFFICES ASSUME i < j PROVE FALSE
      OBVIOUS
    <3>1. PICK k, l \in 1..Len(q) : k < l /\ q[k] = u[i] /\ q[l] = u[j]
      BY <1>8 DEF IsKept
    <3> QED BY <1>1, <2>1, <3>1
  <2>3. ~(j < i)
    <3> SUFFICES ASSUME j < i PROVE FALSE
      OBVIOUS
    <3>1. PICK k, l \in 1..Len(q) : k < l /\ q[k] = u[j] /\ q[l] = u[i]
      BY <1>8 DEF IsKept
    <3> QED BY <1>1, <2>1, <3>1
  <2> QED BY <1>9, <2>2, <2>3
<1>11. Queue(u)
  BY <1>9, <1>10, Members DEF Queue
<1> QED BY <1>8, <1>11 DEF u, IsKept

(* Init's run queue.                                                       *)
LEMMA AllThreadsQueue == Queue(SetToSeq(Threads)) /\ ToSet(SetToSeq(Threads)) \subseteq Threads
<1> DEFINE n == Cardinality(Threads)
           q == SetToSeq(Threads)
<1>1. n \in Nat /\ ExistsBijection(1..n, Threads)
  BY SelectIoAssumption, FS_CardinalityType
<1>2. PICK f \in Bijection(1..n, Threads) : TRUE
  BY <1>1 DEF ExistsBijection
<1>3. f \in [1..n -> Threads] /\ IsInjective(f)
  BY <1>2 DEF Bijection, Injection, IsInjective
<1>4. q \in [1..n -> Threads] /\ IsInjective(q)
  BY <1>3 DEF SetToSeq
<1> HIDE DEF q, n
<1>5. q \in Seq(Threads)
  BY <1>1, <1>4
<1> QED BY <1>4, <1>5, Members DEF Queue, q

-----------------------------------------------------------------------------
(* Facts about the select set.                                             *)

(* The greatest of some descriptors, -1 among them.                        *)
LEMMA MaxFacts ==
  ASSUME NEW S, S \subseteq -1..NumFds - 1, S # {}
  PROVE  Max(S) \in S /\ Max(S) \in -1..NumFds - 1 /\ \A y \in S : y <= Max(S)
<1>1. NumFds \in Nat
  BY SelectIoAssumption
<1> DEFINE D == {n \in 0..NumFds : \A y \in S : y <= n - 1}
<1>2. D \subseteq Nat /\ D # {}
  <2>1. \A y \in S : y <= NumFds - 1
    BY <1>1
  <2>2. NumFds \in D
    BY <1>1, <2>1
  <2> QED BY <1>1, <2>2
<1>3. PICK d \in D : d = 0 \/ (d - 1 \in Nat /\ d - 1 \notin D)
  <2> HIDE DEF D
  <2> QED BY <1>2, LeastNumber
<1>4. \E x \in S : \A y \in S : x >= y
  <2>1. d \in Nat /\ d <= NumFds /\ \A y \in S : y <= d - 1
    BY <1>1, <1>3
  <2>2. CASE d = 0
    <3>1. PICK x \in S : TRUE
      OBVIOUS
    <3>2. x \in Int /\ x >= -1 /\ \A y \in S : y \in Int /\ y <= -1
      BY <2>1, <2>2
    <3>3. \A y \in S : x >= y
      BY <3>2
    <3> QED BY <3>3
  <2>3. CASE d # 0
    <3>1. d - 1 \in 0..NumFds
      BY <1>1, <1>3, <2>1, <2>3
    <3>2. PICK x \in S : ~(x <= (d - 1) - 1)
      BY <1>3, <2>3, <3>1
    <3>3. x \in Int /\ \A y \in S : y \in Int
      OBVIOUS
    <3>4. \A y \in S : x >= y
      BY <2>1, <3>2, <3>3
    <3> QED BY <3>4
  <2> QED BY <2>2, <2>3
<1>5. Max(S) \in S /\ \A y \in S : Max(S) >= y
  BY <1>4 DEF Max
<1>6. Max(S) \in -1..NumFds - 1 /\ \A y \in S : y \in -1..NumFds - 1
  BY <1>5
<1> HIDE <1>4
<1>7. \A m \in -1..NumFds - 1, y \in -1..NumFds - 1 : m >= y => y <= m
  BY <1>1
<1> QED BY <1>5, <1>6, <1>7

(* The lesser of two numbers.                                              *)
LEMMA MinPair ==
  ASSUME NEW a \in Int, NEW b \in Int
  PROVE  Min({a, b}) \in Int /\ Min({a, b}) <= a /\ Min({a, b}) <= b
<1> DEFINE m == Min({a, b})
<1>1. m = CHOOSE x \in {a, b} : \A y \in {a, b} : x <= y
  BY DEF Min
<1>2. \E x \in {a, b} : \A y \in {a, b} : x <= y
  OBVIOUS
<1> HIDE DEF m
<1>3. m \in {a, b} /\ \A y \in {a, b} : m <= y
  BY <1>1, <1>2
<1> QED BY <1>3 DEF m

(* Waiters, of the calls in f.                                             *)
WaitersIn(ts, f, pd) == {t \in ts : pd \in f[t].pds}

(* The counts c and the set fs are those of the requests of ts.            *)
Counted(c, fs, ts, f) ==
    /\ \A pd \in Pds : c[pd] = Cardinality(WaitersIn(ts, f, pd))
    /\ fs = {pd \in Pds : c[pd] > 0}

(* The counts are numbers.                                                 *)
LEMMA WaitersFinite ==
  ASSUME NEW ts \in SUBSET Threads, NEW f, NEW pd
  PROVE  /\ IsFiniteSet(WaitersIn(ts, f, pd)) /\ Cardinality(WaitersIn(ts, f, pd)) \in Nat
         /\ (Cardinality(WaitersIn(ts, f, pd)) = 0) <=> (WaitersIn(ts, f, pd) = {})
<1>1. WaitersIn(ts, f, pd) \in SUBSET Threads
  BY DEF WaitersIn
<1>2. IsFiniteSet(WaitersIn(ts, f, pd))
  BY <1>1, SelectIoAssumption, FS_Subset
<1> QED BY <1>2, FS_CardinalityType, FS_EmptySet

(* Counts of requests that did not change.                                 *)
LEMMA CountedSame ==
  ASSUME NEW c, NEW fs, NEW ts, NEW f, NEW g, Counted(c, fs, ts, f), \A t \in ts : g[t] = f[t]
  PROVE  Counted(c, fs, ts, g)
<1>1. \A pd \in Pds : WaitersIn(ts, g, pd) = WaitersIn(ts, f, pd)
  BY DEF WaitersIn
<1> QED BY <1>1 DEF Counted

(* Watch counts one more request.                                          *)
LEMMA CountedAdd ==
  ASSUME NEW c, NEW fs, NEW ts \in SUBSET Threads, NEW f, Counted(c, fs, ts, f),
         NEW t \in Threads, t \notin ts, NEW g, \A u \in ts : g[u] = f[u],
         NEW ds \in SUBSET Pds, g[t].pds = ds
  PROVE  Counted([pd \in Pds |-> IF pd \in ds THEN c[pd] + 1 ELSE c[pd]], fs \cup ds, ts \cup {t}, g)
<1> DEFINE d == [pd \in Pds |-> IF pd \in ds THEN c[pd] + 1 ELSE c[pd]]
<1>1. \A pd \in Pds : c[pd] \in Nat
  BY WaitersFinite DEF Counted
<1>2. \A pd \in Pds : d[pd] = Cardinality(WaitersIn(ts \cup {t}, g, pd))
  <2> SUFFICES ASSUME NEW pd \in Pds PROVE d[pd] = Cardinality(WaitersIn(ts \cup {t}, g, pd))
    OBVIOUS
  <2> DEFINE W == WaitersIn(ts, f, pd)
  <2>1. IsFiniteSet(W) /\ Cardinality(W) = c[pd] /\ t \notin W
    BY WaitersFinite DEF Counted, WaitersIn
  <2>2. WaitersIn(ts \cup {t}, g, pd) = IF pd \in ds THEN W \cup {t} ELSE W
    BY DEF WaitersIn
  <2> HIDE DEF W
  <2>3. Cardinality(W \cup {t}) = c[pd] + 1
    BY <2>1, FS_AddElement
  <2> QED BY <2>1, <2>2, <2>3
<1>3. fs \cup ds = {pd \in Pds : d[pd] > 0}
  <2>1. \A pd \in Pds : d[pd] > 0 <=> pd \in ds \/ c[pd] > 0
    BY <1>1
  <2> HIDE DEF d
  <2> QED BY <2>1 DEF Counted
<1> QED BY <1>2, <1>3 DEF Counted

(* Unwatched gives back the counts of the requests it takes off.           *)
LEMMA CountedRemove ==
  ASSUME NEW c, NEW fs, NEW ts \in SUBSET Threads, NEW f, Counted(c, fs, ts, f),
         NEW us \in SUBSET ts
  PROVE  Counted([pd \in Pds |-> c[pd] - Cardinality(WaitersIn(us, f, pd))],
                 {pd \in fs : WaitersIn(us, f, pd) = {} \/ c[pd] # Cardinality(WaitersIn(us, f, pd))},
                 ts \ us, f)
<1> DEFINE n(pd) == Cardinality(WaitersIn(us, f, pd))
           d == [pd \in Pds |-> c[pd] - n(pd)]
           es == {pd \in fs : WaitersIn(us, f, pd) = {} \/ c[pd] # n(pd)}
<1>1. ASSUME NEW pd \in Pds
      PROVE  /\ c[pd] \in Nat /\ n(pd) \in Nat /\ n(pd) <= c[pd]
             /\ (n(pd) = 0) <=> (WaitersIn(us, f, pd) = {})
             /\ d[pd] = Cardinality(WaitersIn(ts \ us, f, pd))
  <2> DEFINE W == WaitersIn(ts, f, pd)
             U == WaitersIn(us, f, pd)
  <2>1. IsFiniteSet(W) /\ Cardinality(W) \in Nat /\ c[pd] = Cardinality(W)
    BY WaitersFinite DEF Counted
  <2>2. U \in SUBSET W /\ WaitersIn(ts \ us, f, pd) = W \ U /\ W \cap U = U
    BY DEF WaitersIn
  <2>3. us \in SUBSET Threads
    OBVIOUS
  <2>4. /\ IsFiniteSet(U) /\ Cardinality(U) \in Nat
        /\ (Cardinality(U) = 0) <=> (U = {})
    BY <2>3, WaitersFinite
  <2>5. d[pd] = c[pd] - n(pd) /\ n(pd) = Cardinality(U) /\ WaitersIn(us, f, pd) = U
    OBVIOUS
  <2> HIDE DEF W, U, d, n
  <2>6. Cardinality(U) <= Cardinality(W)
    BY <2>1, <2>2, FS_Subset
  <2>7. Cardinality(W \ U) = Cardinality(W) - Cardinality(W \cap U)
    BY <2>1, FS_Difference
  <2>8. d[pd] = Cardinality(WaitersIn(ts \ us, f, pd))
    BY <2>1, <2>2, <2>5, <2>7
  <2>9. c[pd] \in Nat /\ n(pd) \in Nat /\ n(pd) <= c[pd]
    BY <2>1, <2>4, <2>5, <2>6
  <2>10. (n(pd) = 0) <=> (WaitersIn(us, f, pd) = {})
    BY <2>4, <2>5
  <2> QED BY <2>8, <2>9, <2>10
<1>2. es = {pd \in Pds : d[pd] > 0}
  <2>1. fs = {pd \in Pds : c[pd] > 0}
    BY DEF Counted
  <2>2. ASSUME NEW pd \in Pds
        PROVE  d[pd] > 0 <=> c[pd] > 0 /\ (WaitersIn(us, f, pd) = {} \/ c[pd] # n(pd))
    <3>1. d[pd] = c[pd] - n(pd)
      OBVIOUS
    <3>2. /\ c[pd] \in Nat /\ n(pd) \in Nat /\ n(pd) <= c[pd]
          /\ (n(pd) = 0) <=> (WaitersIn(us, f, pd) = {})
      BY <1>1
    <3>3. d[pd] > 0 <=> c[pd] > 0 /\ (n(pd) = 0 \/ c[pd] # n(pd))
      <4> HIDE DEF d, n
      <4> QED BY <3>1, <3>2
    <3> QED BY <3>2, <3>3
  <2> HIDE DEF d
  <2> QED BY <2>1, <2>2
<1>3. \A pd \in Pds : d[pd] = Cardinality(WaitersIn(ts \ us, f, pd))
  BY <1>1
<1> HIDE DEF d, es
<1>4. Counted(d, es, ts \ us, f)
  BY <1>2, <1>3 DEF Counted
<1> QED BY <1>4 DEF d, es

(* A counted pair has a waiter.                                            *)
LEMMA CountedWaiter ==
  ASSUME NEW c, NEW fs, NEW ts \in SUBSET Threads, NEW f, Counted(c, fs, ts, f), NEW pd \in fs
  PROVE  pd \in Pds /\ \E t \in ts : pd \in f[t].pds
<1>1. pd \in Pds /\ c[pd] > 0 /\ c[pd] = Cardinality(WaitersIn(ts, f, pd))
  BY DEF Counted
<1>2. WaitersIn(ts, f, pd) # {}
  <2>1. Cardinality(WaitersIn(ts, f, pd)) # 0
    BY <1>1
  <2> QED BY <2>1, WaitersFinite
<1> QED BY <1>1, <1>2 DEF WaitersIn

(* The bookkeeping, in terms of the counted requests.                      *)
LEMMA ExactIff ==
  /\ SelectSetExact <=> Counted(cnt, fdset, ToSet(ioq), call) /\ \A pd \in fdset : pd[1] <= maxfd
  /\ SelectSetExact' <=> Counted(cnt', fdset', ToSet(ioq'), call') /\ \A pd \in fdset' : pd[1] <= maxfd'
BY DEF SelectSetExact, Counted, Waiters, WaitersIn

-----------------------------------------------------------------------------
(* The steps.                                                              *)

(* A call is a record; its parts.                                          *)
LEMMA CallParts ==
  ASSUME NEW c \in Calls
  PROVE  /\ c.pds \in SUBSET Pds /\ c.need \in 0..MaxBytes /\ c.need \in Nat
         /\ \A m \in 0..MaxBytes : [c EXCEPT !.need = m] \in Calls
BY SelectIoAssumption DEF Calls

(* _st_vp_schedule takes the next thread of q, if there is one.            *)
LEMMA ScheduleStep ==
  ASSUME NEW q, Queue(q), _st_vp_schedule(q)
  PROVE  /\ Queue(runq') /\ ToSet(runq') \subseteq ToSet(q)
         /\ cur' \in ToSet(q) \cup {Idle} /\ cur' \in Threads \cup {Idle} /\ cur' \notin ToSet(runq')
<1>1. q \in Seq(Threads) /\ ToSet(q) \subseteq Threads
  BY Members DEF Queue
<1>2. CASE q # <<>>
  BY <1>2, HeadQueue DEF _st_vp_schedule
<1>3. CASE q = <<>>
  <2>1. runq' = <<>> /\ cur' = Idle
    BY <1>3 DEF _st_vp_schedule
  <2> QED BY <1>1, <1>3, <2>1, EmptyQueue
<1> QED BY <1>2, <1>3

(* The queues hold threads.                                                *)
LEMMA QueuesOfThreads ==
  ASSUME SiInv
  PROVE  /\ ToSet(runq) \subseteq Threads /\ ToSet(sleepq) \subseteq Threads
         /\ ToSet(ioq) \in SUBSET Threads
         /\ \A t : Contains(ioq, t) <=> t \in ToSet(ioq)
         /\ \A t : Contains(runq, t) <=> t \in ToSet(runq)
         /\ \A t \in ToSet(ioq) : call[t] \in Calls
<1>1. runq \in Seq(Threads) /\ sleepq \in Seq(Threads) /\ ioq \in Seq(Threads)
  BY DEF SiInv, QueueInv, Queue
<1>2. ToSet(ioq) \subseteq Threads
  BY <1>1, Members
<1>3. \A t \in ToSet(ioq) : call[t] \in Calls
  BY <1>2 DEF SiInv, QueueInv, SiType
<1> QED BY <1>1, <1>2, <1>3, Members

(* A call that ends without having been linked changes no queue.           *)
LEMMA EndStep ==
  ASSUME SiInv, NEW t \in Threads, t \notin ToSet(ioq),
         call' = [call EXCEPT ![t] = None], UNCHANGED <<cur, runq, ioq, sleepq, pvars>>,
         avail' \in [Pds -> Nat]
  PROVE  SiInv'
<1>1. SiType'
  BY DEF SiInv, SiType, pvars
<1>2. \A u \in ToSet(ioq) : call'[u] = call[u]
  BY QueuesOfThreads DEF SiInv, SiType
<1>3. QueueInv'
  BY <1>2 DEF SiInv, QueueInv
<1>4. SelectSetExact'
  <2>1. cnt' = cnt /\ fdset' = fdset /\ maxfd' = maxfd /\ ioq' = ioq
    BY DEF pvars
  <2>2. Counted(cnt, fdset, ToSet(ioq), call) /\ \A pd \in fdset : pd[1] <= maxfd
    BY ExactIff DEF SiInv
  <2>3. Counted(cnt, fdset, ToSet(ioq), call')
    BY <1>2, <2>2, CountedSame
  <2> QED BY <2>1, <2>2, <2>3, ExactIff
<1> QED BY <1>1, <1>3, <1>4 DEF SiInv

(* Linking a request keeps the select set exact.                           *)
LEMMA WatchExact ==
  ASSUME SiInv, NEW t \in Threads, t \notin ToSet(ioq), NEW c \in Calls, Watch(c.pds),
         ioq' = Append(ioq, t), call' = [call EXCEPT ![t] = c]
  PROVE  SelectSetExact' /\ maxfd' \in -1..NumFds - 1
<1> DEFINE ds == c.pds
           F  == {maxfd} \cup {pd[1] : pd \in ds}
<1>1. /\ ds \in SUBSET Pds /\ maxfd \in -1..NumFds - 1 /\ NumFds \in Nat
      /\ call \in [Threads -> Calls \cup {None}]
  BY CallParts, SelectIoAssumption DEF SiInv, SiType
<1>2. F \subseteq -1..NumFds - 1 /\ F # {} /\ maxfd \in F /\ \A pd \in ds : pd[1] \in F
  <2>1. \A pd \in Pds : pd[1] \in -1..NumFds - 1
    BY <1>1 DEF Pds, Fds
  <2> QED BY <1>1, <2>1
<1>3. maxfd' = Max(F) /\ fdset' = fdset \cup ds
      /\ cnt' = [pd \in Pds |-> IF pd \in ds THEN cnt[pd] + 1 ELSE cnt[pd]]
  BY DEF Watch
<1>4. call'[t].pds = ds /\ \A u \in ToSet(ioq) : call'[u] = call[u]
  BY <1>1, QueuesOfThreads
<1>5. ToSet(ioq') = ToSet(ioq) \cup {t}
  BY AppendQueue DEF SiInv, QueueInv
<1>6. Counted(cnt, fdset, ToSet(ioq), call) /\ \A pd \in fdset : pd[1] <= maxfd
  BY ExactIff DEF SiInv
<1> HIDE DEF F, ds
<1>7. Counted(cnt', fdset', ToSet(ioq'), call')
  <2>1. ToSet(ioq) \in SUBSET Threads
    BY QueuesOfThreads
  <2>2. Counted([pd \in Pds |-> IF pd \in ds THEN cnt[pd] + 1 ELSE cnt[pd]], fdset \cup ds,
                ToSet(ioq) \cup {t}, call')
    <3>1. PICK g : g = call'
      OBVIOUS
    <3>2. g[t].pds = ds /\ \A u \in ToSet(ioq) : g[u] = call[u]
      BY <1>4, <3>1
    <3>3. Counted([pd \in Pds |-> IF pd \in ds THEN cnt[pd] + 1 ELSE cnt[pd]], fdset \cup ds,
                  ToSet(ioq) \cup {t}, g)
      BY <1>1, <1>6, <2>1, <3>2, CountedAdd
    <3> QED BY <3>1, <3>3
  <2> QED BY <1>3, <1>5, <2>2
<1>8. maxfd' \in -1..NumFds - 1 /\ maxfd <= maxfd' /\ \A pd \in ds : pd[1] <= maxfd'
  BY <1>2, <1>3, MaxFacts
<1>9. \A pd \in fdset' : pd[1] <= maxfd'
  <2>1. ASSUME NEW pd \in fdset PROVE pd[1] <= maxfd'
    <3>1. pd \in Pds /\ pd[1] <= maxfd
      BY <1>6, QueuesOfThreads, CountedWaiter
    <3>2. pd[1] \in Int
      BY <1>1, <3>1 DEF Pds, Fds
    <3> QED BY <1>1, <1>8, <3>1, <3>2
  <2> QED BY <1>3, <1>8, <2>1
<1> QED BY <1>7, <1>8, <1>9, ExactIff

(* The first half of st_poll.                                              *)
LEMMA PollWaitStep ==
  ASSUME SiInv, NEW t \in Threads, cur = t, t \notin ToSet(ioq), NEW c \in Calls,
         PollWait(t, c), avail' \in [Pds -> Nat]
  PROVE  SiInv'
<1>1. CASE t \in intr
  BY <1>1, EndStep DEF PollWait
<1>2. CASE t \notin intr
  <2>1. /\ Watch(c.pds) /\ ioq' = Append(ioq, t) /\ call' = [call EXCEPT ![t] = c]
        /\ _st_vp_schedule(runq)
        /\ IF c.timed THEN \E k \in 1..Len(sleepq) + 1 : sleepq' = InsertAt(sleepq, k, t)
                      ELSE sleepq' = sleepq
    BY <1>2 DEF PollWait
  <2>2. SelectSetExact' /\ maxfd' \in -1..NumFds - 1
    BY <2>1, WatchExact
  <2>3. /\ Queue(runq') /\ ToSet(runq') \subseteq ToSet(runq)
        /\ cur' \in ToSet(runq) \cup {Idle} /\ cur' \in Threads \cup {Idle} /\ cur' \notin ToSet(runq')
    BY <2>1, ScheduleStep DEF SiInv, QueueInv
  <2>4. /\ t \notin ToSet(runq) /\ t \notin ToSet(sleepq)
        /\ ToSet(runq) \cap ToSet(sleepq) = {} /\ ToSet(sleepq) \subseteq ToSet(ioq)
        /\ ToSet(sleepq) \subseteq Threads
        /\ Queue(sleepq) /\ Queue(ioq) /\ Idle \notin Threads
    BY QueuesOfThreads, SelectIoAssumption DEF SiInv, QueueInv
  <2>5. Queue(ioq') /\ ToSet(ioq') = ToSet(ioq) \cup {t}
    BY <2>1, <2>4, AppendQueue
  <2>6. Queue(sleepq') /\ ToSet(sleepq') \subseteq ToSet(sleepq) \cup {t}
    <3>1. CASE c.timed
      BY <2>1, <2>4, <3>1, InsertQueue
    <3>2. CASE ~c.timed
      BY <2>1, <2>4, <3>2
    <3> QED BY <3>1, <3>2
  <2>7. call' \in [Threads -> Calls \cup {None}]
    BY <2>1 DEF SiInv, SiType
  <2>8. SiType'
    BY <2>2, <2>3, <2>7 DEF SiType
  <2>9. \A u \in ToSet(ioq') : call'[u] # None
    <3>1. call \in [Threads -> Calls \cup {None}] /\ c # None
      BY SelectIoAssumption DEF SiInv, SiType
    <3>2. \A u \in ToSet(ioq) : u \in Threads /\ call[u] # None
      BY QueuesOfThreads DEF SiInv, QueueInv
    <3> QED BY <2>1, <2>5, <3>1, <3>2
  <2>10. cur' \notin ToSet(sleepq') /\ ToSet(runq') \cap ToSet(sleepq') = {}
    BY <2>3, <2>4, <2>6
  <2>11. QueueInv'
    <3>1. ToSet(sleepq') \subseteq ToSet(ioq')
      BY <2>4, <2>5, <2>6
    <3> QED BY <2>3, <2>5, <2>6, <2>9, <2>10, <3>1 DEF QueueInv
  <2> QED BY <2>2, <2>8, <2>11 DEF SiInv
<1> QED BY <1>1, <1>2

(* One turn of the loop of an I/O call.                                    *)
LEMMA AttemptStep ==
  ASSUME SiInv, NEW t \in Threads, cur = t, t \notin ToSet(ioq), NEW c \in Calls, Attempt(t, c)
  PROVE  SiInv'
<1>1. avail \in [Pds -> Nat] /\ c.pds \in SUBSET Pds /\ c.need \in Nat /\ c.need \in 0..MaxBytes
  BY CallParts DEF SiInv, SiType
<1>2. PICK pd \in c.pds :
       \/ /\ call' = [call EXCEPT ![t] = None]
          /\ UNCHANGED <<cur, runq, ioq, sleepq, intr, pvars, avail>>
       \/ \E n \in 1..Min({avail[pd], c.need}) :
             /\ avail' = [avail EXCEPT ![pd] = avail[pd] - n]
             /\ \/ /\ call' = [call EXCEPT ![t] = None]
                   /\ UNCHANGED <<cur, runq, ioq, sleepq, intr, pvars>>
                \/ PollWait(t, [c EXCEPT !.need = c.need - n])
       \/ PollWait(t, c) /\ UNCHANGED avail
  BY DEF Attempt
<1>3. pd \in Pds /\ avail[pd] \in Nat
  BY <1>1
<1>4. CASE /\ call' = [call EXCEPT ![t] = None]
           /\ UNCHANGED <<cur, runq, ioq, sleepq, intr, pvars, avail>>
  <2>1. avail' \in [Pds -> Nat]
    BY <1>1, <1>4
  <2> QED BY <1>4, <2>1, EndStep
<1>5. CASE PollWait(t, c) /\ UNCHANGED avail
  <2>1. avail' \in [Pds -> Nat]
    BY <1>1, <1>5
  <2> QED BY <1>5, <2>1, PollWaitStep
<1>6. ASSUME NEW n \in 1..Min({avail[pd], c.need}),
             avail' = [avail EXCEPT ![pd] = avail[pd] - n],
             \/ /\ call' = [call EXCEPT ![t] = None]
                /\ UNCHANGED <<cur, runq, ioq, sleepq, intr, pvars>>
             \/ PollWait(t, [c EXCEPT !.need = c.need - n])
      PROVE  SiInv'
  <2>1. n \in Nat /\ n <= avail[pd] /\ n <= c.need
    <3>1. /\ Min({avail[pd], c.need}) \in Int
          /\ Min({avail[pd], c.need}) <= avail[pd] /\ Min({avail[pd], c.need}) <= c.need
      <4>1. avail[pd] \in Int /\ c.need \in Int
        BY <1>1, <1>3
      <4> QED BY <4>1, MinPair
    <3> QED BY <1>1, <1>3, <3>1
  <2>2. avail' \in [Pds -> Nat]
    <3>1. avail[pd] - n \in Nat
      BY <1>3, <2>1
    <3> QED BY <1>1, <1>3, <1>6, <3>1
  <2>3. [c EXCEPT !.need = c.need - n] \in Calls
    <3>1. c.need - n \in 0..MaxBytes
      BY <1>1, <2>1, SelectIoAssumption
    <3> QED BY <3>1, CallParts
  <2> QED BY <1>6, <2>2, <2>3, EndStep, PollWaitStep
<1> QED BY <1>2, <1>4, <1>5, <1>6

(* Taking requests off keeps the counts exact; maxfd is another matter.    *)
LEMMA UnwatchCounted ==
  ASSUME SiInv, NEW us \in SUBSET ToSet(ioq), Unwatched(us)
  PROVE  Counted(cnt', fdset', ToSet(ioq) \ us, call) /\ fdset' \subseteq fdset
<1>1. Counted(cnt, fdset, ToSet(ioq), call)
  BY ExactIff DEF SiInv
<1>2. cnt' = [pd \in Pds |-> cnt[pd] - Cardinality(WaitersIn(us, call, pd))]
      /\ fdset' = {pd \in fdset : WaitersIn(us, call, pd) = {}
                                  \/ cnt[pd] # Cardinality(WaitersIn(us, call, pd))}
  BY DEF Unwatched, Waiters, WaitersIn
<1>3. ToSet(ioq) \in SUBSET Threads
  BY QueuesOfThreads
<1>4. Counted([pd \in Pds |-> cnt[pd] - Cardinality(WaitersIn(us, call, pd))],
              {pd \in fdset : WaitersIn(us, call, pd) = {}
                              \/ cnt[pd] # Cardinality(WaitersIn(us, call, pd))},
              ToSet(ioq) \ us, call)
  BY <1>1, <1>3, CountedRemove
<1> QED BY <1>2, <1>4

(* st_poll goes on after the switch.                                       *)
LEMMA ResumeStep == ASSUME SiInv, NEW t \in Threads, PollResume(t) PROVE SiInv'
<1>1. /\ cur = t /\ call[t] # None /\ call \in [Threads -> Calls \cup {None}] /\ call[t] \in Calls
      /\ avail \in [Pds -> Nat]
      /\ t \notin ToSet(runq) /\ t \notin ToSet(sleepq)
  BY DEF PollResume, SiInv, SiType, QueueInv
<1>2. CASE /\ Contains(ioq, t) /\ Unwatched({t}) /\ ioq' = Rem(ioq, t) /\ intr' = intr \ {t}
           /\ call' = [call EXCEPT ![t] = None] /\ UNCHANGED <<cur, runq, sleepq, maxfd, avail>>
  <2>1. t \in ToSet(ioq) /\ ToSet(ioq) \in SUBSET Threads
    BY <1>2, QueuesOfThreads
  <2>2. Queue(ioq') /\ ToSet(ioq') = ToSet(ioq) \ {t}
    <3>1. Queue(ioq') /\ ToSet(ioq') = ToSet(ioq) \cap (Threads \ {t})
      BY <1>2, KeepQueue DEF Rem, SiInv, QueueInv
    <3> QED BY <2>1, <3>1
  <2>3. Counted(cnt', fdset', ToSet(ioq) \ {t}, call) /\ fdset' \subseteq fdset
    BY <1>2, <2>1, UnwatchCounted
  <2>4. \A u \in ToSet(ioq') : call'[u] = call[u]
    BY <1>1, <1>2, <2>1, <2>2
  <2>5. SelectSetExact'
    <3>1. Counted(cnt', fdset', ToSet(ioq'), call')
      BY <2>2, <2>3, <2>4, CountedSame
    <3>2. \A pd \in fdset' : pd[1] <= maxfd'
      BY <1>2, <2>3, ExactIff DEF SiInv
    <3> QED BY <3>1, <3>2, ExactIff
  <2>6. SiType'
    BY <1>1, <1>2 DEF SiInv, SiType
  <2>7. QueueInv'
    BY <1>1, <1>2, <2>2, <2>4 DEF SiInv, QueueInv
  <2> QED BY <2>5, <2>6, <2>7 DEF SiInv
<1>3. CASE /\ ~Contains(ioq, t) /\ call' = [call EXCEPT ![t] = None]
           /\ UNCHANGED <<cur, runq, ioq, sleepq, pvars, avail>>
  BY <1>1, <1>3, QueuesOfThreads, EndStep
<1>4. CASE ~Contains(ioq, t) /\ Attempt(t, call[t])
  BY <1>1, <1>4, QueuesOfThreads, AttemptStep
<1> QED BY <1>2, <1>3, <1>4 DEF PollResume

(* A thread outside a call waits for nothing.                              *)
LEMMA Free == ASSUME SiInv, NEW t \in Threads, call[t] = None PROVE t \notin ToSet(ioq)
BY DEF SiInv, QueueInv

(* The I/O calls and st_poll of the running thread.                        *)
LEMMA CallStep ==
  ASSUME SiInv, NEW t \in Threads, cur = t, call[t] = None,
         NEW ds \in SUBSET Pds, NEW n \in 0..MaxBytes, NEW all \in BOOLEAN, NEW tm \in BOOLEAN,
         \/ Attempt(t, NewCall(ds, n, all, tm))
         \/ PollWait(t, NewCall(ds, n, all, tm)) /\ UNCHANGED avail
  PROVE  SiInv'
<1> DEFINE c == NewCall(ds, n, all, tm)
<1>1. c \in Calls
  BY DEF NewCall, Calls
<1>2. t \notin ToSet(ioq)
  BY Free
<1>3. avail \in [Pds -> Nat]
  BY DEF SiInv, SiType
<1> HIDE DEF c
<1>4. CASE Attempt(t, c)
  BY <1>1, <1>2, <1>4, AttemptStep
<1>5. CASE PollWait(t, c) /\ UNCHANGED avail
  BY <1>1, <1>2, <1>3, <1>5, PollWaitStep
<1> QED BY <1>4, <1>5 DEF c

(* A step that leaves the scheduler alone.                                 *)
LEMMA QuietStep ==
  ASSUME SiInv, UNCHANGED <<cur, runq, ioq, sleepq, call>>, UNCHANGED pvars, avail' \in [Pds -> Nat]
  PROVE  SiInv'
<1>1. cnt' = cnt /\ fdset' = fdset /\ maxfd' = maxfd
  BY DEF pvars
<1>2. SiType' /\ QueueInv'
  BY <1>1 DEF SiInv, SiType, QueueInv
<1>3. SelectSetExact'
  BY <1>1, ExactIff DEF SiInv
<1> QED BY <1>2, <1>3 DEF SiInv

(* st_netfd_close: the select set does not notice.                         *)
LEMMA CloseStep ==
  ASSUME SiInv, NEW t \in Threads, NEW fd \in Fds, st_netfd_close(t, fd) PROVE SiInv'
<1>1. avail' \in [Pds -> Nat]
  BY DEF SiInv, SiType, st_netfd_close
<1> QED BY <1>1, QuietStep DEF st_netfd_close, svars

(* Data arrives.                                                           *)
LEMMA ArriveStep == ASSUME SiInv, NEW pd \in Pds, Arrive(pd) PROVE SiInv'
<1>1. avail' \in [Pds -> Nat]
  BY DEF SiInv, SiType, Arrive
<1> QED BY <1>1, QuietStep DEF Arrive, svars

(* A waiting thread is interrupted: it moves from the sleep queue to the   *)
(* run queue and keeps its request.                                        *)
LEMMA InterruptStep ==
  ASSUME SiInv, NEW t \in Threads, NEW u \in Threads, st_thread_interrupt(t, u) PROVE SiInv'
<1>1. /\ cur = t /\ u # t /\ avail' \in [Pds -> Nat] /\ call' = call /\ ioq' = ioq /\ cur' = cur
      /\ UNCHANGED pvars
  BY DEF st_thread_interrupt, SiInv, SiType
<1>2. CASE Contains(ioq, u) /\ ~Contains(runq, u)
  <2>1. u \in ToSet(ioq) /\ u \notin ToSet(runq)
    BY <1>2, QueuesOfThreads
  <2>2. runq' = Append(runq, u) /\ sleepq' = Rem(sleepq, u)
    BY <1>2 DEF st_thread_interrupt
  <2>3. Queue(runq') /\ ToSet(runq') = ToSet(runq) \cup {u}
    BY <2>1, <2>2, AppendQueue DEF SiInv, QueueInv
  <2>4. Queue(sleepq') /\ ToSet(sleepq') = ToSet(sleepq) \ {u}
    <3>1. Queue(sleepq') /\ ToSet(sleepq') = ToSet(sleepq) \cap (Threads \ {u})
      BY <2>2, KeepQueue DEF Rem, SiInv, QueueInv
    <3> QED BY <3>1, QueuesOfThreads
  <2>5. QueueInv'
    BY <1>1, <2>3, <2>4 DEF SiInv, QueueInv
  <2>6. SiType' /\ SelectSetExact'
    <3>1. cnt' = cnt /\ fdset' = fdset /\ maxfd' = maxfd
      BY <1>1 DEF pvars
    <3>2. SiType'
      BY <1>1, <3>1 DEF SiInv, SiType
    <3>3. SelectSetExact'
      BY <1>1, <3>1, ExactIff DEF SiInv
    <3> QED BY <3>2, <3>3
  <2> QED BY <2>5, <2>6 DEF SiInv
<1>3. CASE ~(Contains(ioq, u) /\ ~Contains(runq, u))
  BY <1>1, <1>3, QuietStep DEF st_thread_interrupt
<1> QED BY <1>2, <1>3

(* The next thread runs; no request comes or goes.                         *)
LEMMA SwitchStep ==
  ASSUME SiInv, _st_vp_schedule(runq), UNCHANGED <<ioq, sleepq, call, avail>>, UNCHANGED pvars
  PROVE  SiInv'
<1>1. /\ Queue(runq') /\ ToSet(runq') \subseteq ToSet(runq)
      /\ cur' \in ToSet(runq) \cup {Idle} /\ cur' \in Threads \cup {Idle} /\ cur' \notin ToSet(runq')
  BY ScheduleStep DEF SiInv, QueueInv
<1>2. cnt' = cnt /\ fdset' = fdset /\ maxfd' = maxfd
  BY DEF pvars
<1>3. SiType'
  BY <1>1, <1>2 DEF SiInv, SiType
<1>4. SelectSetExact'
  BY <1>2, ExactIff DEF SiInv
<1>5. cur' \notin ToSet(sleepq)
  BY <1>1, QueuesOfThreads, SelectIoAssumption DEF SiInv, QueueInv
<1>6. QueueInv'
  BY <1>1, <1>5 DEF SiInv, QueueInv
<1> QED BY <1>3, <1>4, <1>6 DEF SiInv

(* After select the set is exact for the requests that are left, whether   *)
(* maxfd was recomputed or not.                                            *)
LEMMA IdleExact ==
  ASSUME SiInv, _st_vp_idle, UNCHANGED call
  PROVE  /\ Queue(ioq') /\ ToSet(ioq') = ToSet(ioq) \ Notified
         /\ SelectSetExact' /\ maxfd' \in -1..NumFds - 1
<1>1. Notified \in SUBSET ToSet(ioq) /\ ToSet(ioq) \in SUBSET Threads
  BY QueuesOfThreads DEF Notified
<1>2. Queue(ioq') /\ ToSet(ioq') = ToSet(ioq) \ Notified
  <2>1. Queue(ioq') /\ ToSet(ioq') = ToSet(ioq) \cap (Threads \ Notified)
    BY KeepQueue DEF _st_vp_idle, SiInv, QueueInv
  <2> QED BY <1>1, <2>1
<1>3. Counted(cnt', fdset', ToSet(ioq) \ Notified, call) /\ fdset' \subseteq fdset
  BY <1>1, UnwatchCounted DEF _st_vp_idle
<1> DEFINE ts == ToSet(ioq) \ Notified
           F == {-1} \cup UNION {{pd[1] : pd \in call[t].pds} : t \in ts}
<1>4. NumFds \in Nat /\ maxfd \in -1..NumFds - 1 /\ \A pd \in fdset : pd[1] <= maxfd
  BY SelectIoAssumption, ExactIff DEF SiInv, SiType
<1>5. maxfd' = maxfd \/ maxfd' = Max(F)
  BY DEF _st_vp_idle, TopFd
<1>6. F \subseteq -1..NumFds - 1 /\ F # {}
  <2>1. \A t \in ts : call[t].pds \in SUBSET Pds
    BY QueuesOfThreads, CallParts
  <2>2. \A pd \in Pds : pd[1] \in -1..NumFds - 1
    BY <1>4 DEF Pds, Fds
  <2>3. -1 \in -1..NumFds - 1
    BY <1>4
  <2> QED BY <2>1, <2>2, <2>3
<1>7. \A pd \in fdset' : pd[1] \in F
  <2>1. ASSUME NEW pd \in fdset' PROVE \E t \in ts : pd \in call[t].pds
    <3>1. ts \in SUBSET Threads
      BY <1>1
    <3> HIDE DEF ts
    <3>2. PICK c, fs : c = cnt' /\ fs = fdset'
      OBVIOUS
    <3>3. Counted(c, fs, ts, call) /\ pd \in fs
      BY <1>3, <3>2 DEF ts
    <3> QED BY <3>1, <3>3, CountedWaiter
  <2> QED BY <2>1
<1> HIDE DEF F
<1>8. \A pd \in fdset' : pd[1] <= maxfd'
  <2>1. CASE maxfd' = maxfd
    BY <1>3, <1>4, <2>1
  <2>2. CASE maxfd' = Max(F)
    BY <1>6, <1>7, <2>2, MaxFacts
  <2> QED BY <1>5, <2>1, <2>2
<1>9. maxfd' \in -1..NumFds - 1
  BY <1>4, <1>5, <1>6, MaxFacts
<1>10. SelectSetExact'
  <2>1. Counted(cnt', fdset', ToSet(ioq'), call')
    BY <1>2, <1>3
  <2> QED BY <1>8, <2>1, ExactIff
<1> QED BY <1>2, <1>9, <1>10

(* The idle thread.                                                        *)
LEMMA IdleStepInv == ASSUME SiInv, NEW k \in Nat, IdleStep(k) PROVE SiInv'
<1>1. UNCHANGED <<call, avail>>
  BY DEF IdleStep, kvars
<1>2. CASE runq # <<>>
  BY <1>1, <1>2, SwitchStep DEF IdleStep
<1>3. CASE runq = <<>>
  <2> DEFINE sleep == Keep(sleepq, Threads \ Notified)
             front == SubSeq(sleep, 1, k)
             back  == SubSeq(sleep, k + 1, Len(sleep))
             woken == Keep(ioq, Notified)
  <2>1. _st_vp_idle /\ k <= Len(sleep) /\ sleepq' = back /\ _st_vp_schedule(woken \o front)
    BY <1>3 DEF IdleStep
  <2>2. /\ Queue(ioq') /\ ToSet(ioq') = ToSet(ioq) \ Notified
        /\ SelectSetExact' /\ maxfd' \in -1..NumFds - 1
    BY <1>1, <2>1, IdleExact
  <2>3. Queue(sleep) /\ ToSet(sleep) = ToSet(sleepq) \cap (Threads \ Notified)
    BY KeepQueue DEF SiInv, QueueInv
  <2>4. Queue(woken) /\ ToSet(woken) = ToSet(ioq) \cap Notified
    BY KeepQueue DEF SiInv, QueueInv
  <2> HIDE DEF sleep, woken
  <2>5. k \in 0..Len(sleep)
    <3>1. Len(sleep) \in Nat
      BY <2>3 DEF Queue
    <3> QED BY <2>1, <3>1
  <2>6. /\ Queue(front) /\ Queue(back)
        /\ ToSet(front) \cap ToSet(back) = {} /\ ToSet(front) \cup ToSet(back) = ToSet(sleep)
    BY <2>3, <2>5, SplitQueue
  <2> HIDE DEF front, back
  <2>7. ToSet(woken) \cap ToSet(front) = {} /\ ToSet(woken) \cap ToSet(back) = {}
    BY <2>3, <2>4, <2>6
  <2>8. Queue(woken \o front) /\ ToSet(woken \o front) = ToSet(woken) \cup ToSet(front)
    BY <2>4, <2>6, <2>7, ConcatQueue
  <2>9. /\ Queue(runq') /\ ToSet(runq') \subseteq ToSet(woken \o front)
        /\ cur' \in ToSet(woken \o front) \cup {Idle} /\ cur' \in Threads \cup {Idle}
        /\ cur' \notin ToSet(runq')
    BY <2>1, <2>8, ScheduleStep
  <2>10. ToSet(back) \subseteq Threads /\ ToSet(back) \subseteq ToSet(ioq')
    BY <2>2, <2>3, <2>6, QueuesOfThreads DEF SiInv, QueueInv
  <2>11. cur' \notin ToSet(sleepq') /\ ToSet(runq') \cap ToSet(sleepq') = {}
    BY <2>1, <2>6, <2>7, <2>8, <2>9, <2>10, SelectIoAssumption
  <2>12. \A t \in ToSet(ioq') : call'[t] # None
    BY <1>1, <2>2 DEF SiInv, QueueInv
  <2>13. QueueInv'
    BY <2>1, <2>2, <2>6, <2>9, <2>10, <2>11, <2>12 DEF QueueInv
  <2>14. SiType'
    BY <1>1, <2>2, <2>9 DEF SiInv, SiType
  <2> QED BY <2>2, <2>13, <2>14 DEF SiInv
<1> QED BY <1>2, <1>3

(* The first state.                                                        *)
LEMMA InitInv == ASSUME Init PROVE SiInv
<1>1. NumFds \in Nat
  BY SelectIoAssumption
<1>2. SiType
  BY <1>1 DEF Init, SiType
<1>3. ToSet(ioq) = {} /\ ToSet(sleepq) = {} /\ Queue(ioq) /\ Queue(sleepq)
  BY EmptyQueue DEF Init
<1>4. QueueInv
  BY <1>3, AllThreadsQueue, SelectIoAssumption DEF Init, QueueInv
<1>5. SelectSetExact
  <2>1. \A pd \in Pds : WaitersIn(ToSet(ioq), call, pd) = {}
    BY <1>3 DEF WaitersIn
  <2>2. Counted(cnt, fdset, ToSet(ioq), call)
    <3>1. fdset = {} /\ \A pd \in Pds : cnt[pd] = 0
      BY DEF Init
    <3>2. \A pd \in Pds : Cardinality(WaitersIn(ToSet(ioq), call, pd)) = 0
      BY <2>1, FS_EmptySet
    <3>3. {} = {pd \in Pds : cnt[pd] > 0}
      BY <3>1
    <3> QED BY <3>1, <3>2, <3>3 DEF Counted
  <2>3. \A pd \in fdset : pd[1] <= maxfd
    BY DEF Init
  <2> QED BY <2>2, <2>3, ExactIff
<1> QED BY <1>2, <1>4, <1>5 DEF SiInv

(* Every step of a thread.                                                 *)
LEMMA ThreadStep == ASSUME SiInv, NEW t \in Threads, Step(t) PROVE SiInv'
<1>1. 0 \in 0..MaxBytes /\ 1 \in 0..MaxBytes /\ \A n \in 2..MaxBytes : n \in 0..MaxBytes
  BY SelectIoAssumption
<1>2. ASSUME NEW fd \in Fds, NEW e \in Events, NEW n \in 0..MaxBytes, NEW all \in BOOLEAN,
             NEW tm \in BOOLEAN, IoCall(t, fd, e, n, all, tm)
      PROVE  SiInv'
  <2>1. {<<fd, e>>} \in SUBSET Pds
    BY DEF Pds
  <2>2. cur = t /\ call[t] = None /\ Attempt(t, NewCall({<<fd, e>>}, n, all, tm))
    BY <1>2 DEF IoCall
  <2> QED BY <2>1, <2>2, CallStep
<1>3. ASSUME NEW fd \in Fds, NEW tm \in BOOLEAN, st_read(t, fd, tm) \/ st_connect(t, fd, tm)
      PROVE  SiInv'
  BY <1>1, <1>2, <1>3 DEF st_read, st_connect, Events
<1>4. ASSUME NEW fd \in Fds, NEW tm \in BOOLEAN, NEW n \in 2..MaxBytes,
             st_read_fully(t, fd, n, tm) \/ st_write(t, fd, n, tm)
      PROVE  SiInv'
  BY <1>1, <1>2, <1>4 DEF st_read_fully, st_write, Events
<1>5. ASSUME NEW a \in Fds, NEW b \in Fds, NEW tm \in BOOLEAN,
             st_poll(t, {<<a, "in">>, <<b, "out">>}, tm)
      PROVE  SiInv'
  <2>1. {<<a, "in">>, <<b, "out">>} \in SUBSET Pds
    BY DEF Pds, Events
  <2>2. /\ cur = t /\ call[t] = None /\ UNCHANGED avail
        /\ PollWait(t, NewCall({<<a, "in">>, <<b, "out">>}, 0, FALSE, tm))
    BY <1>5 DEF st_poll
  <2> QED BY <1>1, <2>1, <2>2, CallStep
<1>6. CASE PollResume(t)
  BY <1>6, ResumeStep
<1>7. CASE st_open(t)
  <2>1. avail' \in [Pds -> Nat]
    BY <1>7 DEF st_open, SiInv, SiType
  <2> QED BY <1>7, <2>1, QuietStep DEF st_open, svars
<1>8. CASE st_thread_exit(t)
  BY <1>8, SwitchStep DEF st_thread_exit, kvars
<1>9. ASSUME NEW fd \in Fds, st_netfd_close(t, fd) PROVE SiInv'
  BY <1>9, CloseStep
<1>10. ASSUME NEW u \in Threads, st_thread_interrupt(t, u) PROVE SiInv'
  BY <1>10, InterruptStep
<1> QED BY <1>3, <1>4, <1>5, <1>6, <1>7, <1>8, <1>9, <1>10 DEF Step

(* The inductive invariant, for any number of threads and descriptors.     *)
THEOREM SiInductive == Spec => []SiInv
<1>1. Init => SiInv
  BY InitInv
<1>2. SiInv /\ [Next]_vars => SiInv'
  <2> SUFFICES ASSUME SiInv, [Next]_vars PROVE SiInv'
    OBVIOUS
  <2>1. ASSUME NEW t \in Threads, Step(t) PROVE SiInv'
    BY <2>1, ThreadStep
  <2>2. ASSUME NEW k \in 0..Cardinality(Threads), IdleStep(k) PROVE SiInv'
    <3>1. k \in Nat
      OBVIOUS
    <3> QED BY <2>2, <3>1, IdleStepInv
  <2>3. ASSUME NEW pd \in Pds, Arrive(pd) PROVE SiInv'
    BY <2>3, ArriveStep
  <2>4. CASE UNCHANGED vars
    <3>1. avail' \in [Pds -> Nat]
      BY <2>4 DEF vars, kvars, SiInv, SiType
    <3> QED BY <2>4, <3>1, QuietStep DEF vars, svars
  <2> QED BY <2>1, <2>2, <2>3, <2>4 DEF Next
<1> QED BY <1>1, <1>2, PTL DEF Spec

(* The counts, the set and the bound that st_poll, the timeout path and    *)
(* _st_vp_idle keep for select(2) are those of the requests on the I/O     *)
(* queue, whatever is closed, interrupted or late meanwhile.               *)
THEOREM SelectSetStaysExact == Spec => []SelectSetExact
<1>1. SiInv => SelectSetExact
  BY DEF SiInv
<1> QED BY <1>1, SiInductive, PTL

(* The run queue and the sleep queue may share a link field: no thread is  *)
(* ever linked twice, or on both, or while it runs.                        *)
THEOREM LinkedAtMostOnce == Spec => []LinkedOnce
<1>1. SiInv => LinkedOnce
  BY DEF SiInv, QueueInv, Queue, LinkedOnce
<1> QED BY <1>1, SiInductive, PTL
=============================================================================
