--------------------------- MODULE NvsProxyProofs ---------------------------
(***************************************************************************)
(* The video proxy, for any viewers and any number of frames, connections  *)
(* and heartbeats: no message and no proxy is freed while something refers *)
(* to it, and no count of references falls below zero.                     *)
(***************************************************************************)
EXTENDS NvsProxy, SequenceTheorems, FiniteSetTheorems, WellFoundedInduction, TLAPS

(* The threads that serve the front end.                                   *)
Ses == T("session")
Recv == T("recv")
Send == T("send")
Heart == T("heart")
Open == T("open")

(* The states of the server: types only, what relates them is said below.  *)
Locs == {"none", "start", "auth", "read", "wait", "write", "sleep"}
PuRec == [alive : BOOLEAN, id : Nat, valid : BOOLEAN, ref : Nat, cmd : BOOLEAN,
          vec : Seq(Viewers), queue : Seq(Msgs), batch : Seq(Msgs), ticks : Nat]
CuRec == [alive : BOOLEAN, valid : BOOLEAN, ref : Nat, pu : BOOLEAN,
          wrap : BOOLEAN, queue : Seq(Msgs), batch : Seq(Msgs), found : Nat]
Server == [runq : Seq(Threads), pc : [Threads -> Locs], pu : PuRec,
           cu : [Viewers -> CuRec], ref : [Msgs -> Nat],
           crashed : {"no", "count", "open", "session"}]

(* Helpers: truth as a number, and the order of the elements of a queue.   *)
Bit(b) == IF b THEN 1 ELSE 0
Distinct(q) == \A i, j \in 1..Len(q) : q[i] = q[j] => i = j
In(t, q) == \E i \in 1..Len(q) : q[i] = t
Before(q, t, u) == \A i, j \in 1..Len(q) : q[i] = t /\ q[j] = u => i < j

(* t runs, every other thread that has not started is in the run queue.    *)
Queueing(s, t) ==
  /\ Distinct(s.runq) /\ ~In(t, s.runq)
  /\ \A x \in Threads : In(x, s.runq) => s.pc[x] # "none"
  /\ \A x \in Threads : s.pc[x] = "start" /\ x # t => In(x, s.runq)

(* Where each thread may be when it does not run.                          *)
Locations(pc) ==
  /\ pc[Ses] \in {"none", "start", "auth"} /\ pc[Recv] \in {"none", "start", "read"}
  /\ pc[Send] \in {"none", "start", "wait", "write"}
  /\ pc[Heart] \in {"none", "start", "sleep"} /\ pc[Open] \in {"none", "start"}
  /\ \A c \in Viewers : /\ pc[<<"session", c>>] \in {"none", "start", "auth"}
                        /\ pc[<<"recv", c>>] \in {"none", "start", "read"}
                        /\ pc[<<"send", c>>] \in {"none", "start", "wait", "write"}
                        /\ pc[<<"open", c>>] \in {"none", "start", "wait"}

(* The front end starts up: its receiving thread does not read yet,        *)
(* because the threads created after it have not run.                      *)
Young(pc) == pc[Send] = "start" \/ pc[Heart] = "start" \/ pc[Open] = "start"

(* x runs or is in the run queue.                                          *)
On(x, s, t) == In(x, s.runq) \/ x = t

(* The threads of the front end start in the order in which they are       *)
(* created: receiving, sending, heartbeat, request for the video.  When    *)
(* one of them starts, the ones before it have been set up.                *)
StartUp(s, t) ==
  /\ Young(s.pc) /\ On(Recv, s, t) =>
       /\ s.pc[Recv] = "start" /\ s.pc[Send] = "start" /\ In(Send, s.runq)
       /\ Before(s.runq, Recv, Send)
  /\ s.pc[Send] = "start" => s.pc[Heart] = "none" /\ s.pc[Open] = "none"
  /\ s.pc[Heart] = "start" => s.pc[Open] = "none"
  /\ s.pc[Open] = "start" => s.pc[Heart] = "sleep" /\ ~On(Heart, s, t)
  /\ s.pc[Heart] = "start" \/ s.pc[Open] = "start"
       => s.pc[Send] = "wait" /\ ~On(Send, s, t)

(* No thread serves the front end.                                         *)
NoneServes(pc) ==
  pc[Recv] = "none" /\ pc[Send] = "none" /\ pc[Heart] = "none" /\ pc[Open] = "none"

(* The references to the front end: one of its session, of its receiving   *)
(* and its sending thread, of its heartbeat, and of every viewer that      *)
(* watches it.                                                             *)
Attached(s) == {c \in Viewers : s.cu[c].pu}
PuRefs(s) == Bit(s.pc[Ses] = "auth") + Bit(s.pc[Recv] # "none")
               + Bit(s.pc[Send] # "none") + Bit(s.pc[Heart] = "sleep")
               + Cardinality(Attached(s))

(* Every reference to the front end is counted.  One that is gone has no   *)
(* threads, and one without a video command has not started all of its     *)
(* threads.                                                                *)
FrontEnd(s) ==
  /\ s.pu.alive => s.pu.ref >= PuRefs(s)
  /\ ~s.pu.alive => s.pu = NoPu /\ NoneServes(s.pc) /\ s.pc[Ses] # "auth"
  /\ s.pc[Ses] = "auth" => ~s.pu.valid /\ NoneServes(s.pc)
  /\ Young(s.pc) \/ s.pc[Ses] = "auth" => ~s.pu.cmd
  /\ s.pu.alive /\ ~s.pu.cmd => s.pc[Ses] = "auth" \/ Young(s.pc)
  /\ ~s.pu.cmd => s.pu.queue = <<>> /\ s.pu.batch = <<>>

(* The viewers listed for the video of the front end are those whose       *)
(* request waits for it, each of them once.                                *)
Video(s) ==
  /\ \A c \in Viewers : s.cu[c].pu => s.pu.cmd
  /\ Distinct(s.pu.vec)
  /\ \A c \in Viewers : In(c, s.pu.vec) <=> s.pc[<<"open", c>>] = "wait"

(* A batch is being written, but for the running thread's. *)
Batches(s, t) ==
  /\ t # Send => (s.pc[Send] = "write" <=> s.pu.batch # <<>>)
  /\ \A c \in Viewers : t # <<"send", c>> =>
       (s.pc[<<"send", c>>] = "write" <=> s.cu[c].batch # <<>>)

(* The references to a viewer: one of each of its two threads, and two of  *)
(* a request that waits.                                                   *)
CuRefs(s, c) == Bit(s.pc[<<"recv", c>>] # "none") + Bit(s.pc[<<"send", c>>] # "none")
                  + 2 * Bit(s.pc[<<"open", c>>] = "wait")

(* Every reference to a viewer is counted.  A viewer that is gone has no   *)
(* threads, and its session has none yet.                                  *)
Viewer(s, c) ==
  /\ s.cu[c].alive => s.cu[c].ref >= CuRefs(s, c)
  /\ ~s.cu[c].alive =>
       /\ s.cu[c] = [NoCu EXCEPT !.found = s.cu[c].found]
       /\ s.pc[<<"recv", c>>] = "none" /\ s.pc[<<"send", c>>] = "none"
       /\ s.pc[<<"open", c>>] # "wait"
  /\ s.pc[<<"session", c>>] # "none" => ~s.cu[c].alive /\ s.pc[<<"open", c>>] = "none"
  /\ s.cu[c].alive /\ s.pc[<<"open", c>>] # "none" => s.cu[c].pu

(* Front ends are told apart by what has come in before them.  One found   *)
(* by a session of a viewer that still has the same id has been served for *)
(* long.                                                                   *)
Sessions(s, n) ==
  /\ s.pu.alive => s.pu.id \in 1..n
  /\ s.pc[Ses] = "start" => n >= 1 /\ (s.pu.alive => s.pu.id < n)
  /\ \A c \in Viewers : s.pc[<<"session", c>>] = "auth" =>
       /\ s.cu[c].found \in 1..n
       /\ s.cu[c].found = s.pu.id => s.pu.cmd
       /\ s.pc[Ses] = "start" => s.cu[c].found < n

(* The references to a message: one for every queue or batch it is in and  *)
(* every viewer whose request is under way, and for the video command one  *)
(* of the front end and one of every viewer listed.                        *)
CuHeld(s, m) == Total([c \in Viewers |-> Queued(s.cu[c], m)])
PuHeld(p, m) == Queued(p, m) + (IF m = VideoCmd /\ p.cmd THEN 1 + Len(p.vec) ELSE 0)
OpenHeld(pc, m) == Bit(m \in {"open"} \X Viewers /\ pc[m] # "none")
Held(s, m) == PuHeld(s.pu, m) + CuHeld(s, m) + OpenHeld(s.pc, m)

(* No message is referred to more often than its count says.               *)
Counted(s) == (\A m \in Msgs : s.ref[m] >= Held(s, m)) /\ CuHeld(s, VideoCmd) = 0

(* The invariant, while thread t runs; n has come in so far.               *)
Good(s, t, n) ==
  /\ s \in Server /\ s.crashed = "no"
  /\ Queueing(s, t) /\ Locations(s.pc) /\ StartUp(s, t)
  /\ FrontEnd(s) /\ Video(s) /\ (\A c \in Viewers : Viewer(s, c))
  /\ Batches(s, t) /\ Sessions(s, n) /\ Counted(s)

NoThread == <<"nobody", "nobody">>

(* The inductive invariant.  No thread runs between two steps.  A run that *)
(* has touched freed memory is over, but no count has fallen below zero;   *)
(* when the idle thread runs, the threads that have not started are        *)
(* sessions.                                                               *)
NvsInv ==
  /\ w \in Server /\ w.crashed # "count"
  /\ w.crashed = "no" => Good(w, NoThread, inputs)
  /\ idle /\ w.crashed = "no" => \A t \in Threads : w.pc[t] = "start" => t[1] = "session"
  /\ idle \in BOOLEAN /\ frames \in 0..MaxFrames /\ inputs \in Nat

-----------------------------------------------------------------------------
(* Numbers, sequences and sums.                                            *)

Less == {x \in Nat \X Nat : x[1] < x[2]}

(* A set of natural numbers has a least element.                           *)
LEMMA Least ==
  ASSUME NEW S, S \subseteq Nat, S # {} PROVE \E x \in S : \A y \in S : x <= y
<1>1. Less = OpToRel(<, Nat)
  BY Zenon DEF Less, OpToRel
<1>2. IsWellFoundedOn(Less, Nat)
  BY <1>1, NatLessThanWellFounded
<1>3. PICK x \in S : \A y \in S : ~(<<y, x>> \in Less)
  BY <1>2, WFMin
<1>4. ASSUME NEW y \in S PROVE x <= y
  <2>1. <<y, x>> \in Nat \X Nat /\ <<y, x>>[1] = y /\ <<y, x>>[2] = x
    OBVIOUS
  <2>2. ~(y < x)
    BY <1>3, <2>1 DEF Less
  <2> QED BY <2>2
<1> QED BY <1>4

(* q has t behind its other elements.                                      *)
Longer(r, q, t) ==
  /\ Len(r) = Len(q) + 1 /\ r[Len(q) + 1] = t
  /\ \A i \in 1..Len(q) : r[i] = q[i]
  /\ \A x : In(x, r) <=> In(x, q) \/ x = t
  /\ Distinct(q) /\ ~In(t, q) => Distinct(r)
  /\ \A x, y : x # t /\ Before(q, x, y) => Before(r, x, y)

(* Appending to a sequence.                                                *)
LEMMA AppendFacts ==
  ASSUME NEW S, NEW q \in Seq(S), NEW t \in S, NEW r, r = Append(q, t)
  PROVE  r \in Seq(S) /\ r # <<>> /\ Longer(r, q, t)
<1>1. /\ r \in Seq(S) /\ Len(q) \in Nat /\ Len(r) = Len(q) + 1 /\ r # <<>>
      /\ r[Len(q) + 1] = t /\ \A i \in 1..Len(q) : r[i] = q[i]
  BY AppendProperties
<1>2. \A i \in 1..Len(r) : i \in 1..Len(q) \/ i = Len(q) + 1
  BY <1>1
<1>3. \A i \in 1..Len(q) : i \in 1..Len(r)
  BY <1>1
<1>4. Len(q) + 1 \in 1..Len(r)
  BY <1>1
<1>5. \A x : In(x, r) <=> In(x, q) \/ x = t
  BY <1>1, <1>2, <1>3, <1>4 DEF In
<1>6. Distinct(q) /\ ~In(t, q) => Distinct(r)
  BY <1>1, <1>2 DEF Distinct, In
<1>7. ASSUME NEW x, NEW y, x # t, Before(q, x, y) PROVE Before(r, x, y)
  BY <1>1, <1>2, <1>7 DEF Before
<1> QED BY <1>1, <1>5, <1>6, <1>7 DEF Longer

(* r is q without its first element t.                                     *)
Shorter(r, q, t) ==
  /\ Len(q) \in Nat \ {0} /\ t = q[1] /\ In(t, q)
  /\ Len(r) = Len(q) - 1 /\ \A i \in 1..Len(r) : r[i] = q[i + 1]
  /\ Distinct(q) => Distinct(r) /\ ~In(t, r) /\ \A x : In(x, r) <=> In(x, q) /\ x # t
  /\ \A x, y : Before(q, x, y) => Before(r, x, y)

(* Taking the first element.                                               *)
LEMMA TailFacts ==
  ASSUME NEW S, NEW q \in Seq(S), q # <<>>, NEW r, r = Tail(q), NEW t, t = Head(q)
  PROVE  r \in Seq(S) /\ t \in S /\ Shorter(r, q, t)
<1>1. /\ r \in Seq(S) /\ t \in S /\ Len(r) = Len(q) - 1
      /\ \A i \in 1..Len(r) : r[i] = q[i + 1]
  BY HeadTailProperties
<1>2. Len(q) \in Nat \ {0} /\ t = q[1]
  <2>1. Len(q) \in Nat /\ Len(q) # 0
    BY EmptySeq, LenProperties
  <2> QED BY <2>1
<1>3. 1 \in 1..Len(q) /\ \A i \in 1..Len(r) : i + 1 \in 1..Len(q) /\ i + 1 # 1
  BY <1>1, <1>2
<1>4. \A i \in 1..Len(q) : i = 1 \/ (i - 1 \in 1..Len(r) /\ q[i] = r[i - 1])
  BY <1>1, <1>2
<1>5. In(t, q)
  BY <1>2, <1>3 DEF In
<1>6. ASSUME Distinct(q)
      PROVE  Distinct(r) /\ ~In(t, r) /\ \A x : In(x, r) <=> In(x, q) /\ x # t
  <2>1. Distinct(r)
    <3> SUFFICES ASSUME NEW i \in 1..Len(r), NEW j \in 1..Len(r), r[i] = r[j] PROVE i = j
      BY DEF Distinct
    <3>1. i + 1 = j + 1
      BY <1>1, <1>3, <1>6 DEF Distinct
    <3> QED BY <3>1
  <2>2. ~In(t, r)
    BY <1>1, <1>2, <1>3, <1>6 DEF In, Distinct
  <2>3. ASSUME NEW x PROVE In(x, r) <=> In(x, q) /\ x # t
    BY <1>1, <1>2, <1>3, <1>4, <2>2 DEF In
  <2> QED BY <2>1, <2>2, <2>3
<1>7. ASSUME NEW x, NEW y, Before(q, x, y) PROVE Before(r, x, y)
  <2> SUFFICES ASSUME NEW i \in 1..Len(r), NEW j \in 1..Len(r), r[i] = x, r[j] = y
               PROVE  i < j
    BY DEF Before
  <2>1. i + 1 < j + 1
    BY <1>1, <1>3, <1>7 DEF Before
  <2> QED BY <2>1
<1> QED BY <1>1, <1>2, <1>5, <1>6, <1>7 DEF Shorter

(* r is q without its element i.                                           *)
Without(r, q, i) ==
  /\ Len(q) \in Nat /\ Len(r) = Len(q) - 1
  /\ Distinct(q) => Distinct(r) /\ \A x : In(x, r) <=> In(x, q) /\ x # q[i]

(* Taking out an element.                                                  *)
LEMMA RemoveFacts ==
  ASSUME NEW S, NEW q \in Seq(S), NEW i \in 1..Len(q), NEW r, r = RemoveAt(q, i)
  PROVE  r \in Seq(S) /\ Without(r, q, i)
<1> DEFINE n == Len(q)
           f == SubSeq(q, 1, i - 1)
           l == SubSeq(q, i + 1, n)
<1>1. n \in Nat /\ i \in 1..n
  OBVIOUS
<1>2. f \in Seq(S) /\ Len(f) = i - 1 /\ \A k \in 1..(i - 1) : f[k] = q[k]
  BY <1>1
<1>3. l \in Seq(S) /\ Len(l) = n - i /\ \A k \in 1..(n - i) : l[k] = q[k + i]
  BY <1>1
<1>4. r = f \o l
  BY DEF RemoveAt
<1> HIDE DEF f, l
<1>5. /\ r \in Seq(S) /\ Len(r) = n - 1
      /\ \A k \in 1..(i - 1) : r[k] = q[k]
      /\ \A k \in i..(n - 1) : r[k] = q[k + 1]
  <2>1. r \in Seq(S) /\ Len(r) = Len(f) + Len(l)
    BY <1>2, <1>3, <1>4, ConcatProperties
  <2>2. \A k \in 1..(i - 1) : r[k] = f[k]
    BY <1>1, <1>2, <1>3, <1>4
  <2>3. ASSUME NEW k \in i..(n - 1) PROVE r[k] = q[k + 1]
    <3>1. k - (i - 1) \in 1..(n - i) /\ k \notin 1..(i - 1) /\ k \in 1..(n - 1)
      BY <1>1
    <3>2. r[k] = l[k - (i - 1)]
      BY <1>1, <1>2, <1>3, <1>4, <3>1
    <3>3. l[k - (i - 1)] = q[k - (i - 1) + i]
      BY <1>3, <3>1
    <3>4. k - (i - 1) + i = k + 1
      BY <1>1
    <3> QED BY <3>2, <3>3, <3>4
  <2> QED BY <1>1, <1>2, <1>3, <2>1, <2>2, <2>3
<1> DEFINE old(k) == IF k < i THEN k ELSE k + 1
<1>6. \A k \in 1..(n - 1) : r[k] = q[old(k)] /\ old(k) \in 1..n /\ old(k) # i
  BY <1>1, <1>5
<1>7. ASSUME Distinct(q) PROVE Distinct(r)
  <2> SUFFICES ASSUME NEW j \in 1..(n - 1), NEW k \in 1..(n - 1), r[j] = r[k] PROVE j = k
    BY <1>5 DEF Distinct
  <2>1. old(j) = old(k)
    BY <1>6, <1>7 DEF Distinct
  <2> QED BY <1>1, <2>1
<1>8. ASSUME Distinct(q), NEW x PROVE In(x, r) <=> In(x, q) /\ x # q[i]
  <2>1. ASSUME NEW k \in 1..(n - 1), r[k] = x PROVE In(x, q) /\ x # q[i]
    BY <1>1, <1>6, <1>8, <2>1 DEF Distinct, In
  <2>2. ASSUME NEW k \in 1..n, q[k] = x, x # q[i] PROVE \E j \in 1..(n - 1) : r[j] = x
    <3> DEFINE j == IF k < i THEN k ELSE k - 1
    <3>1. k # i
      BY <2>2
    <3>2. j \in 1..(n - 1) /\ old(j) = k
      BY <1>1, <3>1
    <3> QED BY <1>6, <2>2, <3>2
  <2> QED BY <1>5, <2>1, <2>2 DEF In
<1> QED BY <1>1, <1>5, <1>7, <1>8 DEF Without

(* The number of copies of a message in a queue.                           *)
LEMMA CopiesFacts ==
  ASSUME NEW S, NEW q \in Seq(S), NEW x
  PROVE  /\ Copies(q, x) \in Nat
         /\ q = <<>> => Copies(q, x) = 0
         /\ IsFiniteSet({i \in DOMAIN q : q[i] = x})
<1>1. Len(q) \in Nat /\ DOMAIN q = 1..Len(q)
  BY LenProperties
<1> DEFINE P == {i \in DOMAIN q : q[i] = x}
<1>2. IsFiniteSet(1..Len(q)) /\ P \in SUBSET (1..Len(q))
  BY <1>1, FS_Interval
<1>3. IsFiniteSet(P) /\ Cardinality(P) \in Nat
  BY <1>2, FS_Subset, FS_CardinalityType
<1>4. ASSUME q = <<>> PROVE P = {}
  BY <1>4
<1> QED BY <1>3, <1>4, FS_EmptySet DEF Copies

(* Putting a message behind a queue.                                       *)
LEMMA CopiesAppend ==
  ASSUME NEW S, NEW q \in Seq(S), NEW m \in S, NEW x
  PROVE  Copies(Append(q, m), x) = Copies(q, x) + Bit(x = m)
<1> DEFINE P == {i \in DOMAIN q : q[i] = x}
           r == Append(q, m)
           R == {i \in DOMAIN r : r[i] = x}
<1>1. /\ r \in Seq(S) /\ Len(r) = Len(q) + 1 /\ r[Len(q) + 1] = m
      /\ \A i \in 1..Len(q) : r[i] = q[i]
  BY AppendProperties
<1>2. Len(q) \in Nat /\ DOMAIN q = 1..Len(q) /\ DOMAIN r = 1..Len(r)
  BY <1>1, LenProperties
<1>3. IsFiniteSet(P)
  BY CopiesFacts
<1>4. Len(q) + 1 \notin P
  BY <1>2
<1> HIDE DEF r
<1>5. R = IF x = m THEN P \cup {Len(q) + 1} ELSE P
  BY <1>1, <1>2
<1> HIDE DEF P, R
<1>6. CASE x = m
  BY <1>3, <1>4, <1>5, <1>6, FS_AddElement DEF Copies, P, R, r, Bit
<1>7. CASE x # m
  <2>1. Cardinality(P) \in Nat
    BY <1>3, FS_CardinalityType
  <2>2. Copies(r, x) = Cardinality(P) /\ Copies(q, x) = Cardinality(P)
    BY <1>5, <1>7 DEF Copies, P, R
  <2>3. Bit(x = m) = 0
    BY <1>7 DEF Bit
  <2> QED BY <2>1, <2>2, <2>3 DEF r
<1> QED BY <1>6, <1>7

(* Taking the first message.                                               *)
LEMMA CopiesTail ==
  ASSUME NEW S, NEW q \in Seq(S), q # <<>>, NEW x
  PROVE  Copies(Tail(q), x) = Copies(q, x) - Bit(x = Head(q))
<1> DEFINE P == {i \in DOMAIN q : q[i] = x}
           r == Tail(q)
           R == {i \in DOMAIN r : r[i] = x}
<1>1. /\ r \in Seq(S) /\ Len(r) = Len(q) - 1 /\ Len(q) \in Nat \ {0} /\ Head(q) = q[1]
      /\ \A i \in 1..Len(r) : r[i] = q[i + 1]
  BY TailFacts DEF Shorter
<1>2. DOMAIN q = 1..Len(q) /\ DOMAIN r = 1..Len(r)
  BY <1>1, LenProperties
<1>3. IsFiniteSet(P) /\ IsFiniteSet(R)
  <2>1. IsFiniteSet(1..Len(q)) /\ IsFiniteSet(1..Len(r))
    BY <1>1, FS_Interval
  <2>2. P \subseteq 1..Len(q) /\ R \subseteq 1..Len(r)
    BY <1>2
  <2> QED BY <2>1, <2>2, FS_Subset
<1> HIDE DEF r
<1> DEFINE Q == P \ {1}
           f == [i \in R |-> i + 1]
<1>4. f \in [R -> Q]
  BY <1>1, <1>2
<1>5. \A i, j \in R : f[i] = f[j] => i = j
  BY <1>1, <1>2
<1>6. ASSUME NEW k \in Q PROVE \E i \in R : f[i] = k
  <2>1. k - 1 \in 1..Len(r) /\ k - 1 + 1 = k
    BY <1>1, <1>2
  <2>2. k - 1 \in R
    BY <1>1, <1>2, <2>1
  <2> QED BY <2>1, <2>2
<1>7. ExistsBijection(R, Q)
  <2> HIDE DEF f, Q, R
  <2>1. DOMAIN f = R
    BY <1>4
  <2>2. f \in Injection(R, Q)
    BY <1>4, <1>5, <2>1 DEF Injection, IsInjective
  <2>3. f \in Surjection(R, Q)
    BY <1>4, <1>6 DEF Surjection
  <2> QED BY <2>2, <2>3 DEF ExistsBijection, Bijection
<1> HIDE DEF P, Q, R
<1>8. Cardinality(Q) = Cardinality(R)
  BY <1>3, <1>7, FS_Bijection
<1>9. Cardinality(Q) = IF 1 \in P THEN Cardinality(P) - 1 ELSE Cardinality(P)
  BY <1>3, FS_RemoveElement DEF Q
<1>10. 1 \in P <=> x = Head(q)
  BY <1>1, <1>2 DEF P
<1>11. Cardinality(P) \in Nat
  BY <1>3, FS_CardinalityType
<1>12. Copies(r, x) = Cardinality(R) /\ Copies(q, x) = Cardinality(P)
  BY DEF Copies, P, R
<1>13. Bit(x = Head(q)) = IF 1 \in P THEN 1 ELSE 0
  BY <1>10 DEF Bit
<1> QED BY <1>8, <1>9, <1>11, <1>12, <1>13 DEF r

(* An interval from 1 has as many elements as its upper bound says.        *)
LEMMA Interval ==
  ASSUME NEW n \in Nat PROVE IsFiniteSet(1..n) /\ Cardinality(1..n) = n
<1>1. 1 \in Int /\ n \in Int
  OBVIOUS
<1>2. IsFiniteSet(1..n) /\ Cardinality(1..n) = IF 1 > n THEN 0 ELSE n - 1 + 1
  BY <1>1, FS_Interval
<1> QED BY <1>2

(* The sum of the numbers of some viewers is finite.                       *)
Units(F, V) == UNION {{c} \X (1..F[c]) : c \in V}

(* The units counted for a set of viewers are finitely many.               *)
LEMMA UnitsFinite ==
  ASSUME NEW F \in [Viewers -> Nat], NEW V \in SUBSET Viewers
  PROVE  IsFiniteSet(Units(F, V))
<1> DEFINE W == Viewers \X UNION {1..F[c] : c \in Viewers}
<1> DEFINE G == {{c} \X (1..F[c]) : c \in V}
           g == [c \in V |-> {c} \X (1..F[c])]
<1>1. IsFiniteSet(V)
  BY NvsAssumption, FS_Subset
<1>2. G = {g[c] : c \in V} /\ g \in Surjection(V, G)
  BY DEF Surjection
<1>3. IsFiniteSet(G)
  BY <1>1, <1>2, FS_Surjection DEF ExistsSurjection
<1>4. ASSUME NEW c \in V PROVE IsFiniteSet({c} \X (1..F[c]))
  <2>1. F[c] \in Nat
    OBVIOUS
  <2>2. IsFiniteSet({c}) /\ IsFiniteSet(1..F[c])
    BY <2>1, FS_Singleton, Interval
  <2> QED BY <2>2, FS_Product
<1>5. \A X \in G : IsFiniteSet(X)
  BY <1>4
<1> QED BY <1>3, <1>5, FS_UNION DEF Units

(* The sum is a number, and when one of the numbers changes the sum        *)
(* changes by as much.                                                     *)
LEMMA TotalUpdate ==
  ASSUME NEW F \in [Viewers -> Nat], NEW c \in Viewers, NEW n \in Nat
  PROVE  /\ Total(F) \in Nat
         /\ Total([F EXCEPT ![c] = n]) = Total(F) - F[c] + n
<1> DEFINE V == Viewers \ {c}
           E == [F EXCEPT ![c] = n]
           R == Units(F, V)
<1>1. E \in [Viewers -> Nat] /\ E[c] = n /\ \A d \in V : E[d] = F[d]
  OBVIOUS
<1> HIDE DEF E
<1>2. Units(E, V) = R
  BY <1>1 DEF Units
<1>3. ASSUME NEW H \in [Viewers -> Nat], Units(H, V) = R
      PROVE  Total(H) = Cardinality(R) + H[c]
  <2> DEFINE P == {c} \X (1..H[c])
  <2>1. H[c] \in Nat
    OBVIOUS
  <2>2. /\ IsFiniteSet({c}) /\ Cardinality({c}) = 1
        /\ IsFiniteSet(1..H[c]) /\ Cardinality(1..H[c]) = H[c]
    BY <2>1, FS_Singleton, Interval
  <2>3. IsFiniteSet(P) /\ Cardinality(P) = H[c]
    BY <2>1, <2>2, FS_Product
  <2>4. IsFiniteSet(R)
    BY <1>3, UnitsFinite
  <2>5. Units(H, Viewers) = R \cup P
    BY <1>3 DEF Units
  <2>6. R \cap P = {}
    BY <1>3 DEF Units
  <2> HIDE DEF P, R
  <2>7. Cardinality(R \cup P) = Cardinality(R) + Cardinality(P) - Cardinality(R \cap P)
    BY <2>3, <2>4, FS_Union
  <2>8. Cardinality(R) \in Nat
    BY <2>4, FS_CardinalityType
  <2>9. Total(H) = Cardinality(R \cup P)
    BY <2>5 DEF Total, Units
  <2>10. Cardinality(R \cap P) = 0
    BY <2>6, FS_EmptySet
  <2> QED BY <2>1, <2>3, <2>7, <2>8, <2>9, <2>10
<1>4. Total(F) = Cardinality(R) + F[c]
  BY <1>3
<1>5. Total(E) = Cardinality(R) + n
  BY <1>1, <1>2, <1>3
<1>6. Cardinality(R) \in Nat
  BY UnitsFinite, FS_CardinalityType
<1> HIDE DEF R
<1> QED BY <1>4, <1>5, <1>6 DEF E

(* A total of natural numbers is one, and the total of noughts is nought.  *)
LEMMA TotalNat ==
  ASSUME NEW F \in [Viewers -> Nat]
  PROVE  Total(F) \in Nat /\ ((\A c \in Viewers : F[c] = 0) => Total(F) = 0)
<1>1. IsFiniteSet(Units(F, Viewers))
  BY UnitsFinite
<1>2. ASSUME \A c \in Viewers : F[c] = 0 PROVE Units(F, Viewers) = {}
  <2>1. ASSUME NEW c \in Viewers PROVE {c} \X (1..F[c]) = {}
    BY <1>2
  <2> QED BY <2>1 DEF Units
<1> QED BY <1>1, <1>2, FS_CardinalityType, FS_EmptySet DEF Total, Units

-----------------------------------------------------------------------------
(* What the operations change.                                             *)

(* The threads and the messages have different names.                      *)
LEMMA Names ==
  /\ {Ses, Recv, Send, Heart, Open} \subseteq Threads
  /\ \A c \in Viewers : {<<"session", c>>, <<"recv", c>>, <<"send", c>>, <<"open", c>>}
                          \subseteq Threads
  /\ \A c \in Viewers, r \in STRING :
       <<r, c>> \notin {Ses, Recv, Send, Heart, Open}
  /\ NoThread \notin Threads
  /\ {Beat, VideoCmd} \subseteq Msgs
  /\ \A c \in Viewers : {<<"beat", c>>, <<"open", c>>} \subseteq Msgs
BY NvsAssumption DEF Ses, Recv, Send, Heart, Open, T, Threads, DeviceThreads, NoThread,
                     Beat, VideoCmd, Msgs

(* The threads of a viewer.                                                *)
LEMMA ViewerNames ==
  ASSUME NEW c \in Viewers
  PROVE  /\ <<"session", c>> \in Threads /\ <<"recv", c>> \in Threads
         /\ <<"send", c>> \in Threads /\ <<"open", c>> \in Threads
         /\ <<"session", c>> \notin {Ses, Recv, Send, Heart, Open}
         /\ <<"recv", c>> \notin {Ses, Recv, Send, Heart, Open}
         /\ <<"send", c>> \notin {Ses, Recv, Send, Heart, Open}
         /\ <<"open", c>> \notin {Ses, Recv, Send, Heart, Open}
         /\ <<"open", c>> \in Msgs /\ <<"beat", c>> \in Msgs
         /\ <<"open", c>> # VideoCmd /\ <<"beat", c>> # VideoCmd
BY NvsAssumption DEF Ses, Recv, Send, Heart, Open, T, Threads, DeviceThreads, Msgs, VideoCmd

(* The threads of the front end side are all different.                    *)
LEMMA DeviceNames ==
  /\ Ses # Recv /\ Ses # Send /\ Ses # Heart /\ Ses # Open /\ Recv # Send
  /\ Recv # Heart /\ Recv # Open /\ Send # Heart /\ Send # Open /\ Heart # Open
BY DEF Ses, Recv, Send, Heart, Open, T

(* The parts of the server.                                                *)
LEMMA ServerType ==
  ASSUME NEW s \in Server
  PROVE  /\ s.runq \in Seq(Threads) /\ s.pc \in [Threads -> Locs]
         /\ s.pu \in PuRec /\ s.cu \in [Viewers -> CuRec]
         /\ s.ref \in [Msgs -> Nat]
         /\ s.crashed \in {"no", "count", "open", "session"}
         /\ s = [runq |-> s.runq, pc |-> s.pc, pu |-> s.pu, cu |-> s.cu,
                 ref |-> s.ref, crashed |-> s.crashed]
BY DEF Server

(* The fields of the record of the front end.                              *)
LEMMA PuType ==
  ASSUME NEW p \in PuRec
  PROVE  /\ p.alive \in BOOLEAN /\ p.id \in Nat /\ p.valid \in BOOLEAN /\ p.ref \in Nat
         /\ p.cmd \in BOOLEAN /\ p.vec \in Seq(Viewers) /\ p.queue \in Seq(Msgs)
         /\ p.batch \in Seq(Msgs) /\ p.ticks \in Nat
BY DEF PuRec

(* The fields of the record of a viewer.                                   *)
LEMMA CuType ==
  ASSUME NEW p \in CuRec
  PROVE  /\ p.alive \in BOOLEAN /\ p.valid \in BOOLEAN /\ p.ref \in Nat /\ p.pu \in BOOLEAN
         /\ p.wrap \in BOOLEAN /\ p.queue \in Seq(Msgs) /\ p.batch \in Seq(Msgs)
         /\ p.found \in Nat
BY DEF CuRec

(* Setting one part of the server.                                         *)
PuSet(u, s, p) ==
  /\ u \in Server /\ u.pu = p /\ u.pc = s.pc /\ u.cu = s.cu
  /\ u.crashed = s.crashed /\ u.runq = s.runq /\ u.ref = s.ref

(* u is s, but for the record of viewer c.                                 *)
CuSet(u, s, c, p) ==
  /\ u \in Server /\ u.cu = [s.cu EXCEPT ![c] = p] /\ u.cu[c] = p
  /\ \A d \in Viewers : d # c => u.cu[d] = s.cu[d]
  /\ u.pc = s.pc /\ u.pu = s.pu
  /\ u.crashed = s.crashed /\ u.runq = s.runq /\ u.ref = s.ref

(* u is s, but for the place of thread t.                                  *)
PcSet(u, s, t, l) ==
  /\ u \in Server /\ u.pc = [s.pc EXCEPT ![t] = l] /\ u.pc[t] = l
  /\ \A x \in Threads : x # t => u.pc[x] = s.pc[x]
  /\ u.pu = s.pu /\ u.cu = s.cu
  /\ u.crashed = s.crashed /\ u.runq = s.runq /\ u.ref = s.ref

(* Replacing the record of the front end.                                  *)
LEMMA SetPu ==
  ASSUME NEW s \in Server, NEW p \in PuRec
  PROVE  PuSet([s EXCEPT !.pu = p], s, p)
BY DEF Server, PuSet

(* Replacing the record of a viewer.                                       *)
LEMMA SetCu ==
  ASSUME NEW s \in Server, NEW c \in Viewers, NEW p \in CuRec
  PROVE  CuSet([s EXCEPT !.cu[c] = p], s, c, p)
<1>1. s.cu \in [Viewers -> CuRec]
  BY ServerType
<1>2. [s.cu EXCEPT ![c] = p] \in [Viewers -> CuRec]
  BY <1>1
<1> QED BY <1>1, <1>2 DEF Server, CuSet

(* Moving a thread.                                                        *)
LEMMA SetPc ==
  ASSUME NEW s \in Server, NEW t \in Threads, NEW l \in Locs
  PROVE  PcSet([s EXCEPT !.pc[t] = l], s, t, l)
<1>1. s.pc \in [Threads -> Locs]
  BY ServerType
<1>2. [s.pc EXCEPT ![t] = l] \in [Threads -> Locs]
  BY <1>1
<1> QED BY <1>1, <1>2 DEF Server, PcSet

(* Only the counts of the messages differ.                                 *)
RefOnly(u, s) ==
  /\ u \in Server /\ u.runq = s.runq /\ u.pc = s.pc /\ u.pu = s.pu /\ u.cu = s.cu
  /\ u.crashed = s.crashed

(* Replacing the counts of the messages.                                   *)
LEMMA SetRef ==
  ASSUME NEW s \in Server, NEW r \in [Msgs -> Nat]
  PROVE  RefOnly([s EXCEPT !.ref = r], s) /\ [s EXCEPT !.ref = r].ref = r
BY DEF RefOnly, Server

(* msg_addref changes one count of references, and nothing else.           *)
LEMMA AddMsgFacts ==
  ASSUME NEW s \in Server, NEW m \in Msgs, NEW u, u = AddMsg(s, m)
  PROVE  RefOnly(u, s) /\ u.ref = [s.ref EXCEPT ![m] = @ + 1]
<1>1. s.ref[m] \in Nat /\ s.ref[m] + 1 \in Nat
  BY ServerType
<1>2. u = [s EXCEPT !.ref[m] = @ + 1]
  BY DEF AddMsg
<1>3. [s.ref EXCEPT ![m] = @ + 1] \in [Msgs -> Nat]
  BY <1>1, ServerType
<1>4. PICK r : r = [s.ref EXCEPT ![m] = @ + 1]
  OBVIOUS
<1>5. u = [s EXCEPT !.ref = r] /\ r \in [Msgs -> Nat]
  BY <1>2, <1>3, <1>4
<1>6. RefOnly([s EXCEPT !.ref = r], s) /\ [s EXCEPT !.ref = r].ref = r
  BY <1>5, SetRef
<1> QED BY <1>4, <1>5, <1>6

(* msg_release, when there is a reference to release.                      *)
LEMMA ReleaseMsgFacts ==
  ASSUME NEW s \in Server, NEW m \in Msgs, s.ref[m] >= 1, NEW u, u = ReleaseMsg(s, m)
  PROVE  RefOnly(u, s) /\ u.ref = [s.ref EXCEPT ![m] = @ - 1]
<1>1. s.ref[m] # 0 /\ s.ref[m] - 1 \in Nat
  BY ServerType
<1>2. u = [s EXCEPT !.ref[m] = @ - 1]
  BY <1>1 DEF ReleaseMsg
<1>3. [s.ref EXCEPT ![m] = @ - 1] \in [Msgs -> Nat]
  BY <1>1, ServerType
<1>4. PICK r : r = [s.ref EXCEPT ![m] = @ - 1]
  OBVIOUS
<1>5. u = [s EXCEPT !.ref = r] /\ r \in [Msgs -> Nat]
  BY <1>2, <1>3, <1>4
<1>6. RefOnly([s EXCEPT !.ref = r], s) /\ [s EXCEPT !.ref = r].ref = r
  BY <1>5, SetRef
<1> QED BY <1>4, <1>5, <1>6

(* The counts after every message of ms has been released.                 *)
RefLess(r, f, ms) ==
  \A m \in Msgs : r[m] = f[m] - Copies(ms, m)

(* Releasing every message of a queue that holds a reference to each.      *)
LEMMA ReleaseAllFacts ==
  ASSUME NEW s \in Server, NEW ms \in Seq(Msgs),
         \A m \in Msgs : s.ref[m] >= Copies(ms, m), NEW u, u = ReleaseAll(s, ms)
  PROVE  RefOnly(u, s) /\ RefLess(u.ref, s.ref, ms)
<1> DEFINE f == [m \in Msgs |-> s.ref[m] - Copies(ms, m)]
<1>1. \A m \in Msgs : Copies(ms, m) \in Nat /\ s.ref[m] \in Nat
  BY CopiesFacts, ServerType
<1>2. ~ \E m \in Msgs : s.ref[m] < Copies(ms, m)
  BY <1>1
<1>3. u = [s EXCEPT !.ref = f]
  BY <1>2 DEF ReleaseAll
<1>4. f \in [Msgs -> Nat] /\ \A m \in Msgs : f[m] = s.ref[m] - Copies(ms, m)
  BY <1>1
<1> HIDE DEF f
<1>5. RefOnly(u, s) /\ u.ref = f
  BY <1>3, <1>4 DEF RefOnly, Server
<1> QED BY <1>4, <1>5 DEF RefLess

(* The thread t has been made runnable, or nobody has.                     *)
Woken(u, s, t) ==
  \/ u.runq = s.runq
  \/ s.pc[t] = "wait" /\ ~In(t, s.runq) /\ Longer(u.runq, s.runq, t)

(* The two ways to say that a sequence has an element.                     *)
LEMMA InToSet ==
  ASSUME NEW S, NEW q \in Seq(S), NEW t PROVE t \in ToSet(q) <=> In(t, q)
<1>1. DOMAIN q = 1..Len(q)
  BY LenProperties
<1> QED BY <1>1 DEF ToSet, In

(* notify may put the waiting thread behind the run queue.                 *)
LEMMA NotifyFacts ==
  ASSUME NEW s \in Server, NEW t \in Threads, NEW u, u = notify(s, t)
  PROVE  /\ u \in Server /\ u.pc = s.pc /\ u.pu = s.pu /\ u.cu = s.cu /\ u.ref = s.ref
         /\ u.crashed = s.crashed /\ Woken(u, s, t)
<1>1. CASE s.pc[t] = "wait" /\ t \notin ToSet(s.runq)
  <2>1. u = [s EXCEPT !.runq = Append(@, t)]
    BY <1>1 DEF notify
  <2>2. PICK q : q = Append(s.runq, t)
    OBVIOUS
  <2>3. s.runq \in Seq(Threads) /\ q \in Seq(Threads) /\ Longer(q, s.runq, t)
    BY <2>2, ServerType, AppendFacts
  <2>4. /\ u \in Server /\ u.pc = s.pc /\ u.pu = s.pu /\ u.cu = s.cu /\ u.ref = s.ref
        /\ u.crashed = s.crashed /\ u.runq = q
    BY <2>1, <2>2, <2>3 DEF Server
  <2>5. ~In(t, s.runq)
    BY <1>1, <2>3, InToSet
  <2> QED BY <1>1, <2>3, <2>4, <2>5 DEF Woken
<1>2. CASE ~(s.pc[t] = "wait" /\ t \notin ToSet(s.runq))
  BY <1>2 DEF notify, Woken
<1> QED BY <1>1, <1>2

(* A message has been put into the queue of a viewer.                      *)
CuSent(u, s, c, m) ==
  /\ u \in Server /\ u.pc = s.pc /\ u.pu = s.pu /\ u.crashed = s.crashed
  /\ \/ ~s.cu[c].valid /\ u = s
     \/ /\ s.cu[c].valid /\ Woken(u, s, <<"send", c>>)
        /\ u.ref = [s.ref EXCEPT ![m] = @ + 1]
        /\ u.cu = [s.cu EXCEPT ![c].queue = Append(@, m)]

(* cu_send_msg queues the message for the viewer and wakes its sending     *)
(* thread.                                                                 *)
LEMMA CuSendFacts ==
  ASSUME NEW s \in Server, NEW c \in Viewers, NEW m \in Msgs,
         NEW u, u = cu_send_msg(s, c, m)
  PROVE  CuSent(u, s, c, m)
<1>1. CASE ~s.cu[c].valid
  BY <1>1 DEF cu_send_msg, CuSent
<1>2. CASE s.cu[c].valid
  <2>1. PICK a : a = AddMsg(s, m)
    OBVIOUS
  <2>2. PICK b : b = [a EXCEPT !.cu[c].queue = Append(@, m)]
    OBVIOUS
  <2>3. u = notify(b, <<"send", c>>)
    BY <1>2, <2>1, <2>2 DEF cu_send_msg
  <2>4. RefOnly(a, s) /\ a.ref = [s.ref EXCEPT ![m] = @ + 1]
    BY <2>1, AddMsgFacts
  <2>5. a \in Server /\ a.cu = s.cu /\ s.cu[c] \in CuRec
    BY <2>4, ServerType DEF RefOnly
  <2>6. PICK q : q = Append(s.cu[c].queue, m)
    OBVIOUS
  <2>7. q \in Seq(Msgs)
    BY <2>5, <2>6, CuType, AppendProperties
  <2>8. [s.cu EXCEPT ![c].queue = q] \in [Viewers -> CuRec]
    <3>1. s.cu \in [Viewers -> CuRec]
      BY ServerType
    <3> QED BY <2>7, <3>1 DEF CuRec
  <2>9. /\ b \in Server /\ b.runq = s.runq /\ b.pc = s.pc /\ b.pu = s.pu
        /\ b.crashed = s.crashed /\ b.ref = a.ref /\ b.cu = [s.cu EXCEPT ![c].queue = q]
    BY <2>2, <2>4, <2>5, <2>6, <2>8 DEF Server, RefOnly
  <2>10. <<"send", c>> \in Threads
    BY Names
  <2>11. /\ u \in Server /\ u.pc = b.pc /\ u.pu = b.pu /\ u.cu = b.cu /\ u.ref = b.ref
         /\ u.crashed = b.crashed /\ Woken(u, b, <<"send", c>>)
    BY <2>3, <2>9, <2>10, NotifyFacts
  <2> QED BY <1>2, <2>4, <2>6, <2>9, <2>11 DEF CuSent, Woken
<1> QED BY <1>1, <1>2

(* A message has been put into the queue of the front end.                 *)
PuSent(u, s, m) ==
  /\ u \in Server /\ u.pc = s.pc /\ u.cu = s.cu /\ u.crashed = s.crashed
  /\ \/ ~s.pu.valid /\ u = s
     \/ /\ s.pu.valid /\ Woken(u, s, Send)
        /\ u.ref = [s.ref EXCEPT ![m] = @ + 1]
        /\ u.pu = [s.pu EXCEPT !.queue = Append(@, m)]

(* pu_send_msg queues the message for the front end and wakes its sending  *)
(* thread.                                                                 *)
LEMMA PuSendFacts ==
  ASSUME NEW s \in Server, NEW m \in Msgs, NEW u, u = pu_send_msg(s, m)
  PROVE  PuSent(u, s, m)
<1>1. CASE ~s.pu.valid
  BY <1>1 DEF pu_send_msg, PuSent
<1>2. CASE s.pu.valid
  <2>1. PICK a : a = AddMsg(s, m)
    OBVIOUS
  <2>2. PICK b : b = [a EXCEPT !.pu.queue = Append(@, m)]
    OBVIOUS
  <2>3. u = notify(b, Send)
    BY <1>2, <2>1, <2>2 DEF pu_send_msg, Send
  <2>4. RefOnly(a, s) /\ a.ref = [s.ref EXCEPT ![m] = @ + 1]
    BY <2>1, AddMsgFacts
  <2>5. a \in Server /\ a.pu = s.pu /\ s.pu \in PuRec
    BY <2>4, ServerType DEF RefOnly
  <2>6. PICK q : q = Append(s.pu.queue, m)
    OBVIOUS
  <2>7. q \in Seq(Msgs)
    BY <2>5, <2>6, PuType, AppendProperties
  <2>8. [s.pu EXCEPT !.queue = q] \in PuRec
    BY <2>5, <2>7 DEF PuRec
  <2>9. /\ b \in Server /\ b.runq = s.runq /\ b.pc = s.pc /\ b.cu = s.cu
        /\ b.crashed = s.crashed /\ b.ref = a.ref /\ b.pu = [s.pu EXCEPT !.queue = q]
    BY <2>2, <2>4, <2>5, <2>6, <2>8 DEF Server, RefOnly
  <2>10. Send \in Threads
    BY Names
  <2>11. /\ u \in Server /\ u.pc = b.pc /\ u.pu = b.pu /\ u.cu = b.cu /\ u.ref = b.ref
         /\ u.crashed = b.crashed /\ Woken(u, b, Send)
    BY <2>3, <2>9, <2>10, NotifyFacts
  <2> QED BY <1>2, <2>4, <2>6, <2>9, <2>11 DEF PuSent, Woken
<1> QED BY <1>1, <1>2

-----------------------------------------------------------------------------
(* References to messages.                                                 *)

LEMMA QueuedNat ==
  ASSUME NEW p, p.queue \in Seq(Msgs), p.batch \in Seq(Msgs), NEW m
  PROVE  /\ Queued(p, m) \in Nat
         /\ Queued(p, m) >= Copies(p.queue, m) /\ Queued(p, m) >= Copies(p.batch, m)
         /\ Copies(p.queue, m) \in Nat /\ Copies(p.batch, m) \in Nat
<1>1. Copies(p.queue, m) \in Nat /\ Copies(p.batch, m) \in Nat
  BY CopiesFacts
<1> QED BY <1>1 DEF Queued

(* The references the invariant counts are natural numbers.                *)
LEMMA HeldNat ==
  ASSUME NEW s \in Server, NEW m \in Msgs
  PROVE  /\ PuHeld(s.pu, m) \in Nat /\ CuHeld(s, m) \in Nat /\ OpenHeld(s.pc, m) \in {0, 1}
         /\ Held(s, m) \in Nat /\ s.ref[m] \in Nat
         /\ Held(s, m) = PuHeld(s.pu, m) + CuHeld(s, m) + OpenHeld(s.pc, m)
<1>1. s.pu \in PuRec /\ s.cu \in [Viewers -> CuRec] /\ s.ref[m] \in Nat
  BY ServerType
<1>2. Queued(s.pu, m) \in Nat /\ Len(s.pu.vec) \in Nat
  BY <1>1, PuType, QueuedNat, LenProperties
<1>3. PuHeld(s.pu, m) \in Nat
  BY <1>2 DEF PuHeld
<1>4. ASSUME NEW c \in Viewers PROVE Queued(s.cu[c], m) \in Nat
  BY <1>1, CuType, QueuedNat
<1>5. [c \in Viewers |-> Queued(s.cu[c], m)] \in [Viewers -> Nat]
  BY <1>4
<1>6. CuHeld(s, m) \in Nat
  BY <1>5, TotalNat DEF CuHeld
<1>7. OpenHeld(s.pc, m) \in {0, 1}
  BY DEF OpenHeld, Bit
<1> QED BY <1>1, <1>3, <1>6, <1>7 DEF Held

(* When one viewer changes, the references of its queues do.               *)
LEMMA CuHeldOne ==
  ASSUME NEW s \in Server, NEW u \in Server, NEW c \in Viewers, NEW r \in CuRec,
         u.cu = [s.cu EXCEPT ![c] = r], NEW m \in Msgs
  PROVE  /\ CuHeld(u, m) = CuHeld(s, m) - Queued(s.cu[c], m) + Queued(r, m)
         /\ CuHeld(u, m) \in Nat /\ CuHeld(s, m) \in Nat
         /\ CuHeld(s, m) >= Queued(s.cu[c], m)
         /\ Queued(s.cu[c], m) \in Nat /\ Queued(r, m) \in Nat
<1> DEFINE F == [d \in Viewers |-> Queued(s.cu[d], m)]
           G == [d \in Viewers |-> Queued(u.cu[d], m)]
<1>1. s.cu \in [Viewers -> CuRec]
  BY ServerType
<1>2. \A d \in Viewers : Queued(s.cu[d], m) \in Nat
  BY <1>1, CuType, QueuedNat
<1>3. Queued(r, m) \in Nat
  BY CuType, QueuedNat
<1>4. F \in [Viewers -> Nat] /\ F[c] = Queued(s.cu[c], m)
  BY <1>2
<1>5. \A d \in Viewers : u.cu[d] = IF d = c THEN r ELSE s.cu[d]
  BY <1>1
<1>6. G = [F EXCEPT ![c] = Queued(r, m)]
  BY <1>5
<1> HIDE DEF F, G
<1>7. Total(G) = Total(F) - F[c] + Queued(r, m) /\ Total(F) \in Nat
  BY <1>3, <1>4, <1>6, TotalUpdate
<1>8. CuHeld(s, m) = Total(F) /\ CuHeld(u, m) = Total(G)
  BY DEF CuHeld, F, G
<1>9. CuHeld(u, m) \in Nat
  BY HeldNat
<1>10. Total([F EXCEPT ![c] = 0]) = Total(F) - F[c] + 0
  BY <1>4, TotalUpdate
<1>11. [F EXCEPT ![c] = 0] \in [Viewers -> Nat]
  BY <1>4
<1>12. Total([F EXCEPT ![c] = 0]) \in Nat
  BY <1>11, TotalNat
<1>13. F[c] \in Nat
  BY <1>4
<1>14. Total(F) >= F[c]
  BY <1>7, <1>10, <1>12, <1>13
<1> QED BY <1>2, <1>3, <1>4, <1>7, <1>8, <1>9, <1>14

-----------------------------------------------------------------------------
(* Steps of the running thread t that change messages, queues, and which   *)
(* of the waiting threads are runnable, keep everything else as it is.     *)

(* The front end p refers to what q did, and may have other queues.        *)
PuLike(p, q) ==
  /\ p.alive = q.alive /\ p.id = q.id /\ p.ref = q.ref /\ p.cmd = q.cmd /\ p.vec = q.vec
  /\ p.valid => q.valid
  /\ q.alive \/ p = q
  /\ q.cmd \/ (p.queue = <<>> /\ p.batch = <<>>)

(* The viewer p refers to what q did.                                      *)
CuLike(p, q) ==
  /\ p.alive = q.alive /\ p.ref = q.ref /\ p.pu = q.pu /\ p.found = q.found
  /\ q.alive \/ p = q

(* At most one waiting thread other than t has been put into the run       *)
(* queue.                                                                  *)
Wakes(u, s, t) ==
  \/ u.runq = s.runq
  \/ \E x \in Threads \ {t} :
       /\ s.pc[x] = "wait" /\ ~In(x, s.runq) /\ Longer(u.runq, s.runq, x)
       /\ x = Send => s.pc[Heart] # "start" /\ s.pc[Open] # "start"

(* No thread has moved, but one may have been woken.                       *)
Quiet(u, s, t) ==
  /\ u \in Server /\ u.pc = s.pc /\ u.crashed = s.crashed
  /\ PuLike(u.pu, s.pu) /\ (\A c \in Viewers : CuLike(u.cu[c], s.cu[c]))
  /\ Wakes(u, s, t)

(* Waking a waiting thread keeps the order in which the threads start.     *)
LEMMA WakesQueueing ==
  ASSUME NEW s \in Server, NEW u \in Server, NEW t, u.pc = s.pc, Wakes(u, s, t),
         Queueing(s, t), Locations(s.pc), StartUp(s, t)
  PROVE  Queueing(u, t) /\ StartUp(u, t)
<1>1. CASE u.runq = s.runq
  BY <1>1 DEF Queueing, StartUp, On
<1>2. CASE u.runq # s.runq
  <2>1. PICK x \in Threads \ {t} :
               /\ s.pc[x] = "wait" /\ ~In(x, s.runq) /\ Longer(u.runq, s.runq, x)
               /\ x = Send => s.pc[Heart] # "start" /\ s.pc[Open] # "start"
    BY <1>2 DEF Wakes
  <2>2. \A y : In(y, u.runq) <=> In(y, s.runq) \/ y = x
    BY <2>1 DEF Longer
  <2>3. Distinct(u.runq)
    BY <2>1 DEF Longer, Queueing
  <2>4. Queueing(u, t)
    BY <2>1, <2>2, <2>3 DEF Queueing
  <2>5. x # Recv /\ x # Heart
    BY <2>1 DEF Locations
  <2>6. Before(s.runq, Recv, Send) => Before(u.runq, Recv, Send)
    BY <2>1, <2>5 DEF Longer
  <2>7. /\ On(Recv, u, t) <=> On(Recv, s, t)
        /\ On(Heart, u, t) <=> On(Heart, s, t)
        /\ In(Send, s.runq) => In(Send, u.runq)
        /\ x # Send => (On(Send, u, t) <=> On(Send, s, t))
    BY <2>2, <2>5 DEF On
  <2>8. StartUp(u, t)
    BY <2>1, <2>6, <2>7 DEF StartUp
  <2> QED BY <2>4, <2>8
<1> QED BY <1>1, <1>2

(* A step that wakes threads and changes queues and counts keeps the rest  *)
(* of the invariant.                                                       *)
LEMMA QuietKeeps ==
  ASSUME NEW s, NEW t, NEW n, Good(s, t, n), NEW u, Quiet(u, s, t),
         Batches(u, t), Counted(u)
  PROVE  Good(u, t, n)
<1>1. /\ s \in Server /\ u \in Server /\ u.pc = s.pc /\ u.crashed = s.crashed
      /\ PuLike(u.pu, s.pu) /\ Wakes(u, s, t)
  BY DEF Good, Quiet
<1>2. Queueing(u, t) /\ StartUp(u, t) /\ Locations(u.pc) /\ u.crashed = "no"
  BY <1>1, WakesQueueing DEF Good
<1>3. \A c \in Viewers : CuLike(u.cu[c], s.cu[c])
  BY DEF Quiet
<1>4. Attached(u) = Attached(s)
  BY <1>3 DEF Attached, CuLike
<1>5. PuRefs(u) = PuRefs(s)
  BY <1>1, <1>4 DEF PuRefs
<1>6. FrontEnd(u)
  BY <1>1, <1>5 DEF Good, FrontEnd, PuLike
<1>7. Video(u)
  BY <1>1, <1>3 DEF Good, Video, PuLike, CuLike
<1>8. ASSUME NEW c \in Viewers PROVE Viewer(u, c)
  <2>1. Viewer(s, c) /\ CuLike(u.cu[c], s.cu[c])
    BY <1>3 DEF Good
  <2>2. CuRefs(u, c) = CuRefs(s, c)
    BY <1>1 DEF CuRefs
  <2>3. CASE s.cu[c].alive
    BY <1>1, <2>1, <2>2, <2>3 DEF Viewer, CuLike
  <2>4. CASE ~s.cu[c].alive
    <3>1. u.cu[c] = s.cu[c]
      BY <2>1, <2>4 DEF CuLike
    <3> QED BY <1>1, <2>1, <2>4, <3>1 DEF Viewer
  <2> QED BY <2>3, <2>4
<1>9. Sessions(u, n)
  BY <1>1, <1>3 DEF Good, Sessions, PuLike, CuLike
<1> QED BY <1>1, <1>2, <1>6, <1>7, <1>8, <1>9 DEF Good

-----------------------------------------------------------------------------
(* The operations on messages keep the invariant while a thread runs.      *)

(* The references of a message that nothing holds yet.                     *)
Spare(s, m) == s.ref[m] - Held(s, m)

(* A count of references is what is held, and the rest.                    *)
LEMMA SpareInt ==
  ASSUME NEW s, NEW t, NEW n, Good(s, t, n), NEW m \in Msgs
  PROVE  /\ Spare(s, m) \in Nat /\ s.ref[m] \in Nat /\ Held(s, m) \in Nat
         /\ s.ref[m] = Held(s, m) + Spare(s, m)
<1>1. s \in Server /\ s.ref[m] >= Held(s, m)
  BY DEF Good, Counted
<1> QED BY <1>1, HeldNat DEF Spare

(* Who holds a message does not depend on the counts of references.        *)
LEMMA RefOnlyHeld ==
  ASSUME NEW s \in Server, NEW u, RefOnly(u, s), NEW m PROVE Held(u, m) = Held(s, m)
BY DEF RefOnly, Held, CuHeld

(* Counts of references that cover what is held may change.                *)
LEMMA GoodRef ==
  ASSUME NEW s, NEW t, NEW n, Good(s, t, n), NEW u, RefOnly(u, s),
         \A m \in Msgs : u.ref[m] >= Held(s, m)
  PROVE  Good(u, t, n)
<1>1. s \in Server /\ Batches(s, t) /\ Counted(s) /\ FrontEnd(s)
  BY DEF Good
<1>2. Quiet(u, s, t)
  BY <1>1 DEF Quiet, RefOnly, PuLike, CuLike, Wakes, FrontEnd
<1>3. Batches(u, t)
  BY <1>1 DEF RefOnly, Batches
<1>4. Counted(u)
  <2>1. \A m \in Msgs : u.ref[m] >= Held(u, m)
    BY <1>1, RefOnlyHeld
  <2>2. CuHeld(u, VideoCmd) = CuHeld(s, VideoCmd)
    BY DEF CuHeld, RefOnly
  <2> QED BY <1>1, <2>1, <2>2 DEF Counted
<1> QED BY <1>2, <1>3, <1>4, QuietKeeps

(* msg_addref gives its caller a reference nobody else holds.              *)
LEMMA GoodAddMsg ==
  ASSUME NEW s, NEW t, NEW n, Good(s, t, n), NEW m \in Msgs, NEW u, u = AddMsg(s, m)
  PROVE  /\ Good(u, t, n) /\ RefOnly(u, s) /\ Spare(u, m) = Spare(s, m) + 1
         /\ \A x \in Msgs : x # m => Spare(u, x) = Spare(s, x)
<1>1. s \in Server
  BY DEF Good
<1>2. RefOnly(u, s) /\ u.ref = [s.ref EXCEPT ![m] = @ + 1]
  BY <1>1, AddMsgFacts
<1>3. \A x \in Msgs : u.ref[x] = IF x = m THEN s.ref[x] + 1 ELSE s.ref[x]
  BY <1>1, <1>2, ServerType
<1>4. \A x \in Msgs : Held(u, x) = Held(s, x)
  BY <1>1, <1>2, RefOnlyHeld
<1>5. \A x \in Msgs : s.ref[x] \in Nat /\ Held(s, x) \in Nat /\ s.ref[x] >= Held(s, x)
  BY <1>1, HeldNat DEF Good, Counted
<1>6. \A x \in Msgs : u.ref[x] >= Held(s, x)
  BY <1>3, <1>5
<1>7. Good(u, t, n)
  BY <1>2, <1>6, GoodRef
<1> QED BY <1>2, <1>3, <1>4, <1>5, <1>7 DEF Spare

(* A reference held by nobody else may be released.                        *)
LEMMA GoodReleaseMsg ==
  ASSUME NEW s, NEW t, NEW n, Good(s, t, n), NEW m \in Msgs, Spare(s, m) >= 1,
         NEW u, u = ReleaseMsg(s, m)
  PROVE  /\ Good(u, t, n) /\ RefOnly(u, s) /\ Spare(u, m) = Spare(s, m) - 1
         /\ \A x \in Msgs : x # m => Spare(u, x) = Spare(s, x)
<1>1. s \in Server
  BY DEF Good
<1>2. s.ref[m] >= 1
  BY SpareInt
<1>3. RefOnly(u, s) /\ u.ref = [s.ref EXCEPT ![m] = @ - 1]
  BY <1>1, <1>2, ReleaseMsgFacts
<1>4. \A x \in Msgs : u.ref[x] = IF x = m THEN s.ref[x] - 1 ELSE s.ref[x]
  BY <1>1, <1>3, ServerType
<1>5. \A x \in Msgs : Held(u, x) = Held(s, x)
  BY <1>1, <1>3, RefOnlyHeld
<1>6. \A x \in Msgs : s.ref[x] \in Nat /\ Held(s, x) \in Nat /\ s.ref[x] >= Held(s, x)
  BY <1>1, HeldNat DEF Good, Counted
<1>7. \A x \in Msgs : u.ref[x] >= Held(s, x)
  BY <1>4, <1>6 DEF Spare
<1>8. Good(u, t, n)
  BY <1>3, <1>7, GoodRef
<1> QED BY <1>3, <1>4, <1>5, <1>6, <1>8 DEF Spare

(* A message that a thread holds is put into the queue of a viewer.        *)
LEMMA GoodCuSend ==
  ASSUME NEW s, NEW t, NEW n, Good(s, t, n), NEW c \in Viewers, NEW m \in Msgs,
         m # VideoCmd, t # <<"send", c>>, Spare(s, m) >= 1,
         NEW u, u = cu_send_msg(s, c, m)
  PROVE  /\ Good(u, t, n) /\ CuSent(u, s, c, m)
         /\ Spare(u, m) \in {Spare(s, m), Spare(s, m) - 1}
<1>1. s \in Server /\ Batches(s, t) /\ Counted(s) /\ FrontEnd(s) /\ Viewer(s, c)
  BY DEF Good
<1>2. CuSent(u, s, c, m)
  BY <1>1, CuSendFacts
<1>3. CASE u = s
  BY <1>2, <1>3
<1>4. CASE u # s
  <2>1. /\ u \in Server /\ u.pc = s.pc /\ u.pu = s.pu /\ u.crashed = s.crashed
        /\ s.cu[c].valid /\ Woken(u, s, <<"send", c>>)
        /\ u.ref = [s.ref EXCEPT ![m] = @ + 1]
        /\ u.cu = [s.cu EXCEPT ![c].queue = Append(@, m)]
    BY <1>2, <1>4 DEF CuSent
  <2>2. s.cu \in [Viewers -> CuRec] /\ s.cu[c] \in CuRec /\ u.cu \in [Viewers -> CuRec]
    <3>1. s.cu \in [Viewers -> CuRec]
      BY <1>1, ServerType
    <3>2. u.cu \in [Viewers -> CuRec]
      BY <2>1, ServerType
    <3> QED BY <3>1, <3>2
  <2>3. PICK r : r = u.cu[c]
    OBVIOUS
  <2>4. /\ r \in CuRec /\ u.cu = [s.cu EXCEPT ![c] = r]
        /\ \A d \in Viewers : d # c => u.cu[d] = s.cu[d]
    BY <2>1, <2>2, <2>3
  <2>5. r = [s.cu[c] EXCEPT !.queue = Append(@, m)]
    BY <2>1, <2>2, <2>3
  <2>6. /\ r.alive = s.cu[c].alive /\ r.ref = s.cu[c].ref /\ r.pu = s.cu[c].pu
        /\ r.found = s.cu[c].found /\ r.batch = s.cu[c].batch
        /\ r.queue = Append(s.cu[c].queue, m)
    BY <2>2, <2>5 DEF CuRec
  <2>7. s.cu[c].alive
    BY <1>1, <2>1 DEF Viewer, NoCu
  <2>8. Wakes(u, s, t)
    <3>1. <<"send", c>> \in Threads \ {t} /\ <<"send", c>> # Send
      BY ViewerNames
    <3> QED BY <2>1, <3>1 DEF Wakes, Woken
  <2>9. Quiet(u, s, t)
    <3>1. \A d \in Viewers : CuLike(u.cu[d], s.cu[d])
      BY <2>3, <2>4, <2>6, <2>7 DEF CuLike
    <3>2. PuLike(u.pu, s.pu)
      BY <1>1, <2>1 DEF PuLike, FrontEnd
    <3> QED BY <2>1, <2>8, <3>1, <3>2 DEF Quiet
  <2>10. Batches(u, t)
    <3>1. \A d \in Viewers : u.cu[d].batch = s.cu[d].batch
      BY <2>3, <2>4, <2>6
    <3> QED BY <1>1, <2>1, <3>1 DEF Batches
  <2>11. ASSUME NEW x \in Msgs
         PROVE  Held(u, x) = Held(s, x) + 2 * Bit(x = m) /\ CuHeld(u, x) = CuHeld(s, x) + 2 * Bit(x = m)
    <3>1. s.cu[c].queue \in Seq(Msgs) /\ s.cu[c].batch \in Seq(Msgs)
      BY <2>2, CuType
    <3>2. Copies(r.queue, x) = Copies(s.cu[c].queue, x) + Bit(x = m)
      BY <2>6, <3>1, CopiesAppend
    <3>3. Copies(s.cu[c].queue, x) \in Nat /\ Copies(s.cu[c].batch, x) \in Nat
      BY <3>1, CopiesFacts
    <3>4. Bit(x = m) \in Nat
      BY DEF Bit
    <3>5. Queued(r, x) = Queued(s.cu[c], x) + 2 * Bit(x = m)
      BY <2>6, <3>2, <3>3, <3>4 DEF Queued
    <3>6. /\ CuHeld(u, x) = CuHeld(s, x) - Queued(s.cu[c], x) + Queued(r, x)
          /\ CuHeld(s, x) \in Nat /\ Queued(s.cu[c], x) \in Nat
      BY <1>1, <2>1, <2>4, CuHeldOne
    <3>7. CuHeld(u, x) = CuHeld(s, x) + 2 * Bit(x = m)
      BY <3>4, <3>5, <3>6
    <3>8. PuHeld(s.pu, x) \in Nat /\ OpenHeld(s.pc, x) \in Nat
      BY <1>1, HeldNat
    <3> QED BY <2>1, <3>4, <3>6, <3>7, <3>8 DEF Held
  <2>12. \A x \in Msgs : u.ref[x] = s.ref[x] + Bit(x = m)
    <3>1. s.ref \in [Msgs -> Nat]
      BY <1>1, ServerType
    <3> QED BY <2>1, <3>1 DEF Bit
  <2>13. \A x \in Msgs : Held(s, x) \in Nat /\ s.ref[x] \in Nat /\ s.ref[x] >= Held(s, x)
    BY <1>1, HeldNat DEF Counted
  <2>14. s.ref[m] >= Held(s, m) + 1
    BY <2>13 DEF Spare
  <2>15. ASSUME NEW x \in Msgs PROVE u.ref[x] >= Held(u, x)
    <3>1. CASE x = m
      <4>1. Bit(x = m) = 1
        BY <3>1 DEF Bit
      <4> QED BY <2>11, <2>12, <2>13, <2>14, <3>1, <4>1
    <3>2. CASE x # m
      <4>1. Bit(x = m) = 0
        BY <3>2 DEF Bit
      <4> QED BY <2>11, <2>12, <2>13, <4>1
    <3> QED BY <3>1, <3>2
  <2>16. CuHeld(u, VideoCmd) = 0
    <3>1. VideoCmd \in Msgs /\ Bit(VideoCmd = m) = 0
      BY Names DEF Bit
    <3> QED BY <1>1, <2>11, <3>1 DEF Counted
  <2>17. Good(u, t, n)
    BY <2>9, <2>10, <2>15, <2>16, QuietKeeps DEF Counted
  <2>18. Spare(u, m) = Spare(s, m) - 1
    <3>1. Bit(m = m) = 1
      BY DEF Bit
    <3>2. Held(u, m) = Held(s, m) + 2 /\ u.ref[m] = s.ref[m] + 1
      BY <2>11, <2>12, <3>1
    <3> QED BY <2>13, <3>2 DEF Spare
  <2> QED BY <1>2, <2>17, <2>18
<1> QED BY <1>3, <1>4

(* A message that a thread holds is put into the queue of the front end.   *)
LEMMA GoodPuSend ==
  ASSUME NEW s, NEW t, NEW n, Good(s, t, n), NEW m \in Msgs, t # Send,
         s.pu.cmd, s.pc[Heart] # "start", s.pc[Open] # "start", Spare(s, m) >= 1,
         NEW u, u = pu_send_msg(s, m)
  PROVE  Good(u, t, n) /\ PuSent(u, s, m)
<1>1. s \in Server /\ Batches(s, t) /\ Counted(s) /\ FrontEnd(s)
  BY DEF Good
<1>2. PuSent(u, s, m)
  BY <1>1, PuSendFacts
<1>3. CASE u = s
  BY <1>2, <1>3
<1>4. CASE u # s
  <2>1. /\ u \in Server /\ u.pc = s.pc /\ u.cu = s.cu /\ u.crashed = s.crashed
        /\ s.pu.valid /\ Woken(u, s, Send)
        /\ u.ref = [s.ref EXCEPT ![m] = @ + 1]
        /\ u.pu = [s.pu EXCEPT !.queue = Append(@, m)]
    BY <1>2, <1>4 DEF PuSent
  <2>2. s.pu \in PuRec
    BY <1>1, ServerType
  <2>3. /\ u.pu.alive = s.pu.alive /\ u.pu.id = s.pu.id /\ u.pu.ref = s.pu.ref
        /\ u.pu.cmd = s.pu.cmd /\ u.pu.vec = s.pu.vec /\ u.pu.valid = s.pu.valid
        /\ u.pu.batch = s.pu.batch /\ u.pu.queue = Append(s.pu.queue, m)
    BY <2>1, <2>2 DEF PuRec
  <2>4. s.pu.alive
    BY <1>1, <2>1 DEF FrontEnd, NoPu
  <2>5. Wakes(u, s, t)
    <3>1. Send \in Threads \ {t}
      BY Names
    <3> QED BY <2>1, <3>1 DEF Wakes, Woken
  <2>6. Quiet(u, s, t)
    <3>1. \A d \in Viewers : CuLike(u.cu[d], s.cu[d])
      BY <2>1 DEF CuLike
    <3>2. PuLike(u.pu, s.pu)
      BY <2>3, <2>4 DEF PuLike
    <3> QED BY <2>1, <2>5, <3>1, <3>2 DEF Quiet
  <2>7. Batches(u, t)
    BY <1>1, <2>1, <2>3 DEF Batches
  <2>8. ASSUME NEW x \in Msgs PROVE Held(u, x) = Held(s, x) + 2 * Bit(x = m)
    <3>1. s.pu.queue \in Seq(Msgs) /\ s.pu.batch \in Seq(Msgs) /\ Len(s.pu.vec) \in Nat
      BY <2>2, PuType, LenProperties
    <3>2. Copies(u.pu.queue, x) = Copies(s.pu.queue, x) + Bit(x = m)
      BY <2>3, <3>1, CopiesAppend
    <3>3. Copies(s.pu.queue, x) \in Nat /\ Copies(s.pu.batch, x) \in Nat
      BY <3>1, CopiesFacts
    <3>4. Bit(x = m) \in Nat
      BY DEF Bit
    <3>5. Queued(u.pu, x) = Queued(s.pu, x) + 2 * Bit(x = m) /\ Queued(s.pu, x) \in Nat
      BY <2>3, <3>2, <3>3, <3>4 DEF Queued
    <3>6. PuHeld(u.pu, x) = PuHeld(s.pu, x) + 2 * Bit(x = m)
      BY <2>3, <3>1, <3>4, <3>5 DEF PuHeld
    <3>7. CuHeld(u, x) = CuHeld(s, x)
      BY <2>1 DEF CuHeld
    <3>8. PuHeld(s.pu, x) \in Nat /\ CuHeld(s, x) \in Nat /\ OpenHeld(s.pc, x) \in Nat
      BY <1>1, HeldNat
    <3> QED BY <2>1, <3>4, <3>6, <3>7, <3>8 DEF Held
  <2>9. \A x \in Msgs : u.ref[x] = s.ref[x] + Bit(x = m)
    <3>1. s.ref \in [Msgs -> Nat]
      BY <1>1, ServerType
    <3> QED BY <2>1, <3>1 DEF Bit
  <2>10. \A x \in Msgs : Held(s, x) \in Nat /\ s.ref[x] \in Nat /\ s.ref[x] >= Held(s, x)
    BY <1>1, HeldNat DEF Counted
  <2>11. s.ref[m] >= Held(s, m) + 1
    BY <2>10 DEF Spare
  <2>12. ASSUME NEW x \in Msgs PROVE u.ref[x] >= Held(u, x)
    <3>1. CASE x = m
      <4>1. Bit(x = m) = 1
        BY <3>1 DEF Bit
      <4> QED BY <2>8, <2>9, <2>10, <2>11, <3>1, <4>1
    <3>2. CASE x # m
      <4>1. Bit(x = m) = 0
        BY <3>2 DEF Bit
      <4> QED BY <2>8, <2>9, <2>10, <4>1
    <3> QED BY <3>1, <3>2
  <2>13. CuHeld(u, VideoCmd) = 0
    BY <1>1, <2>1 DEF Counted, CuHeld
  <2> QED BY <1>2, <2>6, <2>7, <2>12, <2>13, QuietKeeps DEF Counted
<1> QED BY <1>3, <1>4

-----------------------------------------------------------------------------
(* A sending thread moves, writes and drops what is queued.                *)

LEMMA PuHeldQueues ==
  ASSUME NEW p \in PuRec, NEW q \in PuRec, q.cmd = p.cmd, q.vec = p.vec, NEW m \in Msgs
  PROVE  /\ PuHeld(q, m) = PuHeld(p, m) - Queued(p, m) + Queued(q, m)
         /\ PuHeld(p, m) \in Nat /\ Queued(p, m) \in Nat /\ Queued(q, m) \in Nat
         /\ PuHeld(p, m) >= Queued(p, m)
<1>1. Queued(p, m) \in Nat /\ Queued(q, m) \in Nat /\ Len(p.vec) \in Nat
  BY PuType, QueuedNat, LenProperties
<1> QED BY <1>1 DEF PuHeld

(* The sending thread of the front end may change its queue and its batch, *)
(* as long as the counts of references follow.                             *)
LEMMA GoodPuQueues ==
  ASSUME NEW s, NEW n, Good(s, Send, n), NEW u \in Server,
         u.pc = s.pc, u.cu = s.cu, u.crashed = s.crashed, u.runq = s.runq,
         PuLike(u.pu, s.pu),
         \A m \in Msgs : u.ref[m] >= Held(s, m) - Queued(s.pu, m) + Queued(u.pu, m)
  PROVE  Good(u, Send, n)
<1>1. s \in Server /\ Batches(s, Send) /\ Counted(s)
  BY DEF Good
<1>2. Quiet(u, s, Send)
  BY DEF Quiet, CuLike, Wakes
<1>3. Batches(u, Send)
  BY <1>1 DEF Batches
<1>4. ASSUME NEW m \in Msgs PROVE u.ref[m] >= Held(u, m)
  <2>1. u.pu \in PuRec /\ s.pu \in PuRec /\ u.pu.cmd = s.pu.cmd /\ u.pu.vec = s.pu.vec
    BY <1>1, ServerType DEF PuLike
  <2>2. /\ PuHeld(u.pu, m) = PuHeld(s.pu, m) - Queued(s.pu, m) + Queued(u.pu, m)
        /\ PuHeld(s.pu, m) \in Nat /\ Queued(s.pu, m) \in Nat /\ Queued(u.pu, m) \in Nat
    BY <2>1, PuHeldQueues
  <2>3. CuHeld(u, m) = CuHeld(s, m)
    BY DEF CuHeld
  <2>4. CuHeld(s, m) \in Nat /\ OpenHeld(s.pc, m) \in Nat
    BY <1>1, HeldNat
  <2>5. Held(u, m) = Held(s, m) - Queued(s.pu, m) + Queued(u.pu, m)
    BY <2>2, <2>3, <2>4 DEF Held
  <2> QED BY <2>5
<1>5. CuHeld(u, VideoCmd) = 0
  BY <1>1 DEF Counted, CuHeld
<1> QED BY <1>2, <1>3, <1>4, <1>5, QuietKeeps DEF Counted

(* The sending thread of a viewer may change its queue and its batch, as   *)
(* long as the counts of references follow.                                *)
LEMMA GoodCuQueues ==
  ASSUME NEW s, NEW n, NEW c \in Viewers, Good(s, <<"send", c>>, n), NEW u \in Server,
         NEW r \in CuRec, u.cu = [s.cu EXCEPT ![c] = r],
         u.pc = s.pc, u.pu = s.pu, u.crashed = s.crashed, u.runq = s.runq,
         CuLike(r, s.cu[c]),
         \A m \in Msgs : /\ u.ref[m] >= Held(s, m) - Queued(s.cu[c], m) + Queued(r, m)
                         /\ Queued(r, m) <= Queued(s.cu[c], m)
  PROVE  Good(u, <<"send", c>>, n)
<1> DEFINE t == <<"send", c>>
<1>1. s \in Server /\ Batches(s, t) /\ Counted(s) /\ FrontEnd(s)
  BY DEF Good
<1>2. s.cu \in [Viewers -> CuRec]
  BY <1>1, ServerType
<1>3. u.cu[c] = r /\ \A d \in Viewers : d # c => u.cu[d] = s.cu[d]
  BY <1>2
<1>4. \A d \in Viewers : CuLike(u.cu[d], s.cu[d])
  BY <1>3 DEF CuLike
<1>5. Quiet(u, s, t)
  <2>1. PuLike(u.pu, s.pu)
    BY <1>1 DEF PuLike, FrontEnd
  <2> QED BY <1>4, <2>1 DEF Quiet, Wakes
<1>6. Batches(u, t)
  <2>1. ASSUME NEW d \in Viewers, t # <<"send", d>> PROVE u.cu[d] = s.cu[d]
    BY <1>3, <2>1
  <2> QED BY <1>1, <2>1 DEF Batches
<1>7. ASSUME NEW m \in Msgs PROVE u.ref[m] >= Held(u, m) /\ CuHeld(u, m) <= CuHeld(s, m)
  <2>1. /\ CuHeld(u, m) = CuHeld(s, m) - Queued(s.cu[c], m) + Queued(r, m)
        /\ CuHeld(s, m) \in Nat /\ Queued(s.cu[c], m) \in Nat /\ Queued(r, m) \in Nat
    BY <1>1, CuHeldOne
  <2>2. PuHeld(s.pu, m) \in Nat /\ OpenHeld(s.pc, m) \in Nat
    BY <1>1, HeldNat
  <2>3. Held(u, m) = Held(s, m) - Queued(s.cu[c], m) + Queued(r, m)
    BY <2>1, <2>2 DEF Held
  <2>4. CuHeld(u, m) <= CuHeld(s, m)
    BY <2>1
  <2> QED BY <2>3, <2>4
<1>8. CuHeld(u, VideoCmd) = 0
  <2>1. VideoCmd \in Msgs
    BY Names
  <2>2. CuHeld(u, VideoCmd) \in Nat
    BY <2>1, HeldNat
  <2> QED BY <1>1, <1>7, <2>1, <2>2 DEF Counted
<1> QED BY <1>5, <1>6, <1>7, <1>8, QuietKeeps DEF Counted

(* What is left of the counts is enough.                                   *)
LEMMA RefCovers ==
  ASSUME NEW s \in Server, Counted(s), NEW m \in Msgs
  PROVE  /\ s.ref[m] >= Held(s, m) /\ Held(s, m) \in Nat /\ s.ref[m] \in Nat
         /\ Held(s, m) >= Queued(s.pu, m) /\ Queued(s.pu, m) \in Nat
         /\ \A c \in Viewers : Held(s, m) >= Queued(s.cu[c], m) /\ Queued(s.cu[c], m) \in Nat
<1>1. /\ PuHeld(s.pu, m) \in Nat /\ CuHeld(s, m) \in Nat /\ OpenHeld(s.pc, m) \in Nat
      /\ Held(s, m) = PuHeld(s.pu, m) + CuHeld(s, m) + OpenHeld(s.pc, m)
      /\ s.ref[m] \in Nat
  BY HeldNat
<1>2. PuHeld(s.pu, m) >= Queued(s.pu, m) /\ Queued(s.pu, m) \in Nat
  BY ServerType, PuHeldQueues
<1>3. ASSUME NEW c \in Viewers
      PROVE  CuHeld(s, m) >= Queued(s.cu[c], m) /\ Queued(s.cu[c], m) \in Nat
  <2>1. s.cu \in [Viewers -> CuRec] /\ s.cu[c] \in CuRec /\ s.cu = [s.cu EXCEPT ![c] = s.cu[c]]
    BY ServerType
  <2> QED BY <2>1, CuHeldOne
<1> QED BY <1>1, <1>2, <1>3 DEF Counted

(* u is s with other queues of the front end.                              *)
PuQueuesOnly(u, s) ==
  /\ u.pc = s.pc /\ u.cu = s.cu /\ u.crashed = s.crashed /\ u.runq = s.runq
  /\ u.pu.alive = s.pu.alive /\ u.pu.valid = s.pu.valid /\ u.pu.cmd = s.pu.cmd

(* backup_msg: the queue of the front end becomes the batch to be written. *)
LEMMA GoodPuBackup ==
  ASSUME NEW s, NEW n, Good(s, Send, n), s.pu.alive, s.pu.batch = <<>>,
         NEW u, u = pu_backup(s)
  PROVE  Good(u, Send, n) /\ PuQueuesOnly(u, s) /\ u.pu.queue = <<>>
<1>1. s \in Server /\ Counted(s) /\ FrontEnd(s) /\ s.pu \in PuRec
  BY ServerType DEF Good
<1>2. PICK q : q = s.pu.queue
  OBVIOUS
<1>3. q \in Seq(Msgs) /\ s.pu.batch \o q = q
  BY <1>1, <1>2, PuType, ConcatEmptySeq
<1>4. PICK r : r = [s EXCEPT !.pu.batch = q, !.pu.queue = <<>>]
  OBVIOUS
<1>5. u = ReleaseAll(r, q)
  BY <1>2, <1>3, <1>4 DEF pu_backup
<1>6. PICK p : p = [s.pu EXCEPT !.batch = q, !.queue = <<>>]
  OBVIOUS
<1>7. /\ p \in PuRec /\ p.batch = q /\ p.queue = <<>> /\ p.alive = s.pu.alive
      /\ p.id = s.pu.id /\ p.ref = s.pu.ref /\ p.cmd = s.pu.cmd /\ p.vec = s.pu.vec
      /\ p.valid = s.pu.valid
  BY <1>1, <1>3, <1>6 DEF PuRec
<1>8. /\ r \in Server /\ r.pu = p /\ r.pc = s.pc /\ r.cu = s.cu /\ r.crashed = s.crashed
      /\ r.runq = s.runq /\ r.ref = s.ref
  BY <1>1, <1>4, <1>6, <1>7 DEF Server
<1>9. ASSUME NEW m \in Msgs
      PROVE  /\ s.ref[m] >= Held(s, m) /\ Held(s, m) >= 2 * Copies(q, m)
             /\ Held(s, m) \in Nat /\ s.ref[m] \in Nat /\ Copies(q, m) \in Nat
             /\ Queued(s.pu, m) = 2 * Copies(q, m) /\ Queued(p, m) = Copies(q, m)
  <2>1. Copies(q, m) \in Nat
    BY <1>3, CopiesFacts
  <2>2. Copies(<<>>, m) = 0
    <3>1. <<>> \in Seq(Msgs)
      BY EmptySeq
    <3> QED BY <3>1, CopiesFacts
  <2>3. Queued(s.pu, m) = 2 * Copies(q, m) /\ Queued(p, m) = Copies(q, m)
    BY <1>2, <1>7, <2>1, <2>2 DEF Queued
  <2> QED BY <1>1, <2>1, <2>3, RefCovers
<1>10. \A m \in Msgs : r.ref[m] >= Copies(q, m)
  BY <1>8, <1>9
<1>11. RefOnly(u, r) /\ RefLess(u.ref, r.ref, q)
  BY <1>3, <1>5, <1>8, <1>10, ReleaseAllFacts
<1>12. /\ u \in Server /\ u.pc = s.pc /\ u.cu = s.cu /\ u.crashed = s.crashed
       /\ u.runq = s.runq /\ u.pu = p
  BY <1>8, <1>11 DEF RefOnly
<1>13. \A m \in Msgs : u.ref[m] = s.ref[m] - Copies(q, m)
  BY <1>8, <1>11 DEF RefLess
<1>14. \A m \in Msgs : u.ref[m] >= Held(s, m) - Queued(s.pu, m) + Queued(p, m)
  BY <1>9, <1>13
<1>15. PuLike(p, s.pu)
  BY <1>1, <1>2, <1>7 DEF PuLike, FrontEnd
<1>16. Good(u, Send, n)
  BY <1>12, <1>14, <1>15, GoodPuQueues
<1> QED BY <1>7, <1>12, <1>16 DEF PuQueuesOnly

(* A message of the batch for the front end has been written, and is       *)
(* released.                                                               *)
LEMMA GoodPuWritten ==
  ASSUME NEW s, NEW n, Good(s, Send, n), s.pu.alive, s.pu.batch # <<>>,
         NEW u, u = [ReleaseMsg(s, Head(s.pu.batch)) EXCEPT !.pu.batch = Tail(@)]
  PROVE  Good(u, Send, n) /\ PuQueuesOnly(u, s)
<1>1. s \in Server /\ Counted(s) /\ FrontEnd(s) /\ s.pu \in PuRec
  BY ServerType DEF Good
<1>2. PICK b, h, l : b = s.pu.batch /\ h = Head(b) /\ l = Tail(b)
  OBVIOUS
<1>3. b \in Seq(Msgs) /\ b # <<>> /\ h \in Msgs /\ l \in Seq(Msgs)
  BY <1>1, <1>2, PuType, TailFacts
<1>4. ASSUME NEW m \in Msgs
      PROVE  /\ s.ref[m] >= Held(s, m) /\ Held(s, m) >= Queued(s.pu, m)
             /\ Held(s, m) \in Nat /\ s.ref[m] \in Nat /\ Queued(s.pu, m) \in Nat
             /\ Queued(s.pu, m) >= Copies(b, m)
             /\ Copies(b, m) \in Nat /\ Copies(l, m) \in Nat
             /\ Copies(l, m) = Copies(b, m) - Bit(m = h)
  <2>1. Copies(b, m) \in Nat /\ Copies(l, m) \in Nat
    BY <1>3, CopiesFacts
  <2>2. Copies(l, m) = Copies(b, m) - Bit(m = h)
    BY <1>2, <1>3, CopiesTail
  <2>3. Queued(s.pu, m) >= Copies(b, m)
    BY <1>1, <1>2, PuType, QueuedNat
  <2> QED BY <1>1, <2>1, <2>2, <2>3, RefCovers
<1>5. s.ref[h] >= 1
  <2>1. Copies(l, h) = Copies(b, h) - 1
    BY <1>3, <1>4 DEF Bit
  <2>2. Copies(b, h) \in Nat /\ Copies(l, h) \in Nat
    BY <1>3, <1>4
  <2>3. Copies(b, h) >= 1
    BY <2>1, <2>2
  <2>4. /\ s.ref[h] >= Held(s, h) /\ Held(s, h) >= Queued(s.pu, h)
        /\ Queued(s.pu, h) >= Copies(b, h) /\ s.ref[h] \in Nat
        /\ Held(s, h) \in Nat /\ Queued(s.pu, h) \in Nat
    BY <1>3, <1>4
  <2> QED BY <2>2, <2>3, <2>4
<1>6. PICK r : r = ReleaseMsg(s, h)
  OBVIOUS
<1>7. RefOnly(r, s) /\ r.ref = [s.ref EXCEPT ![h] = @ - 1]
  BY <1>1, <1>3, <1>5, <1>6, ReleaseMsgFacts
<1>8. \A m \in Msgs : r.ref[m] = s.ref[m] - Bit(m = h)
  <2>1. s.ref \in [Msgs -> Nat]
    BY <1>1, ServerType
  <2> QED BY <1>3, <1>7, <2>1 DEF Bit
<1>9. u = [r EXCEPT !.pu.batch = l]
  <2>1. r.pu = s.pu
    BY <1>7 DEF RefOnly
  <2>2. u = [r EXCEPT !.pu.batch = Tail(@)]
    BY <1>2, <1>6
  <2>3. r \in Server
    BY <1>7 DEF RefOnly
  <2> QED BY <1>2, <2>1, <2>2, <2>3
<1>10. PICK p : p = [s.pu EXCEPT !.batch = l]
  OBVIOUS
<1>11. /\ p \in PuRec /\ p.batch = l /\ p.queue = s.pu.queue /\ p.alive = s.pu.alive
       /\ p.id = s.pu.id /\ p.ref = s.pu.ref /\ p.cmd = s.pu.cmd /\ p.vec = s.pu.vec
       /\ p.valid = s.pu.valid
  BY <1>1, <1>3, <1>10 DEF PuRec
<1>12. /\ u \in Server /\ u.pu = p /\ u.pc = s.pc /\ u.cu = s.cu /\ u.crashed = s.crashed
       /\ u.runq = s.runq /\ u.ref = r.ref
  <2>1. /\ r \in Server /\ r.pu = s.pu /\ r.pc = s.pc /\ r.cu = s.cu
        /\ r.crashed = s.crashed /\ r.runq = s.runq
    BY <1>7 DEF RefOnly
  <2>2. u = [r EXCEPT !.pu = p]
    BY <1>9, <1>10, <2>1
  <2>3. PuSet(u, r, p)
    BY <1>11, <2>1, <2>2, SetPu
  <2> QED BY <2>1, <2>3 DEF PuSet
<1>13. ASSUME NEW m \in Msgs
       PROVE  u.ref[m] >= Held(s, m) - Queued(s.pu, m) + Queued(p, m)
  <2>1. Queued(p, m) = Queued(s.pu, m) - Bit(m = h)
    <3>1. Copies(s.pu.queue, m) \in Nat
      BY <1>1, PuType, CopiesFacts
    <3>2. Bit(m = h) \in Nat
      BY DEF Bit
    <3> QED BY <1>2, <1>4, <1>11, <3>1, <3>2 DEF Queued
  <2>2. Bit(m = h) \in Nat
    BY DEF Bit
  <2>3. u.ref[m] = s.ref[m] - Bit(m = h)
    BY <1>8, <1>12
  <2> QED BY <1>4, <2>1, <2>2, <2>3
<1>14. PuLike(p, s.pu)
  BY <1>1, <1>2, <1>3, <1>11 DEF PuLike, FrontEnd
<1>15. Good(u, Send, n)
  BY <1>12, <1>13, <1>14, GoodPuQueues
<1> QED BY <1>11, <1>12, <1>15 DEF PuQueuesOnly

(* The batch for the front end is dropped, when its connection has failed. *)
LEMMA GoodPuDropped ==
  ASSUME NEW s, NEW n, Good(s, Send, n), s.pu.alive,
         NEW u, u = [ReleaseAll(s, s.pu.batch) EXCEPT !.pu.batch = <<>>]
  PROVE  Good(u, Send, n) /\ PuQueuesOnly(u, s) /\ u.pu.batch = <<>>
<1>1. s \in Server /\ Counted(s) /\ FrontEnd(s) /\ s.pu \in PuRec
  BY ServerType DEF Good
<1>2. PICK b, e : b = s.pu.batch /\ e = <<>>
  OBVIOUS
<1>3. b \in Seq(Msgs) /\ e \in Seq(Msgs)
  BY <1>1, <1>2, PuType, EmptySeq
<1>4. ASSUME NEW m \in Msgs
      PROVE  /\ s.ref[m] >= Held(s, m) /\ Held(s, m) >= Queued(s.pu, m)
             /\ Held(s, m) \in Nat /\ s.ref[m] \in Nat /\ Queued(s.pu, m) \in Nat
             /\ Queued(s.pu, m) >= Copies(b, m) /\ Copies(b, m) \in Nat /\ Copies(e, m) = 0
  <2>1. Copies(b, m) \in Nat /\ Copies(e, m) = 0
    BY <1>2, <1>3, CopiesFacts
  <2>2. Queued(s.pu, m) >= Copies(b, m)
    BY <1>1, <1>2, PuType, QueuedNat
  <2> QED BY <1>1, <2>1, <2>2, RefCovers
<1>5. PICK r : r = ReleaseAll(s, b)
  OBVIOUS
<1>6. \A m \in Msgs : s.ref[m] >= Copies(b, m)
  BY <1>4
<1>7. RefOnly(r, s) /\ RefLess(r.ref, s.ref, b)
  BY <1>1, <1>3, <1>5, <1>6, ReleaseAllFacts
<1>8. PICK p : p = [s.pu EXCEPT !.batch = e]
  OBVIOUS
<1>9. /\ p \in PuRec /\ p.batch = e /\ p.queue = s.pu.queue /\ p.alive = s.pu.alive
      /\ p.id = s.pu.id /\ p.ref = s.pu.ref /\ p.cmd = s.pu.cmd /\ p.vec = s.pu.vec
      /\ p.valid = s.pu.valid
  BY <1>1, <1>3, <1>8 DEF PuRec
<1>10. /\ u \in Server /\ u.pu = p /\ u.pc = s.pc /\ u.cu = s.cu /\ u.crashed = s.crashed
       /\ u.runq = s.runq /\ u.ref = r.ref
  <2>1. /\ r \in Server /\ r.pu = s.pu /\ r.pc = s.pc /\ r.cu = s.cu
        /\ r.crashed = s.crashed /\ r.runq = s.runq
    BY <1>7 DEF RefOnly
  <2>2. u = [r EXCEPT !.pu.batch = e]
    BY <1>2, <1>5
  <2>3. u = [r EXCEPT !.pu = p]
    BY <1>8, <2>1, <2>2
  <2>4. PuSet(u, r, p)
    BY <1>9, <2>1, <2>3, SetPu
  <2> QED BY <2>1, <2>4 DEF PuSet
<1>11. ASSUME NEW m \in Msgs
       PROVE  u.ref[m] >= Held(s, m) - Queued(s.pu, m) + Queued(p, m)
  <2>1. Queued(p, m) = Queued(s.pu, m) - Copies(b, m)
    <3>1. Copies(s.pu.queue, m) \in Nat
      BY <1>1, PuType, CopiesFacts
    <3> QED BY <1>2, <1>4, <1>9, <3>1 DEF Queued
  <2>2. u.ref[m] = s.ref[m] - Copies(b, m)
    BY <1>7, <1>10 DEF RefLess
  <2> QED BY <1>4, <2>1, <2>2
<1>12. PuLike(p, s.pu)
  BY <1>1, <1>2, <1>9 DEF PuLike, FrontEnd
<1>13. Good(u, Send, n)
  BY <1>10, <1>11, <1>12, GoodPuQueues
<1> QED BY <1>2, <1>9, <1>10, <1>13 DEF PuQueuesOnly

(* u is s with other queues of one viewer.                                 *)
CuQueuesOnly(u, s, c) ==
  /\ u.pc = s.pc /\ u.pu = s.pu /\ u.crashed = s.crashed /\ u.runq = s.runq
  /\ u.cu[c].alive = s.cu[c].alive /\ u.cu[c].valid = s.cu[c].valid

(* backup_msg: the queue of a viewer becomes the batch to be written.      *)
LEMMA GoodCuBackup ==
  ASSUME NEW s, NEW n, NEW c \in Viewers, Good(s, <<"send", c>>, n), s.cu[c].alive,
         s.cu[c].batch = <<>>, NEW u, u = cu_backup(s, c)
  PROVE  Good(u, <<"send", c>>, n) /\ CuQueuesOnly(u, s, c) /\ u.cu[c].queue = <<>>
<1>1. s \in Server /\ Counted(s) /\ s.cu \in [Viewers -> CuRec] /\ s.cu[c] \in CuRec
  BY ServerType DEF Good
<1>2. PICK q, e : q = s.cu[c].queue /\ e = <<>>
  OBVIOUS
<1>3. q \in Seq(Msgs) /\ s.cu[c].batch \o q = q /\ e \in Seq(Msgs)
  BY <1>1, <1>2, CuType, ConcatEmptySeq, EmptySeq
<1>4. PICK p : p = [s.cu[c] EXCEPT !.batch = q, !.queue = e]
  OBVIOUS
<1>5. /\ p \in CuRec /\ p.batch = q /\ p.queue = e /\ p.alive = s.cu[c].alive
      /\ p.ref = s.cu[c].ref /\ p.pu = s.cu[c].pu /\ p.found = s.cu[c].found
      /\ p.valid = s.cu[c].valid
  BY <1>1, <1>3, <1>4 DEF CuRec
<1>6. PICK r : r = [s EXCEPT !.cu[c] = p]
  OBVIOUS
<1>7. CuSet(r, s, c, p)
  BY <1>1, <1>5, <1>6, SetCu
<1>8. u = ReleaseAll(r, q)
  <2>1. [s EXCEPT !.cu[c].batch = @ \o s.cu[c].queue, !.cu[c].queue = <<>>] = r
    BY <1>1, <1>2, <1>3, <1>4, <1>6
  <2> QED BY <1>2, <2>1 DEF cu_backup
<1>9. ASSUME NEW m \in Msgs
      PROVE  /\ s.ref[m] >= Held(s, m) /\ Held(s, m) >= 2 * Copies(q, m)
             /\ Held(s, m) \in Nat /\ s.ref[m] \in Nat /\ Copies(q, m) \in Nat
             /\ Queued(s.cu[c], m) = 2 * Copies(q, m) /\ Queued(p, m) = Copies(q, m)
  <2>1. Copies(q, m) \in Nat /\ Copies(e, m) = 0
    BY <1>2, <1>3, CopiesFacts
  <2>2. Queued(s.cu[c], m) = 2 * Copies(q, m) /\ Queued(p, m) = Copies(q, m)
    BY <1>2, <1>5, <2>1 DEF Queued
  <2> QED BY <1>1, <2>1, <2>2, RefCovers
<1>10. \A m \in Msgs : r.ref[m] >= Copies(q, m)
  BY <1>7, <1>9 DEF CuSet
<1>11. RefOnly(u, r) /\ RefLess(u.ref, r.ref, q)
  <2>1. r \in Server
    BY <1>7 DEF CuSet
  <2> QED BY <1>3, <1>8, <1>10, <2>1, ReleaseAllFacts
<1>12. /\ u \in Server /\ u.pc = s.pc /\ u.pu = s.pu /\ u.crashed = s.crashed
       /\ u.runq = s.runq /\ u.cu = [s.cu EXCEPT ![c] = p] /\ u.cu[c] = p
  BY <1>7, <1>11 DEF RefOnly, CuSet
<1>13. \A m \in Msgs : u.ref[m] = s.ref[m] - Copies(q, m)
  BY <1>7, <1>11 DEF RefLess, CuSet
<1>14. ASSUME NEW m \in Msgs
       PROVE  /\ u.ref[m] >= Held(s, m) - Queued(s.cu[c], m) + Queued(p, m)
              /\ Queued(p, m) <= Queued(s.cu[c], m)
  <2>1. PICK k : k = Copies(q, m)
    OBVIOUS
  <2>2. k \in Nat /\ Queued(s.cu[c], m) = 2 * k /\ Queued(p, m) = k /\ Held(s, m) \in Nat
    BY <1>9, <2>1
  <2>3. u.ref[m] = s.ref[m] - k /\ s.ref[m] \in Nat /\ s.ref[m] >= Held(s, m)
    BY <1>9, <1>13, <2>1
  <2> QED BY <2>2, <2>3
<1>15. CuLike(p, s.cu[c])
  BY <1>5 DEF CuLike
<1>16. Good(u, <<"send", c>>, n)
  BY <1>5, <1>12, <1>14, <1>15, GoodCuQueues
<1> QED BY <1>2, <1>5, <1>12, <1>16 DEF CuQueuesOnly

(* The first message of the batch has been written.                        *)
CuWritten(s, c) == [ReleaseMsg(s, Head(s.cu[c].batch)) EXCEPT !.cu[c].batch = Tail(@)]

(* A message of the batch for a viewer has been written, and is released.  *)
LEMMA GoodCuWritten ==
  ASSUME NEW s, NEW n, NEW c \in Viewers, Good(s, <<"send", c>>, n), s.cu[c].alive,
         s.cu[c].batch # <<>>,
         NEW u, u = CuWritten(s, c)
  PROVE  Good(u, <<"send", c>>, n) /\ CuQueuesOnly(u, s, c)
<1>1. s \in Server /\ Counted(s) /\ s.cu \in [Viewers -> CuRec] /\ s.cu[c] \in CuRec
  BY ServerType DEF Good
<1>2. PICK b, h, l : b = s.cu[c].batch /\ h = Head(b) /\ l = Tail(b)
  OBVIOUS
<1>3. b \in Seq(Msgs) /\ b # <<>> /\ h \in Msgs /\ l \in Seq(Msgs)
  BY <1>1, <1>2, CuType, TailFacts
<1>4. ASSUME NEW m \in Msgs
      PROVE  /\ s.ref[m] >= Held(s, m) /\ Held(s, m) >= Queued(s.cu[c], m)
             /\ Held(s, m) \in Nat /\ s.ref[m] \in Nat /\ Queued(s.cu[c], m) \in Nat
             /\ Queued(s.cu[c], m) >= Copies(b, m)
             /\ Copies(b, m) \in Nat /\ Copies(l, m) \in Nat
             /\ Copies(l, m) = Copies(b, m) - Bit(m = h)
  <2>1. Copies(b, m) \in Nat /\ Copies(l, m) \in Nat
    BY <1>3, CopiesFacts
  <2>2. Copies(l, m) = Copies(b, m) - Bit(m = h)
    BY <1>2, <1>3, CopiesTail
  <2>3. Queued(s.cu[c], m) >= Copies(b, m)
    BY <1>1, <1>2, CuType, QueuedNat
  <2> QED BY <1>1, <2>1, <2>2, <2>3, RefCovers
<1>5. s.ref[h] >= 1
  <2>1. Copies(l, h) = Copies(b, h) - 1
    BY <1>3, <1>4 DEF Bit
  <2>2. Copies(b, h) \in Nat /\ Copies(l, h) \in Nat
    BY <1>3, <1>4
  <2>3. Copies(b, h) >= 1
    BY <2>1, <2>2
  <2>4. /\ s.ref[h] >= Held(s, h) /\ Held(s, h) >= Queued(s.cu[c], h)
        /\ Queued(s.cu[c], h) >= Copies(b, h) /\ s.ref[h] \in Nat
        /\ Held(s, h) \in Nat /\ Queued(s.cu[c], h) \in Nat
    BY <1>3, <1>4
  <2> QED BY <2>2, <2>3, <2>4
<1>6. PICK r : r = ReleaseMsg(s, h)
  OBVIOUS
<1>7. RefOnly(r, s) /\ r.ref = [s.ref EXCEPT ![h] = @ - 1]
  BY <1>1, <1>3, <1>5, <1>6, ReleaseMsgFacts
<1>8. \A m \in Msgs : r.ref[m] = s.ref[m] - Bit(m = h)
  <2>1. s.ref \in [Msgs -> Nat]
    BY <1>1, ServerType
  <2> QED BY <1>3, <1>7, <2>1 DEF Bit
<1>9. PICK p : p = [s.cu[c] EXCEPT !.batch = l]
  OBVIOUS
<1>10. /\ p \in CuRec /\ p.batch = l /\ p.queue = s.cu[c].queue /\ p.alive = s.cu[c].alive
       /\ p.ref = s.cu[c].ref /\ p.pu = s.cu[c].pu /\ p.found = s.cu[c].found
       /\ p.valid = s.cu[c].valid
  BY <1>1, <1>3, <1>9 DEF CuRec
<1>11. /\ u \in Server /\ u.pc = s.pc /\ u.pu = s.pu /\ u.crashed = s.crashed
       /\ u.runq = s.runq /\ u.cu = [s.cu EXCEPT ![c] = p] /\ u.cu[c] = p /\ u.ref = r.ref
  <2>1. /\ r \in Server /\ r.pu = s.pu /\ r.pc = s.pc /\ r.cu = s.cu
        /\ r.crashed = s.crashed /\ r.runq = s.runq
    BY <1>7 DEF RefOnly
  <2>2. u = [r EXCEPT !.cu[c] = p]
    <3>1. u = [r EXCEPT !.cu[c].batch = Tail(@)]
      BY <1>2, <1>6 DEF CuWritten
    <3> QED BY <1>1, <1>2, <1>9, <2>1, <3>1
  <2>3. CuSet(u, r, c, p)
    BY <1>10, <2>1, <2>2, SetCu
  <2> QED BY <2>1, <2>3 DEF CuSet
<1>12. ASSUME NEW m \in Msgs
       PROVE  /\ u.ref[m] >= Held(s, m) - Queued(s.cu[c], m) + Queued(p, m)
              /\ Queued(p, m) <= Queued(s.cu[c], m)
  <2>1. PICK k : k = Bit(m = h)
    OBVIOUS
  <2>2. k \in Nat
    BY <2>1 DEF Bit
  <2>3. Queued(p, m) = Queued(s.cu[c], m) - k
    <3>1. PICK x : x = Copies(s.cu[c].queue, m)
      OBVIOUS
    <3>2. x \in Nat
      BY <1>1, <3>1, CuType, CopiesFacts
    <3>3. Queued(p, m) = 2 * x + Copies(l, m) /\ Queued(s.cu[c], m) = 2 * x + Copies(b, m)
      BY <1>2, <1>10, <3>1 DEF Queued
    <3>4. Copies(b, m) \in Nat /\ Copies(l, m) = Copies(b, m) - k
      BY <1>4, <2>1
    <3> QED BY <2>2, <3>2, <3>3, <3>4
  <2>4. u.ref[m] = s.ref[m] - k
    BY <1>8, <1>11, <2>1
  <2>5. /\ s.ref[m] >= Held(s, m) /\ Held(s, m) \in Nat /\ s.ref[m] \in Nat
        /\ Queued(s.cu[c], m) \in Nat
    BY <1>4
  <2> QED BY <2>2, <2>3, <2>4, <2>5
<1>13. CuLike(p, s.cu[c])
  BY <1>10 DEF CuLike
<1>14. Good(u, <<"send", c>>, n)
  BY <1>10, <1>11, <1>12, <1>13, GoodCuQueues
<1> QED BY <1>10, <1>11, <1>14 DEF CuQueuesOnly

(* What is queued for a viewer and not written is dropped.                 *)
LEMMA GoodCuDropped ==
  ASSUME NEW s, NEW n, NEW c \in Viewers, Good(s, <<"send", c>>, n), s.cu[c].alive,
         NEW u, u = [ReleaseAll(ReleaseAll(s, s.cu[c].batch), s.cu[c].queue) EXCEPT
                       !.cu[c].batch = <<>>, !.cu[c].queue = <<>>]
  PROVE  Good(u, <<"send", c>>, n) /\ CuQueuesOnly(u, s, c) /\ u.cu[c].batch = <<>>
<1>1. s \in Server /\ Counted(s) /\ s.cu \in [Viewers -> CuRec] /\ s.cu[c] \in CuRec
  BY ServerType DEF Good
<1>2. PICK b, q, e : b = s.cu[c].batch /\ q = s.cu[c].queue /\ e = <<>>
  OBVIOUS
<1>3. b \in Seq(Msgs) /\ q \in Seq(Msgs) /\ e \in Seq(Msgs)
  BY <1>1, <1>2, CuType, EmptySeq
<1>4. ASSUME NEW m \in Msgs
      PROVE  /\ s.ref[m] >= Held(s, m) /\ Held(s, m) >= Queued(s.cu[c], m)
             /\ Held(s, m) \in Nat /\ s.ref[m] \in Nat /\ Copies(e, m) = 0
             /\ Queued(s.cu[c], m) = 2 * Copies(q, m) + Copies(b, m)
             /\ Copies(b, m) \in Nat /\ Copies(q, m) \in Nat
  <2>1. Copies(b, m) \in Nat /\ Copies(q, m) \in Nat /\ Copies(e, m) = 0
    BY <1>2, <1>3, CopiesFacts
  <2>2. Queued(s.cu[c], m) = 2 * Copies(q, m) + Copies(b, m)
    BY <1>2 DEF Queued
  <2> QED BY <1>1, <2>1, <2>2, RefCovers
<1>5. PICK r, v : r = ReleaseAll(s, b) /\ v = ReleaseAll(r, q)
  OBVIOUS
<1>6. \A m \in Msgs : s.ref[m] >= Copies(b, m)
  BY <1>4
<1>7. RefOnly(r, s) /\ RefLess(r.ref, s.ref, b)
  BY <1>1, <1>3, <1>5, <1>6, ReleaseAllFacts
<1>8. \A m \in Msgs : r.ref[m] >= Copies(q, m)
  BY <1>4, <1>7 DEF RefLess
<1>9. RefOnly(v, r) /\ RefLess(v.ref, r.ref, q)
  <2>1. r \in Server
    BY <1>7 DEF RefOnly
  <2> QED BY <1>3, <1>5, <1>8, <2>1, ReleaseAllFacts
<1>10. PICK p : p = [s.cu[c] EXCEPT !.batch = e, !.queue = e]
  OBVIOUS
<1>11. /\ p \in CuRec /\ p.batch = e /\ p.queue = e /\ p.alive = s.cu[c].alive
       /\ p.ref = s.cu[c].ref /\ p.pu = s.cu[c].pu /\ p.found = s.cu[c].found
       /\ p.valid = s.cu[c].valid
  BY <1>1, <1>3, <1>10 DEF CuRec
<1>12. /\ u \in Server /\ u.pc = s.pc /\ u.pu = s.pu /\ u.crashed = s.crashed
       /\ u.runq = s.runq /\ u.cu = [s.cu EXCEPT ![c] = p] /\ u.cu[c] = p /\ u.ref = v.ref
  <2>1. /\ v \in Server /\ v.pu = s.pu /\ v.pc = s.pc /\ v.cu = s.cu
        /\ v.crashed = s.crashed /\ v.runq = s.runq
    BY <1>7, <1>9 DEF RefOnly
  <2>2. u = [v EXCEPT !.cu[c] = p]
    <3>1. u = [v EXCEPT !.cu[c].batch = e, !.cu[c].queue = e]
      BY <1>2, <1>5
    <3>2. u = [[v EXCEPT !.cu[c].batch = e] EXCEPT !.cu[c].queue = e]
      BY <3>1
    <3>3. PICK f : f = [s.cu EXCEPT ![c] = [s.cu[c] EXCEPT !.batch = e]]
      OBVIOUS
    <3>4. f[c] = [s.cu[c] EXCEPT !.batch = e] /\ [f EXCEPT ![c] = p] = [s.cu EXCEPT ![c] = p]
      BY <1>1, <3>3
    <3>5. [f[c] EXCEPT !.queue = e] = p
      BY <1>1, <1>10, <3>4
    <3>6. [v EXCEPT !.cu[c].batch = e] = [v EXCEPT !.cu = f]
      BY <2>1, <3>3
    <3>7. [[v EXCEPT !.cu = f] EXCEPT !.cu[c].queue = e] = [v EXCEPT !.cu = [s.cu EXCEPT ![c] = p]]
      BY <2>1, <3>4, <3>5 DEF Server
    <3> QED BY <2>1, <3>2, <3>6, <3>7
  <2>3. CuSet(u, v, c, p)
    BY <1>11, <2>1, <2>2, SetCu
  <2> QED BY <2>1, <2>3 DEF CuSet
<1>13. ASSUME NEW m \in Msgs
       PROVE  /\ u.ref[m] >= Held(s, m) - Queued(s.cu[c], m) + Queued(p, m)
              /\ Queued(p, m) <= Queued(s.cu[c], m)
  <2>1. Queued(p, m) = 0
    BY <1>4, <1>11 DEF Queued
  <2>2. u.ref[m] = s.ref[m] - Copies(b, m) - Copies(q, m)
    BY <1>7, <1>9, <1>12 DEF RefLess
  <2> QED BY <1>4, <2>1, <2>2
<1>14. CuLike(p, s.cu[c])
  BY <1>11 DEF CuLike
<1>15. Good(u, <<"send", c>>, n)
  BY <1>11, <1>12, <1>13, <1>14, GoodCuQueues
<1> QED BY <1>2, <1>11, <1>12, <1>15 DEF CuQueuesOnly

(* The queue of a viewer is dropped, when its connection has failed.       *)
LEMMA GoodCuCleared ==
  ASSUME NEW s, NEW n, NEW c \in Viewers, Good(s, <<"send", c>>, n), s.cu[c].alive,
         s.cu[c].batch = <<>>,
         NEW u, u = [ReleaseAll(s, s.cu[c].queue) EXCEPT !.cu[c].queue = <<>>]
  PROVE  Good(u, <<"send", c>>, n) /\ CuQueuesOnly(u, s, c) /\ u.cu[c].batch = <<>>
<1>1. s \in Server /\ Counted(s) /\ s.cu \in [Viewers -> CuRec] /\ s.cu[c] \in CuRec
  BY ServerType DEF Good
<1>2. PICK q, e : q = s.cu[c].queue /\ e = <<>>
  OBVIOUS
<1>3. q \in Seq(Msgs) /\ e \in Seq(Msgs)
  BY <1>1, <1>2, CuType, EmptySeq
<1>4. ASSUME NEW m \in Msgs
      PROVE  /\ s.ref[m] >= Held(s, m) /\ Held(s, m) >= Queued(s.cu[c], m)
             /\ Held(s, m) \in Nat /\ s.ref[m] \in Nat /\ Copies(e, m) = 0
             /\ Queued(s.cu[c], m) = 2 * Copies(q, m) /\ Copies(q, m) \in Nat
  <2>1. Copies(q, m) \in Nat /\ Copies(e, m) = 0
    BY <1>2, <1>3, CopiesFacts
  <2>2. Queued(s.cu[c], m) = 2 * Copies(q, m)
    BY <1>2, <2>1 DEF Queued
  <2> QED BY <1>1, <2>1, <2>2, RefCovers
<1>5. PICK v : v = ReleaseAll(s, q)
  OBVIOUS
<1>6. \A m \in Msgs : s.ref[m] >= Copies(q, m)
  BY <1>4
<1>7. RefOnly(v, s) /\ RefLess(v.ref, s.ref, q)
  BY <1>1, <1>3, <1>5, <1>6, ReleaseAllFacts
<1>8. PICK p : p = [s.cu[c] EXCEPT !.queue = e]
  OBVIOUS
<1>9. /\ p \in CuRec /\ p.batch = e /\ p.queue = e /\ p.alive = s.cu[c].alive
      /\ p.ref = s.cu[c].ref /\ p.pu = s.cu[c].pu /\ p.found = s.cu[c].found
      /\ p.valid = s.cu[c].valid
  BY <1>1, <1>2, <1>3, <1>8 DEF CuRec
<1>10. /\ u \in Server /\ u.pc = s.pc /\ u.pu = s.pu /\ u.crashed = s.crashed
       /\ u.runq = s.runq /\ u.cu = [s.cu EXCEPT ![c] = p] /\ u.cu[c] = p /\ u.ref = v.ref
  <2>1. /\ v \in Server /\ v.pu = s.pu /\ v.pc = s.pc /\ v.cu = s.cu
        /\ v.crashed = s.crashed /\ v.runq = s.runq
    BY <1>7 DEF RefOnly
  <2>2. u = [v EXCEPT !.cu[c] = p]
    <3>1. u = [v EXCEPT !.cu[c].queue = e]
      BY <1>2, <1>5
    <3> QED BY <1>1, <1>8, <2>1, <3>1
  <2>3. CuSet(u, v, c, p)
    BY <1>9, <2>1, <2>2, SetCu
  <2> QED BY <2>1, <2>3 DEF CuSet
<1>11. ASSUME NEW m \in Msgs
       PROVE  /\ u.ref[m] >= Held(s, m) - Queued(s.cu[c], m) + Queued(p, m)
              /\ Queued(p, m) <= Queued(s.cu[c], m)
  <2>1. Queued(p, m) = 0
    BY <1>4, <1>9 DEF Queued
  <2>2. u.ref[m] = s.ref[m] - Copies(q, m)
    BY <1>7, <1>10 DEF RefLess
  <2> QED BY <1>4, <2>1, <2>2
<1>12. CuLike(p, s.cu[c])
  BY <1>9 DEF CuLike
<1>13. Good(u, <<"send", c>>, n)
  BY <1>9, <1>10, <1>11, <1>12, GoodCuQueues
<1> QED BY <1>2, <1>9, <1>10, <1>13 DEF CuQueuesOnly

-----------------------------------------------------------------------------
(* A thread is taken off the run queue, and stops at its next wait.        *)

(* Only the run queue differs.                                             *)
RunqOnly(u, s) ==
  /\ u \in Server /\ u.pc = s.pc /\ u.pu = s.pu /\ u.cu = s.cu /\ u.ref = s.ref
  /\ u.crashed = s.crashed

(* What does not depend on the run queue or on who runs.                   *)
Steady(s, n) ==
  /\ s.crashed = "no" /\ Locations(s.pc)
  /\ FrontEnd(s) /\ Video(s) /\ (\A c \in Viewers : Viewer(s, c))
  /\ Sessions(s, n) /\ Counted(s)

(* A viewer whose record and threads are as they were.                     *)
LEMMA ViewerSame ==
  ASSUME NEW s, NEW u, NEW c, Viewer(s, c), u.cu[c] = s.cu[c],
         u.pc[<<"session", c>>] = s.pc[<<"session", c>>],
         u.pc[<<"recv", c>>] = s.pc[<<"recv", c>>],
         u.pc[<<"send", c>>] = s.pc[<<"send", c>>],
         u.pc[<<"open", c>>] = s.pc[<<"open", c>>]
  PROVE  Viewer(u, c) /\ CuRefs(u, c) = CuRefs(s, c)
<1>1. CuRefs(u, c) = CuRefs(s, c)
  BY DEF CuRefs
<1> QED BY <1>1 DEF Viewer

(* The threads that show the video hold what they held.                    *)
LEMMA OpenHeldSame ==
  ASSUME NEW p, NEW q,
         \A c \in Viewers : p[<<"open", c>>] # "none" <=> q[<<"open", c>>] # "none",
         NEW m
  PROVE  OpenHeld(p, m) = OpenHeld(q, m)
<1>1. CASE m \in {"open"} \X Viewers
  <2>1. PICK c \in Viewers : m = <<"open", c>>
    BY <1>1
  <2>2. p[m] # "none" <=> q[m] # "none"
    BY <2>1
  <2> QED BY <2>2 DEF OpenHeld, Bit
<1>2. CASE m \notin {"open"} \X Viewers
  BY <1>2 DEF OpenHeld, Bit
<1> QED BY <1>1, <1>2

(* The run queue plays no part in what is steady.                          *)
LEMMA SteadyRunq ==
  ASSUME NEW s, NEW u, NEW n, Steady(s, n), RunqOnly(u, s) PROVE Steady(u, n)
<1>1. Attached(u) = Attached(s)
  BY DEF Attached, RunqOnly
<1>2. PuRefs(u) = PuRefs(s)
  BY <1>1 DEF PuRefs, RunqOnly
<1>3. FrontEnd(u)
  BY <1>2 DEF FrontEnd, Steady, RunqOnly
<1>4. Video(u)
  BY DEF Video, Steady, RunqOnly
<1>5. \A c \in Viewers : Viewer(u, c)
  BY ViewerSame DEF Steady, RunqOnly
<1>6. Sessions(u, n)
  BY DEF Sessions, Steady, RunqOnly
<1>7. Counted(u)
  BY DEF Counted, Steady, RunqOnly, Held, CuHeld
<1> QED BY <1>3, <1>4, <1>5, <1>6, <1>7 DEF Steady, RunqOnly

(* The invariant is its steady part, and what is said of the run queue and *)
(* the batches.                                                            *)
LEMMA GoodParts ==
  ASSUME NEW s, NEW t, NEW n
  PROVE  Good(s, t, n) <=> /\ s \in Server /\ Queueing(s, t) /\ StartUp(s, t)
                           /\ Batches(s, t) /\ Steady(s, n)
BY DEF Good, Steady

(* The thread at the head of the run queue runs.                           *)
LEMMA Pop ==
  ASSUME NEW s, NEW n, Good(s, NoThread, n), s.runq # <<>>, NEW t, t = Head(s.runq),
         NEW u, u = [s EXCEPT !.runq = Tail(@)]
  PROVE  Good(u, t, n) /\ RunqOnly(u, s) /\ t \in Threads /\ u.pc[t] # "none"
<1>1. s \in Server /\ s.runq \in Seq(Threads)
  BY ServerType DEF Good
<1>2. PICK q : q = Tail(s.runq)
  OBVIOUS
<1>3. q \in Seq(Threads) /\ t \in Threads /\ Shorter(q, s.runq, t)
  BY <1>1, <1>2, TailFacts
<1>4. u.runq = q /\ RunqOnly(u, s)
  BY <1>1, <1>2, <1>3 DEF RunqOnly, Server
<1>5. Queueing(s, NoThread) /\ StartUp(s, NoThread) /\ Batches(s, NoThread) /\ Steady(s, n)
  BY GoodParts
<1>6. Distinct(q) /\ ~In(t, q) /\ In(t, s.runq) /\ \A x : In(x, q) <=> In(x, s.runq) /\ x # t
  BY <1>3, <1>5 DEF Shorter, Queueing
<1>7. Queueing(u, t)
  <2>1. \A x \in Threads : x # NoThread
    BY Names
  <2> QED BY <1>4, <1>5, <1>6, <2>1 DEF Queueing, RunqOnly
<1>8. s.pc[t] # "none"
  BY <1>3, <1>5, <1>6 DEF Queueing
<1>9. \A x \in Threads : On(x, u, t) <=> On(x, s, NoThread)
  BY <1>4, <1>6, Names DEF On
<1>10. Before(s.runq, Recv, Send) => Before(q, Recv, Send)
  BY <1>3 DEF Shorter
<1>11. ASSUME In(Recv, s.runq), Before(s.runq, Recv, Send) PROVE t # Send
  <2> SUFFICES ASSUME t = Send PROVE FALSE
    OBVIOUS
  <2>1. PICK i \in 1..Len(s.runq) : s.runq[i] = Recv
    BY <1>11 DEF In
  <2>2. Len(s.runq) \in Nat \ {0} /\ s.runq[1] = Send
    BY <1>3 DEF Shorter
  <2>3. i < 1
    BY <1>11, <2>1, <2>2 DEF Before
  <2> QED BY <2>1, <2>2, <2>3
<1>12. StartUp(u, t)
  <2>1. {Recv, Send, Heart} \subseteq Threads
    BY Names
  <2>2. On(Recv, s, NoThread) => In(Recv, s.runq)
    BY Names DEF On
  <2>3. In(Send, s.runq) /\ t # Send => In(Send, q)
    BY <1>6
  <2>4. u.pc = s.pc /\ u.runq = q
    BY <1>4 DEF RunqOnly
  <2>5. ASSUME Young(u.pc), On(Recv, u, t)
        PROVE  /\ u.pc[Recv] = "start" /\ u.pc[Send] = "start" /\ In(Send, u.runq)
               /\ Before(u.runq, Recv, Send)
    BY <1>5, <1>9, <1>10, <1>11, <2>1, <2>2, <2>3, <2>4, <2>5 DEF StartUp
  <2> QED BY <1>5, <1>9, <2>1, <2>4, <2>5 DEF StartUp
<1>13. Batches(u, t)
  <2>1. NoThread # Send /\ \A c \in Viewers : NoThread # <<"send", c>>
    BY Names
  <2> QED BY <1>4, <1>5, <2>1 DEF Batches, RunqOnly
<1>14. Steady(u, n)
  BY <1>4, <1>5, SteadyRunq
<1> QED BY <1>3, <1>4, <1>7, <1>8, <1>12, <1>13, <1>14, GoodParts DEF RunqOnly

(* The running thread waits at l, or ends.                                 *)
LEMMA Stops ==
  ASSUME NEW s, NEW t \in Threads, NEW n, Good(s, t, n), s.pc[t] # "none",
         NEW l \in Locs \ {"start"}, NEW u, PcSet(u, s, t, l)
  PROVE  u \in Server /\ u.crashed = "no" /\ Queueing(u, NoThread) /\ StartUp(u, NoThread)
<1>1. s \in Server /\ s.crashed = "no" /\ Queueing(s, t) /\ StartUp(s, t) /\ s.runq \in Seq(Threads)
  BY ServerType DEF Good
<1>2. /\ u \in Server /\ u.crashed = "no" /\ u.runq = s.runq /\ u.pc[t] = l
      /\ \A x \in Threads : x # t => u.pc[x] = s.pc[x]
  BY <1>1 DEF PcSet
<1>3. \A x : In(x, s.runq) => x \in Threads
  BY <1>1, LenProperties DEF In
<1>4. \A x \in Threads : x # NoThread
  BY Names
<1>5. Queueing(u, NoThread)
  BY <1>1, <1>2, <1>3, <1>4 DEF Queueing
<1>6. {Ses, Recv, Send, Heart, Open} \subseteq Threads
  BY Names
<1>7. \A x \in Threads : On(x, u, NoThread) => On(x, s, t) /\ x # t
  BY <1>1, <1>2, <1>4 DEF On, Queueing
<1>8. \A x \in Threads : u.pc[x] = "start" => x # t /\ s.pc[x] = "start"
  BY <1>2
<1>9. ~In(t, s.runq)
  BY <1>1 DEF Queueing
<1>10. ASSUME Young(u.pc), On(Recv, u, NoThread)
       PROVE  /\ u.pc[Recv] = "start" /\ u.pc[Send] = "start" /\ In(Send, u.runq)
              /\ Before(u.runq, Recv, Send)
  <2>1. Young(s.pc) /\ On(Recv, s, t) /\ t # Recv
    BY <1>6, <1>7, <1>8, <1>10 DEF Young
  <2>2. /\ s.pc[Recv] = "start" /\ s.pc[Send] = "start" /\ In(Send, s.runq)
        /\ Before(s.runq, Recv, Send)
    BY <1>1, <2>1 DEF StartUp
  <2> QED BY <1>2, <1>6, <1>9, <2>1, <2>2
<1>11. u.pc[Send] = "start" => u.pc[Heart] = "none" /\ u.pc[Open] = "none"
  <2>1. ASSUME u.pc[Send] = "start" PROVE s.pc[Heart] = "none" /\ s.pc[Open] = "none"
    BY <1>1, <1>6, <1>8, <2>1 DEF StartUp
  <2> QED BY <1>2, <1>6, <2>1
<1>12. u.pc[Heart] = "start" => u.pc[Open] = "none"
  <2>1. ASSUME u.pc[Heart] = "start" PROVE s.pc[Open] = "none"
    BY <1>1, <1>6, <1>8, <2>1 DEF StartUp
  <2> QED BY <1>2, <1>6, <2>1
<1>13. u.pc[Open] = "start" => u.pc[Heart] = "sleep" /\ ~On(Heart, u, NoThread)
  <2>1. ASSUME u.pc[Open] = "start" PROVE s.pc[Heart] = "sleep" /\ ~On(Heart, s, t)
    BY <1>1, <1>6, <1>8, <2>1 DEF StartUp
  <2>2. ~On(Heart, s, t) => Heart # t
    BY DEF On
  <2> QED BY <1>2, <1>6, <1>7, <2>1, <2>2
<1>14. u.pc[Heart] = "start" \/ u.pc[Open] = "start"
         => u.pc[Send] = "wait" /\ ~On(Send, u, NoThread)
  <2>1. ASSUME u.pc[Heart] = "start" \/ u.pc[Open] = "start"
        PROVE  s.pc[Send] = "wait" /\ ~On(Send, s, t)
    BY <1>1, <1>6, <1>8, <2>1 DEF StartUp
  <2>2. ~On(Send, s, t) => Send # t
    BY DEF On
  <2> QED BY <1>2, <1>6, <1>7, <2>1, <2>2
<1>15. StartUp(u, NoThread)
  BY <1>10, <1>11, <1>12, <1>13, <1>14 DEF StartUp
<1> QED BY <1>2, <1>5, <1>15

(* A thread of the front end stops: its viewers are as they were.          *)
LEMMA DeviceStops ==
  ASSUME NEW s, NEW t \in {Ses, Recv, Send, Heart, Open}, NEW n, Good(s, t, n),
         s.pc[t] # "none", NEW l \in Locs \ {"start"}, NEW u, PcSet(u, s, t, l),
         Locations(u.pc), FrontEnd(u), Sessions(u, n),
         u.pc[Send] = "write" <=> u.pu.batch # <<>>
  PROVE  Good(u, NoThread, n)
<1>1. t \in Threads
  BY Names
<1>2. u \in Server /\ u.crashed = "no" /\ Queueing(u, NoThread) /\ StartUp(u, NoThread)
  BY <1>1, Stops
<1>3. u.pu = s.pu /\ u.cu = s.cu /\ u.ref = s.ref /\ \A x \in Threads : x # t => u.pc[x] = s.pc[x]
  BY DEF PcSet
<1>4. \A c \in Viewers : /\ u.pc[<<"session", c>>] = s.pc[<<"session", c>>]
                         /\ u.pc[<<"recv", c>>] = s.pc[<<"recv", c>>]
                         /\ u.pc[<<"send", c>>] = s.pc[<<"send", c>>]
                         /\ u.pc[<<"open", c>>] = s.pc[<<"open", c>>]
                         /\ t # <<"send", c>>
  BY <1>3, ViewerNames
<1>5. Video(s) /\ Video(u)
  BY <1>3, <1>4 DEF Good, Video
<1>6. \A c \in Viewers : Viewer(u, c)
  BY <1>3, <1>4, ViewerSame DEF Good
<1>7. Batches(u, NoThread)
  BY <1>3, <1>4 DEF Good, Batches
<1>8. Counted(u)
  <2>1. \A m \in Msgs : OpenHeld(u.pc, m) = OpenHeld(s.pc, m)
    <3>1. \A c \in Viewers : u.pc[<<"open", c>>] # "none" <=> s.pc[<<"open", c>>] # "none"
      BY <1>4
    <3> QED BY <3>1, OpenHeldSame
  <2>2. \A m : CuHeld(u, m) = CuHeld(s, m)
    BY <1>3 DEF CuHeld
  <2> QED BY <1>3, <2>1, <2>2 DEF Good, Counted, Held
<1> QED BY <1>2, <1>5, <1>6, <1>7, <1>8 DEF Good

(* A thread of a viewer that does not show the video stops.                *)
LEMMA ViewerStops ==
  ASSUME NEW s, NEW c \in Viewers, NEW r \in {"session", "recv", "send"}, NEW n,
         Good(s, <<r, c>>, n), s.pc[<<r, c>>] # "none",
         NEW l \in Locs \ {"start"}, NEW u, PcSet(u, s, <<r, c>>, l),
         Locations(u.pc), Viewer(u, c), Sessions(u, n),
         u.pc[<<"send", c>>] = "write" <=> u.cu[c].batch # <<>>
  PROVE  Good(u, NoThread, n) /\ PuRefs(u) = PuRefs(s)
<1> DEFINE t == <<r, c>>
<1>1. t \in Threads /\ t # Ses /\ t # Recv /\ t # Send /\ t # Heart /\ t # Open
  BY ViewerNames
<1>2. u \in Server /\ u.crashed = "no" /\ Queueing(u, NoThread) /\ StartUp(u, NoThread)
  BY <1>1, Stops
<1>3. u.pu = s.pu /\ u.cu = s.cu /\ u.ref = s.ref /\ \A x \in Threads : x # t => u.pc[x] = s.pc[x]
  BY DEF PcSet
<1>4. /\ u.pc[Ses] = s.pc[Ses] /\ u.pc[Recv] = s.pc[Recv] /\ u.pc[Send] = s.pc[Send]
      /\ u.pc[Heart] = s.pc[Heart] /\ u.pc[Open] = s.pc[Open]
  BY <1>1, <1>3, Names
<1>5. \A d \in Viewers : /\ u.pc[<<"open", d>>] = s.pc[<<"open", d>>]
                         /\ d # c => /\ u.pc[<<"session", d>>] = s.pc[<<"session", d>>]
                                     /\ u.pc[<<"recv", d>>] = s.pc[<<"recv", d>>]
                                     /\ u.pc[<<"send", d>>] = s.pc[<<"send", d>>]
                                     /\ t # <<"send", d>>
  BY <1>3, ViewerNames
<1>6. Video(u)
  BY <1>3, <1>5 DEF Good, Video
<1>7. ASSUME NEW d \in Viewers PROVE Viewer(u, d)
  <2>1. CASE d = c
    BY <2>1
  <2>2. CASE d # c
    BY <1>3, <1>5, <2>2, ViewerSame DEF Good
  <2> QED BY <2>1, <2>2
<1>8. Batches(u, NoThread)
  <2>1. ASSUME NEW d \in Viewers PROVE u.pc[<<"send", d>>] = "write" <=> u.cu[d].batch # <<>>
    <3>1. CASE d = c
      BY <3>1
    <3>2. CASE d # c
      BY <1>3, <1>5, <3>2 DEF Good, Batches
    <3> QED BY <3>1, <3>2
  <2>2. u.pc[Send] = "write" <=> u.pu.batch # <<>>
    BY <1>1, <1>3, <1>4 DEF Good, Batches
  <2> QED BY <2>1, <2>2 DEF Batches
<1>9. Attached(u) = Attached(s)
  BY <1>3 DEF Attached
<1>10. PuRefs(u) = PuRefs(s)
  BY <1>4, <1>9 DEF PuRefs
<1>11. FrontEnd(u)
  BY <1>3, <1>4, <1>10 DEF Good, FrontEnd, Young, NoneServes
<1>12. Counted(u)
  <2>1. \A m \in Msgs : OpenHeld(u.pc, m) = OpenHeld(s.pc, m)
    <3>1. \A d \in Viewers : u.pc[<<"open", d>>] # "none" <=> s.pc[<<"open", d>>] # "none"
      BY <1>5
    <3> QED BY <3>1, OpenHeldSame
  <2>2. \A m : CuHeld(u, m) = CuHeld(s, m)
    BY <1>3 DEF CuHeld
  <2> QED BY <1>3, <2>1, <2>2 DEF Good, Counted, Held
<1> QED BY <1>2, <1>6, <1>7, <1>8, <1>10, <1>11, <1>12 DEF Good

-----------------------------------------------------------------------------
(* References to proxies.                                                  *)

LEMMA BitNat ==
  ASSUME NEW b \in BOOLEAN
  PROVE  Bit(b) \in {0, 1} /\ (b => Bit(b) = 1) /\ (~b => Bit(b) = 0)
BY DEF Bit

(* When no reference to the front end is counted, nobody has one.          *)
LEMMA PuRefsNat ==
  ASSUME NEW s
  PROVE  /\ PuRefs(s) \in Nat /\ IsFiniteSet(Attached(s))
         /\ PuRefs(s) = 0 => /\ s.pc[Ses] # "auth" /\ s.pc[Recv] = "none"
                             /\ s.pc[Send] = "none" /\ s.pc[Heart] # "sleep"
                             /\ Attached(s) = {}
<1>1. Attached(s) \in SUBSET Viewers /\ IsFiniteSet(Viewers)
  BY NvsAssumption DEF Attached
<1>2. IsFiniteSet(Attached(s)) /\ Cardinality(Attached(s)) \in Nat
      /\ (Cardinality(Attached(s)) = 0 => Attached(s) = {})
  BY <1>1, FS_Subset, FS_CardinalityType, FS_EmptySet
<1>3. PICK a, b, c, d, e : /\ a = Bit(s.pc[Ses] = "auth") /\ b = Bit(s.pc[Recv] # "none")
                           /\ c = Bit(s.pc[Send] # "none") /\ d = Bit(s.pc[Heart] = "sleep")
                           /\ e = Cardinality(Attached(s))
  OBVIOUS
<1>4. /\ a \in {0, 1} /\ b \in {0, 1} /\ c \in {0, 1} /\ d \in {0, 1} /\ e \in Nat
      /\ a = 0 => s.pc[Ses] # "auth"
      /\ b = 0 => s.pc[Recv] = "none"
      /\ c = 0 => s.pc[Send] = "none"
      /\ d = 0 => s.pc[Heart] # "sleep"
  BY <1>2, <1>3 DEF Bit
<1>5. PuRefs(s) = a + b + c + d + e
  BY <1>3 DEF PuRefs
<1>6. PuRefs(s) \in Nat /\ (PuRefs(s) = 0 => a = 0 /\ b = 0 /\ c = 0 /\ d = 0 /\ e = 0)
  BY <1>4, <1>5
<1> QED BY <1>2, <1>3, <1>4, <1>6

(* When no reference to a viewer is counted, nobody has one.               *)
LEMMA CuRefsNat ==
  ASSUME NEW s, NEW c
  PROVE  /\ CuRefs(s, c) \in Nat
         /\ CuRefs(s, c) = 0 => /\ s.pc[<<"recv", c>>] = "none" /\ s.pc[<<"send", c>>] = "none"
                                /\ s.pc[<<"open", c>>] # "wait"
<1>1. PICK a, b, d : /\ a = Bit(s.pc[<<"recv", c>>] # "none") /\ b = Bit(s.pc[<<"send", c>>] # "none")
                     /\ d = Bit(s.pc[<<"open", c>>] = "wait")
  OBVIOUS
<1>2. /\ a \in {0, 1} /\ b \in {0, 1} /\ d \in {0, 1}
      /\ a = 0 => s.pc[<<"recv", c>>] = "none"
      /\ b = 0 => s.pc[<<"send", c>>] = "none"
      /\ d = 0 => s.pc[<<"open", c>>] # "wait"
  BY <1>1 DEF Bit
<1>3. CuRefs(s, c) = a + b + 2 * d
  BY <1>1 DEF CuRefs
<1> QED BY <1>2, <1>3

(* Only the front end's record differs.                                    *)
LEMMA PuChange ==
  ASSUME NEW s, NEW t, NEW n, Good(s, t, n), NEW u \in Server, u.pc = s.pc,
         u.runq = s.runq, u.cu = s.cu, u.crashed = s.crashed,
         FrontEnd(u), Video(u), Sessions(u, n), Counted(u),
         t # Send => (u.pc[Send] = "write" <=> u.pu.batch # <<>>)
  PROVE  Good(u, t, n)
<1>1. Queueing(u, t) /\ StartUp(u, t) /\ Locations(u.pc) /\ u.crashed = "no"
  BY DEF Good, Queueing, StartUp, On
<1>2. \A c \in Viewers : Viewer(u, c)
  BY ViewerSame DEF Good
<1>3. Batches(u, t)
  BY DEF Good, Batches
<1> QED BY <1>1, <1>2, <1>3 DEF Good

(* The count of the front end may become any number that covers its        *)
(* references.                                                             *)
LEMMA PuRefSet ==
  ASSUME NEW s, NEW t, NEW n, Good(s, t, n), s.pu.alive, NEW k \in Nat, k >= PuRefs(s),
         NEW u, u = [s EXCEPT !.pu.ref = k]
  PROVE  /\ Good(u, t, n) /\ PuSet(u, s, [s.pu EXCEPT !.ref = k])
         /\ u.pu.ref = k /\ u.pu.cmd = s.pu.cmd /\ u.pu.alive /\ u.pu.valid = s.pu.valid
         /\ PuRefs(u) = PuRefs(s)
<1>1. s \in Server /\ s.pu \in PuRec
  BY ServerType DEF Good
<1>2. PICK p : p = [s.pu EXCEPT !.ref = k]
  OBVIOUS
<1>3. /\ p \in PuRec /\ p.ref = k /\ p.alive = s.pu.alive /\ p.id = s.pu.id
      /\ p.valid = s.pu.valid /\ p.cmd = s.pu.cmd /\ p.vec = s.pu.vec
      /\ p.queue = s.pu.queue /\ p.batch = s.pu.batch
  BY <1>1, <1>2 DEF PuRec
<1>4. PuSet(u, s, p)
  <2>1. u = [s EXCEPT !.pu = p]
    BY <1>2
  <2> QED BY <1>1, <1>3, <2>1, SetPu
<1>5. /\ u \in Server /\ u.pu = p /\ u.pc = s.pc /\ u.cu = s.cu /\ u.crashed = s.crashed
      /\ u.runq = s.runq /\ u.ref = s.ref
  BY <1>4 DEF PuSet
<1>6. PuRefs(u) = PuRefs(s)
  BY <1>5 DEF PuRefs, Attached
<1>7. FrontEnd(u)
  BY <1>3, <1>5, <1>6 DEF Good, FrontEnd
<1>8. Video(u)
  BY <1>3, <1>5 DEF Good, Video
<1>9. Sessions(u, n)
  BY <1>3, <1>5 DEF Good, Sessions
<1>10. Counted(u)
  <2>1. \A m \in Msgs : PuHeld(p, m) = PuHeld(s.pu, m)
    BY <1>3 DEF PuHeld, Queued
  <2>2. \A m : CuHeld(u, m) = CuHeld(s, m)
    BY <1>5 DEF CuHeld
  <2> QED BY <1>5, <2>1, <2>2 DEF Good, Counted, Held
<1>11. t # Send => (u.pc[Send] = "write" <=> u.pu.batch # <<>>)
  BY <1>3, <1>5 DEF Good, Batches
<1>12. Good(u, t, n)
  BY <1>5, <1>7, <1>8, <1>9, <1>10, <1>11, PuChange
<1> QED BY <1>2, <1>3, <1>4, <1>5, <1>6, <1>12

(* What a released front end leaves as it is.                              *)
PuOnly(u, s) ==
  /\ u \in Server /\ u.pc = s.pc /\ u.cu = s.cu /\ u.runq = s.runq /\ u.crashed = s.crashed

(* A thread gives up a reference to the front end that it has besides the  *)
(* ones counted: the last one frees it, and nothing refers to it then.     *)
LEMMA GoodPuRelease ==
  ASSUME NEW s, NEW n, Good(s, NoThread, n), s.pu.alive, s.pu.ref >= PuRefs(s) + 1,
         NEW u, u = pu_release(s)
  PROVE  Good(u, NoThread, n) /\ PuOnly(u, s)
<1>1. /\ s \in Server /\ s.pu \in PuRec /\ s.pu.ref \in Nat /\ FrontEnd(s) /\ Video(s)
      /\ StartUp(s, NoThread) /\ Locations(s.pc) /\ Batches(s, NoThread) /\ Sessions(s, n)
      /\ Counted(s) /\ \A c \in Viewers : Viewer(s, c)
  BY ServerType, PuType DEF Good
<1>2. PuRefs(s) \in Nat
  BY PuRefsNat
<1>3. CASE s.pu.ref > 1
  <2>1. PICK k : k = s.pu.ref - 1
    OBVIOUS
  <2>2. k \in Nat /\ k >= PuRefs(s)
    BY <1>1, <1>2, <1>3, <2>1
  <2>3. u = [s EXCEPT !.pu.ref = k]
    BY <1>3, <2>1 DEF pu_release
  <2>4. Good(u, NoThread, n) /\ PuSet(u, s, [s.pu EXCEPT !.ref = k])
    BY <2>2, <2>3, PuRefSet
  <2> QED BY <2>4 DEF PuSet, PuOnly
<1>4. CASE ~(s.pu.ref > 1)
  <2>1. PuRefs(s) = 0
    BY <1>1, <1>2, <1>4
  <2>2. /\ s.pc[Ses] # "auth" /\ s.pc[Recv] = "none" /\ s.pc[Send] = "none"
        /\ s.pc[Heart] # "sleep" /\ Attached(s) = {}
    BY <2>1, PuRefsNat
  <2>3. ~Young(s.pc) /\ NoneServes(s.pc)
    BY <1>1, <2>2 DEF Young, NoneServes, StartUp, Locations
  <2>4. s.pu.cmd
    BY <1>1, <2>2, <2>3 DEF FrontEnd
  <2>5. \A c \in Viewers : ~s.cu[c].pu /\ s.pc[<<"open", c>>] # "wait" /\ ~In(c, s.pu.vec)
    <3>1. \A c \in Viewers : ~s.cu[c].pu
      BY <2>2 DEF Attached
    <3>2. \A c \in Viewers : s.pc[<<"open", c>>] # "wait"
      BY <1>1, <3>1 DEF Viewer
    <3> QED BY <1>1, <3>1, <3>2 DEF Video
  <2>6. s.pu.vec \in Seq(Viewers) /\ s.pu.queue \in Seq(Msgs) /\ s.pu.batch = <<>>
    <3>1. NoThread # Send
      BY Names
    <3> QED BY <1>1, <2>2, <3>1, PuType DEF Batches
  <2>7. Len(s.pu.vec) \in Nat
    BY <2>6, LenProperties
  <2>8. PICK q : q = s.pu.queue
    OBVIOUS
  <2>9. q \in Seq(Msgs)
    BY <2>6, <2>8
  <2>10. ASSUME NEW m \in Msgs
         PROVE  /\ s.ref[m] >= Held(s, m) /\ s.ref[m] \in Nat
                /\ PuHeld(s.pu, m) >= 2 * Copies(q, m) + Bit(m = VideoCmd)
                /\ PuHeld(s.pu, m) \in Nat /\ CuHeld(s, m) \in Nat /\ OpenHeld(s.pc, m) \in Nat
                /\ Held(s, m) = PuHeld(s.pu, m) + CuHeld(s, m) + OpenHeld(s.pc, m)
                /\ Copies(q, m) \in Nat /\ Bit(m = VideoCmd) \in {0, 1}
    <3>1. Copies(q, m) \in Nat
      BY <2>9, CopiesFacts
    <3>2. Copies(<<>>, m) = 0
      <4>1. <<>> \in Seq(Msgs)
        BY EmptySeq
      <4> QED BY <4>1, CopiesFacts
    <3>3. PuHeld(s.pu, m) >= 2 * Copies(q, m) + Bit(m = VideoCmd)
      BY <2>4, <2>6, <2>7, <2>8, <3>1, <3>2 DEF PuHeld, Queued, Bit
    <3>4. Bit(m = VideoCmd) \in {0, 1}
      BY DEF Bit
    <3> QED BY <1>1, <3>1, <3>3, <3>4, HeldNat DEF Counted
  <2>11. PICK a : a = ReleaseMsg(s, VideoCmd)
    OBVIOUS
  <2>12. VideoCmd \in Msgs
    BY Names
  <2>13. s.ref[VideoCmd] >= 1
    <3>1. Bit(VideoCmd = VideoCmd) = 1
      BY DEF Bit
    <3> QED BY <2>10, <2>12, <3>1
  <2>14. RefOnly(a, s) /\ a.ref = [s.ref EXCEPT ![VideoCmd] = @ - 1]
    BY <1>1, <2>11, <2>12, <2>13, ReleaseMsgFacts
  <2>15. \A m \in Msgs : a.ref[m] = s.ref[m] - Bit(m = VideoCmd)
    <3>1. s.ref \in [Msgs -> Nat]
      BY <1>1, ServerType
    <3> QED BY <2>12, <2>14, <3>1 DEF Bit
  <2>16. ASSUME NEW m \in Msgs PROVE a.ref[m] >= Copies(q, m)
    <3>1. a.ref[m] = s.ref[m] - Bit(m = VideoCmd)
      BY <2>15
    <3> QED BY <2>10, <3>1
  <2>17. PICK b : b = ReleaseAll(a, q)
    OBVIOUS
  <2>18. RefOnly(b, a) /\ RefLess(b.ref, a.ref, q)
    <3>1. a \in Server
      BY <2>14 DEF RefOnly
    <3> QED BY <2>9, <2>16, <2>17, <3>1, ReleaseAllFacts
  <2>19. u = [b EXCEPT !.pu = NoPu]
    BY <1>4, <2>4, <2>8, <2>11, <2>17 DEF pu_release
  <2>20. NoPu \in PuRec
    BY EmptySeq DEF NoPu, PuRec
  <2>21. /\ u \in Server /\ u.pu = NoPu /\ u.pc = s.pc /\ u.cu = s.cu
         /\ u.crashed = s.crashed /\ u.runq = s.runq /\ u.ref = b.ref
    <3>1. b \in Server
      BY <2>18 DEF RefOnly
    <3>2. PuSet(u, b, NoPu)
      BY <2>19, <2>20, <3>1, SetPu
    <3> QED BY <2>14, <2>18, <3>2 DEF RefOnly, PuSet
  <2>22. ASSUME NEW m \in Msgs PROVE u.ref[m] >= Held(u, m)
    <3>1. PuHeld(NoPu, m) = 0
      <4>1. Copies(<<>>, m) = 0
        <5>1. <<>> \in Seq(Msgs)
          BY EmptySeq
        <5> QED BY <5>1, CopiesFacts
      <4> QED BY <4>1 DEF PuHeld, Queued, NoPu
    <3>2. CuHeld(u, m) = CuHeld(s, m)
      BY <2>21 DEF CuHeld
    <3>3. Held(u, m) = CuHeld(s, m) + OpenHeld(s.pc, m)
      BY <2>10, <2>21, <3>1, <3>2 DEF Held
    <3>4. u.ref[m] = s.ref[m] - Bit(m = VideoCmd) - Copies(q, m)
      BY <2>15, <2>18, <2>21 DEF RefLess
    <3>5. PICK i, j, x : i = Bit(m = VideoCmd) /\ j = Copies(q, m) /\ x = PuHeld(s.pu, m)
      OBVIOUS
    <3>6. /\ i \in {0, 1} /\ j \in Nat /\ x \in Nat /\ x >= 2 * j + i
          /\ Held(s, m) = x + CuHeld(s, m) + OpenHeld(s.pc, m)
          /\ u.ref[m] = s.ref[m] - i - j
      BY <2>10, <3>4, <3>5
    <3> QED BY <2>10, <3>3, <3>6
  <2>23. Counted(u)
    BY <1>1, <2>21, <2>22 DEF Counted, CuHeld
  <2>24. FrontEnd(u)
    BY <2>2, <2>3, <2>21 DEF FrontEnd, NoPu
  <2>25. Video(u)
    <3>1. NoPu.vec = <<>>
      BY DEF NoPu
    <3>2. PICK e : e = NoPu.vec
      OBVIOUS
    <3>3. Distinct(e) /\ \A x : ~In(x, e)
      BY <3>1, <3>2 DEF Distinct, In
    <3>4. u.pu.vec = e
      BY <2>21, <3>2
    <3> QED BY <2>5, <2>21, <3>3, <3>4 DEF Video
  <2>26. Sessions(u, n)
    <3>1. ~NoPu.alive /\ NoPu.id = 0
      BY DEF NoPu
    <3>2. ASSUME NEW c \in Viewers, u.pc[<<"session", c>>] = "auth"
          PROVE  /\ u.cu[c].found \in 1..n /\ u.cu[c].found # u.pu.id
                 /\ u.pc[Ses] = "start" => u.cu[c].found < n
      <4>1. s.cu[c].found \in 1..n /\ (s.pc[Ses] = "start" => s.cu[c].found < n)
        BY <1>1, <2>21, <3>2 DEF Sessions
      <4>2. s.cu[c].found # 0
        BY <4>1
      <4> QED BY <2>21, <3>1, <4>1, <4>2
    <3>3. u.pc[Ses] = "start" => n >= 1
      BY <1>1, <2>21 DEF Sessions
    <3> QED BY <2>21, <3>1, <3>2, <3>3 DEF Sessions
  <2>27. u.pc[Send] = "write" <=> u.pu.batch # <<>>
    BY <2>2, <2>21 DEF NoPu
  <2>28. Good(u, NoThread, n)
    BY <2>21, <2>23, <2>24, <2>25, <2>26, <2>27, PuChange
  <2> QED BY <2>21, <2>28 DEF PuOnly
<1> QED BY <1>3, <1>4

(* Only the record of one viewer differs.                                  *)
LEMMA CuChange ==
  ASSUME NEW s, NEW t, NEW n, Good(s, t, n), NEW u \in Server, NEW c \in Viewers,
         NEW r \in CuRec, u.cu = [s.cu EXCEPT ![c] = r], u.pc = s.pc,
         u.runq = s.runq, u.pu = s.pu, u.crashed = s.crashed,
         Viewer(u, c), FrontEnd(u), r.pu => s.pu.cmd, Counted(u),
         s.pc[<<"session", c>>] = "auth" => r.found = s.cu[c].found,
         t # <<"send", c>> => (u.pc[<<"send", c>>] = "write" <=> r.batch # <<>>)
  PROVE  Good(u, t, n)
<1>1. Queueing(u, t) /\ StartUp(u, t) /\ Locations(u.pc) /\ u.crashed = "no"
  BY DEF Good, Queueing, StartUp, On
<1>2. s.cu \in [Viewers -> CuRec]
  BY ServerType DEF Good
<1>3. u.cu[c] = r /\ \A d \in Viewers : d # c => u.cu[d] = s.cu[d]
  BY <1>2
<1>4. ASSUME NEW d \in Viewers PROVE Viewer(u, d)
  <2>1. CASE d = c
    BY <2>1
  <2>2. CASE d # c
    BY <1>3, <2>2, ViewerSame DEF Good
  <2> QED BY <2>1, <2>2
<1>5. Batches(u, t)
  <2>1. ASSUME NEW d \in Viewers, t # <<"send", d>>
        PROVE  u.pc[<<"send", d>>] = "write" <=> u.cu[d].batch # <<>>
    <3>1. CASE d = c
      BY <1>3, <2>1, <3>1
    <3>2. CASE d # c
      BY <1>3, <2>1, <3>2 DEF Good, Batches
    <3> QED BY <3>1, <3>2
  <2> QED BY <2>1 DEF Good, Batches
<1>6. Video(u)
  <2>1. \A d \in Viewers : u.cu[d].pu => u.pu.cmd
    BY <1>3 DEF Good, Video
  <2> QED BY <2>1 DEF Good, Video
<1>7. Sessions(u, n)
  <2>1. \A d \in Viewers : s.pc[<<"session", d>>] = "auth" => u.cu[d].found = s.cu[d].found
    BY <1>3
  <2> QED BY <2>1 DEF Good, Sessions
<1> QED BY <1>1, <1>4, <1>5, <1>6, <1>7 DEF Good

(* What a change of one viewer leaves of the references to the front end.  *)
LEMMA AttachedOne ==
  ASSUME NEW s \in Server, NEW u, NEW c \in Viewers, NEW r \in CuRec,
         u.cu = [s.cu EXCEPT ![c] = r], u.pc = s.pc
  PROVE  /\ r.pu = s.cu[c].pu => PuRefs(u) = PuRefs(s)
         /\ ~r.pu => PuRefs(u) <= PuRefs(s)
         /\ ~r.pu /\ s.cu[c].pu => PuRefs(u) = PuRefs(s) - 1
         /\ r.pu /\ ~s.cu[c].pu => PuRefs(u) = PuRefs(s) + 1
<1>1. s.cu \in [Viewers -> CuRec]
  BY ServerType
<1>2. u.cu[c] = r /\ \A d \in Viewers : d # c => u.cu[d] = s.cu[d]
  BY <1>1
<1>3. PICK A, B : A = Attached(s) /\ B = Attached(u)
  OBVIOUS
<1>4. IsFiniteSet(A) /\ IsFiniteSet(B)
  BY <1>3, PuRefsNat
<1>5. PICK x, y, z : x = Cardinality(A) /\ y = Cardinality(B)
                     /\ z = Bit(s.pc[Ses] = "auth") + Bit(s.pc[Recv] # "none")
                              + Bit(s.pc[Send] # "none") + Bit(s.pc[Heart] = "sleep")
  OBVIOUS
<1>6. x \in Nat /\ y \in Nat /\ z \in Int
  BY <1>4, <1>5, FS_CardinalityType DEF Bit
<1>7. PuRefs(s) = z + x /\ PuRefs(u) = z + y
  BY <1>3, <1>5 DEF PuRefs
<1>8. ASSUME r.pu = s.cu[c].pu PROVE A = B
  BY <1>2, <1>3, <1>8 DEF Attached
<1>9. ASSUME ~r.pu, s.cu[c].pu PROVE y = x - 1
  <2>1. c \in A /\ B = A \ {c}
    BY <1>2, <1>3, <1>9 DEF Attached
  <2> QED BY <1>4, <1>5, <2>1, FS_RemoveElement
<1>10. ASSUME r.pu, ~s.cu[c].pu PROVE y = x + 1
  <2>1. c \notin A /\ B = A \cup {c}
    BY <1>2, <1>3, <1>10 DEF Attached
  <2> QED BY <1>4, <1>5, <2>1, FS_AddElement
<1>11. r.pu \in BOOLEAN /\ s.cu[c].pu \in BOOLEAN
  BY <1>1, CuType
<1>12. r.pu = s.cu[c].pu => y = x
  BY <1>5, <1>8
<1>13. r.pu = s.cu[c].pu => PuRefs(u) = PuRefs(s)
  BY <1>7, <1>12
<1>14. ~r.pu /\ s.cu[c].pu => PuRefs(u) = PuRefs(s) - 1
  BY <1>6, <1>7, <1>9
<1>15. r.pu /\ ~s.cu[c].pu => PuRefs(u) = PuRefs(s) + 1
  BY <1>6, <1>7, <1>10
<1>16. PuRefs(s) \in Int
  BY <1>6, <1>7
<1>17. ~r.pu => PuRefs(u) <= PuRefs(s)
  <2>1. ASSUME ~r.pu PROVE PuRefs(u) = PuRefs(s) \/ PuRefs(u) = PuRefs(s) - 1
    BY <1>11, <1>13, <1>14, <2>1
  <2> QED BY <1>16, <2>1
<1> QED BY <1>13, <1>14, <1>15, <1>17

(* Fewer references to the front end are counted.                          *)
LEMMA FewerRefs ==
  ASSUME NEW s \in Server, FrontEnd(s), NEW u, u.pu = s.pu, u.pc = s.pc,
         PuRefs(u) <= PuRefs(s)
  PROVE  FrontEnd(u)
<1>1. s.pu.ref \in Nat /\ PuRefs(u) \in Nat /\ PuRefs(s) \in Nat
  BY ServerType, PuType, PuRefsNat
<1>2. s.pu.alive => s.pu.ref >= PuRefs(u)
  BY <1>1 DEF FrontEnd
<1> QED BY <1>2 DEF FrontEnd

(* The queues of a viewer are as they were.                                *)
LEMMA CuHeldSame ==
  ASSUME NEW s \in Server, NEW u \in Server, NEW c \in Viewers, NEW r \in CuRec,
         u.cu = [s.cu EXCEPT ![c] = r], r.queue = s.cu[c].queue, r.batch = s.cu[c].batch,
         NEW m \in Msgs
  PROVE  CuHeld(u, m) = CuHeld(s, m)
<1>1. /\ CuHeld(u, m) = CuHeld(s, m) - Queued(s.cu[c], m) + Queued(r, m)
      /\ CuHeld(s, m) \in Nat /\ Queued(s.cu[c], m) \in Nat
  BY CuHeldOne
<1>2. Queued(r, m) = Queued(s.cu[c], m)
  BY DEF Queued
<1> QED BY <1>1, <1>2

(* The count of a viewer may become any number that covers its references. *)
LEMMA CuRefSet ==
  ASSUME NEW s, NEW t, NEW n, Good(s, t, n), NEW c \in Viewers, s.cu[c].alive,
         NEW k \in Nat, k >= CuRefs(s, c), NEW u, u = [s EXCEPT !.cu[c].ref = k]
  PROVE  /\ Good(u, t, n) /\ CuSet(u, s, c, [s.cu[c] EXCEPT !.ref = k])
         /\ PuRefs(u) = PuRefs(s)
<1>1. s \in Server /\ s.cu \in [Viewers -> CuRec] /\ s.cu[c] \in CuRec
  BY ServerType DEF Good
<1>2. PICK r : r = [s.cu[c] EXCEPT !.ref = k]
  OBVIOUS
<1>3. /\ r \in CuRec /\ r.ref = k /\ r.alive = s.cu[c].alive /\ r.valid = s.cu[c].valid
      /\ r.pu = s.cu[c].pu /\ r.wrap = s.cu[c].wrap /\ r.queue = s.cu[c].queue
      /\ r.batch = s.cu[c].batch /\ r.found = s.cu[c].found
  BY <1>1, <1>2 DEF CuRec
<1>4. CuSet(u, s, c, r)
  <2>1. u = [s EXCEPT !.cu[c] = r]
    BY <1>1, <1>2
  <2> QED BY <1>1, <1>3, <2>1, SetCu
<1>5. /\ u \in Server /\ u.pu = s.pu /\ u.pc = s.pc /\ u.crashed = s.crashed
      /\ u.runq = s.runq /\ u.ref = s.ref /\ u.cu = [s.cu EXCEPT ![c] = r] /\ u.cu[c] = r
  BY <1>4 DEF CuSet
<1>6. PuRefs(u) = PuRefs(s)
  BY <1>1, <1>3, <1>5, AttachedOne
<1>7. FrontEnd(u)
  BY <1>5, <1>6 DEF Good, FrontEnd
<1>8. Viewer(u, c)
  <2>1. CuRefs(u, c) = CuRefs(s, c)
    BY <1>5 DEF CuRefs
  <2>2. Viewer(s, c) /\ CuRefs(u, c) = CuRefs(s, c)
    BY <2>1 DEF Good
  <2>3. r.alive /\ r.ref >= CuRefs(s, c) /\ r.pu = s.cu[c].pu
    BY <1>3
  <2> QED BY <1>5, <2>2, <2>3 DEF Viewer
<1>9. Counted(u)
  <2>1. \A m \in Msgs : CuHeld(u, m) = CuHeld(s, m)
    BY <1>1, <1>3, <1>5, CuHeldSame
  <2>2. VideoCmd \in Msgs
    BY Names
  <2> QED BY <1>5, <2>1, <2>2 DEF Good, Counted, Held
<1>10. t # <<"send", c>> => (u.pc[<<"send", c>>] = "write" <=> r.batch # <<>>)
  BY <1>3, <1>5 DEF Good, Batches
<1>11. r.pu => s.pu.cmd
  BY <1>3 DEF Good, Video
<1>12. Good(u, t, n)
  BY <1>3, <1>5, <1>7, <1>8, <1>9, <1>10, <1>11, CuChange
<1> QED BY <1>2, <1>4, <1>6, <1>12

(* Only records of viewers and counts of references differ.                *)
CuOnly(u, s) ==
  /\ u \in Server /\ u.pc = s.pc /\ u.pu = s.pu /\ u.runq = s.runq /\ u.crashed = s.crashed

(* A thread gives up a reference to a viewer that it has besides the ones  *)
(* counted: the last one frees it, and none of its threads serves it then. *)
LEMMA GoodCuRelease ==
  ASSUME NEW s, NEW n, Good(s, NoThread, n), NEW c \in Viewers, s.cu[c].alive,
         s.cu[c].ref >= CuRefs(s, c) + 1, NEW u, u = cu_release(s, c)
  PROVE  Good(u, NoThread, n) /\ CuOnly(u, s)
<1>1. /\ s \in Server /\ s.cu \in [Viewers -> CuRec] /\ s.cu[c] \in CuRec /\ s.cu[c].ref \in Nat
      /\ FrontEnd(s) /\ Viewer(s, c) /\ Batches(s, NoThread) /\ Counted(s)
  BY ServerType, CuType DEF Good
<1>2. CuRefs(s, c) \in Nat
  BY CuRefsNat
<1>3. CASE s.cu[c].ref > 1
  <2>1. PICK k : k = s.cu[c].ref - 1
    OBVIOUS
  <2>2. k \in Nat /\ k >= CuRefs(s, c)
    BY <1>1, <1>2, <1>3, <2>1
  <2>3. u = [s EXCEPT !.cu[c].ref = k]
    BY <1>1, <1>3, <2>1 DEF cu_release
  <2>4. Good(u, NoThread, n) /\ CuSet(u, s, c, [s.cu[c] EXCEPT !.ref = k])
    BY <2>2, <2>3, CuRefSet
  <2> QED BY <2>4 DEF CuSet, CuOnly
<1>4. CASE ~(s.cu[c].ref > 1)
  <2>1. CuRefs(s, c) = 0
    BY <1>1, <1>2, <1>4
  <2>2. /\ s.pc[<<"recv", c>>] = "none" /\ s.pc[<<"send", c>>] = "none"
        /\ s.pc[<<"open", c>>] # "wait" /\ s.pc[<<"session", c>>] = "none"
    BY <1>1, <2>1, CuRefsNat DEF Viewer
  <2>3. PICK q : q = s.cu[c].queue
    OBVIOUS
  <2>4. q \in Seq(Msgs)
    BY <1>1, <2>3, CuType
  <2>5. ASSUME NEW m \in Msgs
        PROVE  /\ s.ref[m] >= Held(s, m) /\ Held(s, m) >= Queued(s.cu[c], m)
               /\ s.ref[m] \in Nat /\ Held(s, m) \in Nat /\ Queued(s.cu[c], m) \in Nat
               /\ Queued(s.cu[c], m) >= Copies(q, m) /\ Copies(q, m) \in Nat
               /\ Queued(NoCu, m) = 0
    <3>1. Queued(s.cu[c], m) >= Copies(q, m) /\ Copies(q, m) \in Nat
      BY <1>1, <2>3, CuType, QueuedNat
    <3>2. Queued(NoCu, m) = 0
      <4>1. Copies(<<>>, m) = 0
        <5>1. <<>> \in Seq(Msgs)
          BY EmptySeq
        <5> QED BY <5>1, CopiesFacts
      <4> QED BY <4>1 DEF Queued, NoCu
    <3> QED BY <1>1, <3>1, <3>2, RefCovers
  <2>6. PICK b : b = ReleaseAll(s, q)
    OBVIOUS
  <2>7. \A m \in Msgs : s.ref[m] >= Copies(q, m)
    BY <2>5
  <2>8. RefOnly(b, s) /\ RefLess(b.ref, s.ref, q)
    BY <1>1, <2>4, <2>6, <2>7, ReleaseAllFacts
  <2>9. u = [b EXCEPT !.cu[c] = NoCu]
    BY <1>1, <1>4, <2>3, <2>6 DEF cu_release
  <2>10. NoCu \in CuRec
    BY EmptySeq DEF NoCu, CuRec
  <2>11. /\ u \in Server /\ u.pu = s.pu /\ u.pc = s.pc /\ u.crashed = s.crashed
         /\ u.runq = s.runq /\ u.ref = b.ref /\ u.cu = [s.cu EXCEPT ![c] = NoCu]
         /\ u.cu[c] = NoCu
    <3>1. b \in Server
      BY <2>8 DEF RefOnly
    <3>2. CuSet(u, b, c, NoCu)
      BY <2>9, <2>10, <3>1, SetCu
    <3> QED BY <2>8, <3>2 DEF RefOnly, CuSet
  <2>12. PuRefs(u) <= PuRefs(s)
    <3>1. ~NoCu.pu
      BY DEF NoCu
    <3> QED BY <1>1, <2>10, <2>11, <3>1, AttachedOne
  <2>13. FrontEnd(u)
    BY <1>1, <2>11, <2>12, FewerRefs
  <2>14. Viewer(u, c)
    <3>1. ~NoCu.alive /\ NoCu = [NoCu EXCEPT !.found = NoCu.found]
      BY DEF NoCu
    <3> QED BY <2>2, <2>11, <3>1 DEF Viewer
  <2>15. ASSUME NEW m \in Msgs PROVE u.ref[m] >= Held(u, m) /\ CuHeld(u, m) <= CuHeld(s, m)
    <3>1. /\ CuHeld(u, m) = CuHeld(s, m) - Queued(s.cu[c], m) + Queued(NoCu, m)
          /\ CuHeld(s, m) \in Nat
      BY <1>1, <2>10, <2>11, CuHeldOne
    <3>2. PuHeld(s.pu, m) \in Nat /\ OpenHeld(s.pc, m) \in Nat
      BY <1>1, HeldNat
    <3>3. Held(u, m) = Held(s, m) - Queued(s.cu[c], m)
      BY <2>5, <2>11, <3>1, <3>2 DEF Held
    <3>4. u.ref[m] = s.ref[m] - Copies(q, m)
      BY <2>8, <2>11 DEF RefLess
    <3>5. CuHeld(u, m) <= CuHeld(s, m)
      BY <2>5, <3>1
    <3>6. u.ref[m] >= Held(u, m)
      BY <2>5, <3>3, <3>4
    <3> QED BY <3>5, <3>6
  <2>16. Counted(u)
    <3>1. VideoCmd \in Msgs
      BY Names
    <3>2. CuHeld(u, VideoCmd) \in Nat
      BY <2>11, <3>1, HeldNat
    <3> QED BY <1>1, <2>15, <3>1, <3>2 DEF Counted
  <2>17. ~NoCu.pu /\ NoCu.batch = <<>>
    BY DEF NoCu
  <2>18. Good(u, NoThread, n)
    BY <2>2, <2>10, <2>11, <2>13, <2>14, <2>16, <2>17, CuChange
  <2> QED BY <2>11, <2>18 DEF CuOnly
<1> QED BY <1>3, <1>4

-----------------------------------------------------------------------------
(* Closing a connection: signals, and the reference of the thread.         *)

LEMMA GoodNotify ==
  ASSUME NEW s, NEW t, NEW n, Good(s, t, n), NEW x \in Threads, x # t,
         x = Send /\ s.pc[Send] = "wait" => s.pc[Heart] # "start" /\ s.pc[Open] # "start",
         NEW u, u = notify(s, x)
  PROVE  Good(u, t, n) /\ RunqOnly(u, s)
<1>1. s \in Server /\ Batches(s, t) /\ FrontEnd(s)
  BY DEF Good
<1>2. /\ u \in Server /\ u.pc = s.pc /\ u.pu = s.pu /\ u.cu = s.cu /\ u.ref = s.ref
      /\ u.crashed = s.crashed /\ Woken(u, s, x)
  BY <1>1, NotifyFacts
<1>3. Wakes(u, s, t)
  BY <1>2 DEF Wakes, Woken
<1>4. Quiet(u, s, t)
  <2>1. PuLike(u.pu, s.pu) /\ \A c \in Viewers : CuLike(u.cu[c], s.cu[c])
    BY <1>1, <1>2 DEF PuLike, CuLike, FrontEnd
  <2> QED BY <1>2, <1>3, <2>1 DEF Quiet
<1>5. Batches(u, t)
  BY <1>1, <1>2 DEF Batches
<1>6. Counted(u)
  BY <1>2 DEF Good, Counted, Held, CuHeld
<1> QED BY <1>2, <1>4, <1>5, <1>6, QuietKeeps DEF RunqOnly

(* The front end's socket is closed, and a thread's reference given up.    *)
LEMMA GoodPuClose ==
  ASSUME NEW s, NEW n, Good(s, NoThread, n), s.pu.alive, s.pu.ref >= PuRefs(s) + 1,
         s.pc[Send] = "wait" => s.pc[Heart] # "start" /\ s.pc[Open] # "start",
         NEW u, u = pu_close(s)
  PROVE  Good(u, NoThread, n) /\ u.pc = s.pc /\ u.cu = s.cu
<1>1. s \in Server /\ s.pu \in PuRec /\ FrontEnd(s) /\ Batches(s, NoThread)
  BY ServerType DEF Good
<1>2. CASE ~s.pu.valid
  <2>1. u = pu_release(s)
    BY <1>2 DEF pu_close
  <2> QED BY <2>1, GoodPuRelease DEF PuOnly
<1>3. CASE s.pu.valid
  <2>1. PICK p : p = [s.pu EXCEPT !.valid = FALSE]
    OBVIOUS
  <2>2. /\ p \in PuRec /\ ~p.valid /\ p.alive = s.pu.alive /\ p.id = s.pu.id
        /\ p.ref = s.pu.ref /\ p.cmd = s.pu.cmd /\ p.vec = s.pu.vec
        /\ p.queue = s.pu.queue /\ p.batch = s.pu.batch
    BY <1>1, <2>1 DEF PuRec
  <2>3. PICK v : v = [s EXCEPT !.pu.valid = FALSE]
    OBVIOUS
  <2>4. PuSet(v, s, p)
    <3>1. v = [s EXCEPT !.pu = p]
      BY <2>1, <2>3
    <3> QED BY <1>1, <2>2, <3>1, SetPu
  <2>5. /\ v \in Server /\ v.pu = p /\ v.pc = s.pc /\ v.cu = s.cu /\ v.crashed = s.crashed
        /\ v.runq = s.runq /\ v.ref = s.ref
    BY <2>4 DEF PuSet
  <2>6. Quiet(v, s, NoThread)
    <3>1. PuLike(v.pu, s.pu) /\ \A c \in Viewers : CuLike(v.cu[c], s.cu[c])
      BY <1>1, <2>2, <2>5 DEF PuLike, CuLike, FrontEnd
    <3> QED BY <2>5, <3>1 DEF Quiet, Wakes
  <2>7. Batches(v, NoThread)
    BY <1>1, <2>2, <2>5 DEF Batches
  <2>8. Counted(v)
    <3>1. \A m \in Msgs : PuHeld(p, m) = PuHeld(s.pu, m)
      BY <2>2 DEF PuHeld, Queued
    <3>2. \A m : CuHeld(v, m) = CuHeld(s, m)
      BY <2>5 DEF CuHeld
    <3> QED BY <2>5, <3>1, <3>2 DEF Good, Counted, Held
  <2>9. Good(v, NoThread, n)
    BY <2>6, <2>7, <2>8, QuietKeeps
  <2>10. PICK z : z = notify(v, Send)
    OBVIOUS
  <2>11. Good(z, NoThread, n) /\ RunqOnly(z, v)
    <3>1. Send \in Threads /\ Send # NoThread
      BY Names
    <3>2. v.pc[Send] = "wait" => v.pc[Heart] # "start" /\ v.pc[Open] # "start"
      BY <2>5
    <3> QED BY <2>9, <2>10, <3>1, <3>2, GoodNotify
  <2>12. z.pu = p /\ z.pc = s.pc /\ z.cu = s.cu
    BY <2>5, <2>11 DEF RunqOnly
  <2>13. PuRefs(z) = PuRefs(s)
    BY <2>12 DEF PuRefs, Attached
  <2>14. u = pu_release(z)
    BY <1>3, <2>3, <2>10 DEF pu_close, Send
  <2>15. z.pu.alive /\ z.pu.ref >= PuRefs(z) + 1
    BY <2>2, <2>12, <2>13
  <2>16. Good(u, NoThread, n) /\ PuOnly(u, z)
    BY <2>11, <2>14, <2>15, GoodPuRelease
  <2> QED BY <2>12, <2>16 DEF PuOnly
<1> QED BY <1>2, <1>3

(* A viewer's socket is closed, and a thread's reference given up.         *)
LEMMA GoodCuClose ==
  ASSUME NEW s, NEW n, Good(s, NoThread, n), NEW c \in Viewers, s.cu[c].alive,
         s.cu[c].ref >= CuRefs(s, c) + 1, NEW u, u = cu_close(s, c)
  PROVE  Good(u, NoThread, n)
<1>1. /\ s \in Server /\ s.cu \in [Viewers -> CuRec] /\ s.cu[c] \in CuRec
      /\ FrontEnd(s) /\ Batches(s, NoThread)
  BY ServerType DEF Good
<1>2. CASE ~s.cu[c].valid
  <2>1. u = cu_release(s, c)
    BY <1>2 DEF cu_close
  <2> QED BY <2>1, GoodCuRelease
<1>3. CASE s.cu[c].valid
  <2>1. PICK p : p = [s.cu[c] EXCEPT !.valid = FALSE, !.wrap = FALSE]
    OBVIOUS
  <2>2. /\ p \in CuRec /\ p.alive = s.cu[c].alive /\ p.ref = s.cu[c].ref
        /\ p.pu = s.cu[c].pu /\ p.queue = s.cu[c].queue /\ p.batch = s.cu[c].batch
        /\ p.found = s.cu[c].found
    BY <1>1, <2>1 DEF CuRec
  <2>3. PICK v : v = [s EXCEPT !.cu[c].valid = FALSE, !.cu[c].wrap = FALSE]
    OBVIOUS
  <2>4. CuSet(v, s, c, p)
    <3>1. v = [s EXCEPT !.cu[c] = p]
      BY <1>1, <2>1, <2>3
    <3> QED BY <1>1, <2>2, <3>1, SetCu
  <2>5. /\ v \in Server /\ v.pc = s.pc /\ v.pu = s.pu /\ v.crashed = s.crashed
        /\ v.runq = s.runq /\ v.ref = s.ref /\ v.cu = [s.cu EXCEPT ![c] = p] /\ v.cu[c] = p
        /\ \A d \in Viewers : d # c => v.cu[d] = s.cu[d]
    BY <2>4 DEF CuSet
  <2>6. Quiet(v, s, NoThread)
    <3>1. PuLike(v.pu, s.pu)
      BY <1>1, <2>5 DEF PuLike, FrontEnd
    <3>2. \A d \in Viewers : CuLike(v.cu[d], s.cu[d])
      BY <2>2, <2>5 DEF CuLike
    <3> QED BY <2>5, <3>1, <3>2 DEF Quiet, Wakes
  <2>7. Batches(v, NoThread)
    <3>1. \A d \in Viewers : v.cu[d].batch = s.cu[d].batch
      BY <2>2, <2>5
    <3> QED BY <1>1, <2>5, <3>1 DEF Batches
  <2>8. Counted(v)
    <3>1. \A m \in Msgs : CuHeld(v, m) = CuHeld(s, m)
      BY <1>1, <2>2, <2>5, CuHeldSame
    <3>2. VideoCmd \in Msgs
      BY Names
    <3> QED BY <2>5, <3>1, <3>2 DEF Good, Counted, Held
  <2>9. Good(v, NoThread, n)
    BY <2>6, <2>7, <2>8, QuietKeeps
  <2>10. PICK x, y : x = <<"open", c>> /\ y = <<"send", c>>
    OBVIOUS
  <2>11. x \in Threads /\ y \in Threads /\ x # NoThread /\ y # NoThread /\ x # Send /\ y # Send
    BY <2>10, Names, ViewerNames
  <2>12. PICK z : z = IF s.cu[c].wrap THEN notify(v, x) ELSE v
    OBVIOUS
  <2>13. Good(z, NoThread, n) /\ RunqOnly(z, v)
    <3>1. CASE s.cu[c].wrap
      <4>1. z = notify(v, x)
        BY <2>12, <3>1
      <4> QED BY <2>9, <2>11, <4>1, GoodNotify
    <3>2. CASE ~s.cu[c].wrap
      BY <2>5, <2>9, <2>12, <3>2 DEF RunqOnly
    <3> QED BY <3>1, <3>2
  <2>14. PICK a : a = notify(z, y)
    OBVIOUS
  <2>15. Good(a, NoThread, n) /\ RunqOnly(a, z)
    BY <2>11, <2>13, <2>14, GoodNotify
  <2>16. u = cu_release(a, c)
    BY <1>3, <2>3, <2>10, <2>12, <2>14 DEF cu_close
  <2>17. a.cu[c] = p /\ a.pc = s.pc
    BY <2>5, <2>13, <2>15 DEF RunqOnly
  <2>18. CuRefs(a, c) = CuRefs(s, c)
    BY <2>17 DEF CuRefs
  <2>19. a.cu[c].alive /\ a.cu[c].ref >= CuRefs(a, c) + 1
    BY <2>2, <2>17, <2>18
  <2> QED BY <2>15, <2>16, <2>19, GoodCuRelease
<1> QED BY <1>2, <1>3

-----------------------------------------------------------------------------
(* The threads that read and write: what each does when it stops.          *)

(* While a thread of the front end runs the front end is there.            *)
LEMMA Served ==
  ASSUME NEW s, NEW t \in {Recv, Send, Heart, Open}, NEW n, Good(s, t, n), s.pc[t] # "none"
  PROVE  s.pu.alive /\ s.pc[Ses] # "auth" /\ s.pu \in PuRec /\ s.pu.ref \in Nat
         /\ s.pu.ref >= PuRefs(s) /\ PuRefs(s) \in Nat
<1>1. s.pu \in PuRec /\ s.pu.ref \in Nat
  BY ServerType, PuType DEF Good
<1>2. s.pu.alive /\ s.pc[Ses] # "auth"
  BY DEF Good, FrontEnd, NoneServes
<1> QED BY <1>1, <1>2, PuRefsNat DEF Good, FrontEnd

(* A thread of the front end that may wait or end now, and is not one of   *)
(* its first turns.                                                        *)
DeviceMay(s, t, l) ==
  /\ t \in {Recv, Send, Heart} /\ s.pc[t] # "none" /\ l \in Locs \ {"start"}
  /\ s.pc[Heart] = "start" => t # Heart
  /\ s.pc[Send] = "start" => t # Send
  /\ t = Recv => l \in {"none", "read"}
  /\ t = Send => l \in {"none", "wait", "write"} /\ (l = "write" <=> s.pu.batch # <<>>)
  /\ t = Heart => l \in {"none", "sleep"}

(* A thread of the front end waits or ends.                                *)
LEMMA DeviceWaits ==
  ASSUME NEW s, NEW t, NEW n, Good(s, t, n), NEW l, DeviceMay(s, t, l),
         NEW u, u = [s EXCEPT !.pc[t] = l]
  PROVE  /\ Good(u, NoThread, n) /\ PcSet(u, s, t, l) /\ u.pu.alive
         /\ l # "none" => PuRefs(u) = PuRefs(s)
         /\ l = "none" => PuRefs(u) = PuRefs(s) - 1
         /\ Young(u.pc) <=> Young(s.pc)
<1>0. /\ t \in {Recv, Send, Heart} /\ s.pc[t] # "none" /\ l \in Locs \ {"start"}
      /\ s.pc[Heart] = "start" => t # Heart
      /\ s.pc[Send] = "start" => t # Send
      /\ t = Recv => l \in {"none", "read"}
      /\ t = Send => l \in {"none", "wait", "write"} /\ (l = "write" <=> s.pu.batch # <<>>)
      /\ t = Heart => l \in {"none", "sleep"}
  BY DEF DeviceMay
<1> USE <1>0
<1>1. s \in Server /\ Locations(s.pc) /\ FrontEnd(s) /\ Sessions(s, n) /\ Batches(s, t)
      /\ StartUp(s, t)
  BY DEF Good
<1>2. t \in Threads /\ {Ses, Recv, Send, Heart, Open} \subseteq Threads
  BY Names
<1>3. PcSet(u, s, t, l)
  BY <1>1, <1>2, SetPc
<1>4. /\ u.pu = s.pu /\ u.cu = s.cu /\ u.pc[t] = l
      /\ \A x \in Threads : x # t => u.pc[x] = s.pc[x]
  BY <1>3 DEF PcSet
<1>5. /\ t # Recv => u.pc[Recv] = s.pc[Recv]
      /\ t # Send => u.pc[Send] = s.pc[Send]
      /\ t # Heart => u.pc[Heart] = s.pc[Heart]
      /\ u.pc[Ses] = s.pc[Ses] /\ u.pc[Open] = s.pc[Open]
      /\ \A c \in Viewers : /\ u.pc[<<"session", c>>] = s.pc[<<"session", c>>]
                            /\ u.pc[<<"recv", c>>] = s.pc[<<"recv", c>>]
                            /\ u.pc[<<"send", c>>] = s.pc[<<"send", c>>]
                            /\ u.pc[<<"open", c>>] = s.pc[<<"open", c>>]
  BY <1>2, <1>4, DeviceNames, ViewerNames
<1>6. Locations(u.pc)
  BY <1>1, <1>4, <1>5 DEF Locations
<1>7. s.pu.alive /\ s.pc[Ses] # "auth" /\ s.pu.ref \in Nat /\ s.pu.ref >= PuRefs(s)
      /\ PuRefs(s) \in Nat
  BY Served
<1>8. t = Heart => s.pc[Heart] = "sleep"
  BY <1>1 DEF Locations
<1>9. Attached(u) = Attached(s)
  BY <1>4 DEF Attached
<1>10. /\ l # "none" => PuRefs(u) = PuRefs(s)
       /\ l = "none" => PuRefs(u) = PuRefs(s) - 1
  <2>1. PICK a, e : a = Bit(s.pc[Ses] = "auth") /\ e = Cardinality(Attached(s))
    OBVIOUS
  <2>2. a \in Int /\ e \in Nat
    BY <2>1, PuRefsNat, FS_CardinalityType DEF Bit
  <2>3. PICK b, c, d : b = Bit(s.pc[Recv] # "none") /\ c = Bit(s.pc[Send] # "none")
                       /\ d = Bit(s.pc[Heart] = "sleep")
    OBVIOUS
  <2>4. PICK i, j, k : i = Bit(u.pc[Recv] # "none") /\ j = Bit(u.pc[Send] # "none")
                       /\ k = Bit(u.pc[Heart] = "sleep")
    OBVIOUS
  <2>5. PuRefs(s) = a + b + c + d + e /\ PuRefs(u) = a + i + j + k + e
    BY <1>5, <1>9, <2>1, <2>3, <2>4 DEF PuRefs
  <2>6. b \in {0, 1} /\ c \in {0, 1} /\ d \in {0, 1}
    BY <2>3 DEF Bit
  <2>7. CASE t = Recv
    <3>1. j = c /\ k = d /\ b = 1 /\ (i = IF l = "none" THEN 0 ELSE 1)
      BY <1>4, <1>5, <2>3, <2>4, <2>7, DeviceNames DEF Bit
    <3> QED BY <2>2, <2>5, <2>6, <3>1
  <2>8. CASE t = Send
    <3>1. i = b /\ k = d /\ c = 1 /\ (j = IF l = "none" THEN 0 ELSE 1)
      BY <1>4, <1>5, <2>3, <2>4, <2>8, DeviceNames DEF Bit
    <3> QED BY <2>2, <2>5, <2>6, <3>1
  <2>9. CASE t = Heart
    <3>1. i = b /\ j = c /\ d = 1 /\ (k = IF l = "none" THEN 0 ELSE 1)
      BY <1>4, <1>5, <1>8, <2>3, <2>4, <2>9, DeviceNames DEF Bit
    <3> QED BY <2>2, <2>5, <2>6, <3>1
  <2> QED BY <2>7, <2>8, <2>9
<1>11. Young(u.pc) <=> Young(s.pc)
  BY <1>4, <1>5 DEF Young
<1>12. FrontEnd(u)
  <2>1. PuRefs(u) = PuRefs(s) \/ PuRefs(u) = PuRefs(s) - 1
    BY <1>10
  <2>2. s.pu.ref >= PuRefs(u)
    BY <1>7, <2>1
  <2> QED BY <1>1, <1>4, <1>5, <1>7, <1>11, <2>2 DEF FrontEnd
<1>13. Sessions(u, n)
  BY <1>1, <1>4, <1>5 DEF Sessions
<1>14. u.pc[Send] = "write" <=> u.pu.batch # <<>>
  BY <1>1, <1>4, <1>5 DEF Batches
<1>15. Good(u, NoThread, n)
  <2>1. t \in {Ses, Recv, Send, Heart, Open}
    OBVIOUS
  <2> QED BY <1>3, <1>6, <1>12, <1>13, <1>14, <2>1, DeviceStops
<1> QED BY <1>3, <1>4, <1>7, <1>10, <1>11, <1>15

(* A sender that ends while the front end starts up has not told anybody.  *)
LEMMA RecvAlone ==
  ASSUME NEW s, NEW n, Good(s, Recv, n), s.pc[Send] = "wait"
  PROVE  s.pc[Heart] # "start" /\ s.pc[Open] # "start"
BY DEF Good, StartUp, On, Young

(* The receiving thread of the front end waits for the next message, or    *)
(* ends.                                                                   *)
LEMMA GoodPuRead ==
  ASSUME NEW s, NEW n, Good(s, Recv, n), s.pc[Recv] # "none", NEW fail \in BOOLEAN,
         NEW u, u = PuRead(s, fail)
  PROVE  Good(u, NoThread, n)
<1>1. s.pu.alive /\ s.pu.ref \in Nat /\ s.pu.ref >= PuRefs(s) /\ PuRefs(s) \in Nat
  BY Served
<1>2. CASE ~s.pu.valid \/ fail
  <2>1. PICK v, l : v = [s EXCEPT !.pc[Recv] = l] /\ l = "none"
    OBVIOUS
  <2>2. /\ Good(v, NoThread, n) /\ PcSet(v, s, Recv, l) /\ v.pu.alive
        /\ PuRefs(v) = PuRefs(s) - 1
    <3>1. l \in Locs \ {"start"} /\ l = "none"
      BY <2>1 DEF Locs
    <3>2. Recv \in {Recv, Send, Heart} /\ Recv # Send /\ Recv # Heart
      BY DeviceNames
    <3>3. DeviceMay(s, Recv, l)
      BY <3>1, <3>2 DEF DeviceMay
    <3>4. v = [s EXCEPT !.pc[Recv] = l]
      BY <2>1
    <3>5. Good(v, NoThread, n) /\ PcSet(v, s, Recv, l) /\ v.pu.alive
      BY <3>4, <3>3, DeviceWaits
    <3>6. l = "none" => PuRefs(v) = PuRefs(s) - 1
      BY <3>4, <3>3, DeviceWaits
    <3> QED BY <3>1, <3>5, <3>6
  <2>3. v.pu = s.pu /\ v.pc[Send] = s.pc[Send] /\ v.pc[Heart] = s.pc[Heart]
        /\ v.pc[Open] = s.pc[Open]
    BY <2>2, Names, DeviceNames DEF PcSet
  <2>4. v.pc[Send] = "wait" => v.pc[Heart] # "start" /\ v.pc[Open] # "start"
    BY <2>3, RecvAlone
  <2>5. u = pu_close(v)
    BY <1>2, <2>1 DEF PuRead, End, Recv
  <2>6. v.pu.ref >= PuRefs(v) + 1
    BY <1>1, <2>2, <2>3
  <2> QED BY <2>2, <2>4, <2>5, <2>6, GoodPuClose
<1>3. CASE ~(~s.pu.valid \/ fail)
  <2>1. PICK l : l = "read"
    OBVIOUS
  <2>2. u = [s EXCEPT !.pc[Recv] = l]
    BY <1>3, <2>1 DEF PuRead, At, Recv
  <2>3. l \in Locs \ {"start"} /\ l \in {"none", "read"}
    BY <2>1 DEF Locs
  <2>4. Recv \in {Recv, Send, Heart} /\ Recv # Send /\ Recv # Heart
    BY DeviceNames
  <2>5. DeviceMay(s, Recv, l)
    BY <2>3, <2>4 DEF DeviceMay
  <2> QED BY <2>2, <2>5, DeviceWaits
<1> QED BY <1>2, <1>3

(* The sender waits, or ends and closes the front end.                     *)
LEMMA SendWaits ==
  ASSUME NEW s, NEW n, Good(s, Send, n), s.pc[Send] \in {"wait", "write"},
         NEW l \in {"wait", "write"}, l = "write" <=> s.pu.batch # <<>>,
         NEW u, u = At(s, Send, l)
  PROVE  Good(u, NoThread, n)
<1>1. u = [s EXCEPT !.pc[Send] = l]
  BY DEF At
<1>2. l \in Locs \ {"start"}
  BY DEF Locs
<1>3. Send \in {Recv, Send, Heart} /\ Recv # Send /\ Send # Heart
  BY DeviceNames
<1>4. DeviceMay(s, Send, l)
  BY <1>2, <1>3 DEF DeviceMay
<1> QED BY <1>1, <1>4, DeviceWaits

(* The sending thread of the front end ends, and gives up its reference.   *)
LEMMA SendEnds ==
  ASSUME NEW s, NEW n, Good(s, Send, n), s.pc[Send] \in {"wait", "write"},
         s.pu.batch = <<>>, NEW u, u = pu_close(End(s, Send))
  PROVE  Good(u, NoThread, n)
<1>1. s.pu.alive /\ s.pu.ref \in Nat /\ s.pu.ref >= PuRefs(s) /\ PuRefs(s) \in Nat
  BY Served
<1>2. PICK v, l : v = [s EXCEPT !.pc[Send] = l] /\ l = "none"
  OBVIOUS
<1>3. /\ Good(v, NoThread, n) /\ PcSet(v, s, Send, l) /\ v.pu.alive
      /\ PuRefs(v) = PuRefs(s) - 1
  <2>1. l \in Locs \ {"start"} /\ l = "none"
    BY <1>2 DEF Locs
  <2>2. Send \in {Recv, Send, Heart} /\ Recv # Send /\ Send # Heart
    BY DeviceNames
  <2>3. DeviceMay(s, Send, l)
    BY <2>1, <2>2 DEF DeviceMay
  <2>4. v = [s EXCEPT !.pc[Send] = l]
    BY <1>2
  <2>5. Good(v, NoThread, n) /\ PcSet(v, s, Send, l) /\ v.pu.alive
    BY <2>4, <2>3, DeviceWaits
  <2>6. l = "none" => PuRefs(v) = PuRefs(s) - 1
    BY <2>4, <2>3, DeviceWaits
  <2> QED BY <2>1, <2>5, <2>6
<1>4. v.pu = s.pu /\ v.pc[Send] = "none"
  BY <1>2, <1>3 DEF PcSet
<1>5. u = pu_close(v)
  BY <1>2 DEF End
<1>6. v.pu.ref >= PuRefs(v) + 1
  BY <1>1, <1>3, <1>4
<1> QED BY <1>3, <1>4, <1>5, <1>6, GoodPuClose

(* The sending thread of the front end goes on with its batch, waits, or   *)
(* ends.                                                                   *)
LEMMA GoodPuWrite ==
  ASSUME NEW s, NEW n, Good(s, Send, n), s.pc[Send] \in {"wait", "write"},
         NEW fail \in BOOLEAN, NEW u, u = PuWrite(s, fail)
  PROVE  Good(u, NoThread, n)
<1>1. s.pu.alive
  BY Served
<1>2. CASE s.pu.batch = <<>>
  <2>1. u = At(s, Send, "wait")
    BY <1>2 DEF PuWrite, Send
  <2> QED BY <1>2, <2>1, SendWaits
<1>3. CASE s.pu.batch # <<>> /\ (~s.pu.valid \/ fail)
  <2>1. PICK v : v = [ReleaseAll(s, s.pu.batch) EXCEPT !.pu.batch = <<>>]
    OBVIOUS
  <2>2. Good(v, Send, n) /\ PuQueuesOnly(v, s) /\ v.pu.batch = <<>>
    BY <1>1, <2>1, GoodPuDropped
  <2>3. u = pu_close(End(v, Send))
    BY <1>3, <2>1 DEF PuWrite, Send
  <2>4. v.pc[Send] \in {"wait", "write"}
    BY <2>2 DEF PuQueuesOnly
  <2> QED BY <2>2, <2>3, <2>4, SendEnds
<1>4. CASE s.pu.batch # <<>> /\ ~(~s.pu.valid \/ fail)
  <2>1. u = At(s, Send, "write")
    BY <1>4 DEF PuWrite, Send
  <2> QED BY <1>4, <2>1, SendWaits
<1> QED BY <1>2, <1>3, <1>4

-----------------------------------------------------------------------------
(* New threads.                                                            *)

(* x has been created.                                                     *)
Created(u, s, x) ==
  /\ u \in Server /\ Longer(u.runq, s.runq, x) /\ u.runq # <<>>
  /\ u.pc = [s.pc EXCEPT ![x] = "start"] /\ u.pc[x] = "start"
  /\ \A y \in Threads : y # x => u.pc[y] = s.pc[y]
  /\ u.pu = s.pu /\ u.cu = s.cu /\ u.ref = s.ref /\ u.crashed = s.crashed

(* st_thread_create puts the new thread behind the run queue.              *)
LEMMA CreateFacts ==
  ASSUME NEW s \in Server, NEW x \in Threads, NEW u, u = st_thread_create(s, x)
  PROVE  Created(u, s, x)
<1>1. s.runq \in Seq(Threads)
  BY ServerType
<1>2. PICK q : q = Append(s.runq, x)
  OBVIOUS
<1>3. q \in Seq(Threads) /\ Longer(q, s.runq, x) /\ q # <<>>
  BY <1>1, <1>2, AppendFacts
<1>4. PICK v, l : v = [s EXCEPT !.pc[x] = l] /\ l = "start"
  OBVIOUS
<1>5. l \in Locs
  BY <1>4 DEF Locs
<1>6. PcSet(v, s, x, l)
  BY <1>4, <1>5, SetPc
<1>7. u = [v EXCEPT !.runq = q]
  BY <1>2, <1>4, <1>6 DEF st_thread_create
<1>8. /\ u \in Server /\ u.runq = q /\ u.pc = v.pc /\ u.pu = v.pu /\ u.cu = v.cu
      /\ u.ref = v.ref /\ u.crashed = v.crashed
  BY <1>3, <1>6, <1>7 DEF Server, PcSet
<1> QED BY <1>3, <1>4, <1>6, <1>8 DEF PcSet, Created

(* A new thread waits in the run queue.                                    *)
LEMMA CreateQueueing ==
  ASSUME NEW s \in Server, NEW t, NEW x \in Threads, x # t, s.pc[x] = "none",
         Queueing(s, t), NEW u, u = st_thread_create(s, x)
  PROVE  Queueing(u, t) /\ ~In(x, s.runq)
<1>0. Created(u, s, x)
  BY CreateFacts
<1>1. /\ Longer(u.runq, s.runq, x) /\ u.pc[x] = "start"
      /\ \A y \in Threads : y # x => u.pc[y] = s.pc[y]
  BY <1>0 DEF Created
<1>2. ~In(x, s.runq)
  BY DEF Queueing
<1>3. Distinct(u.runq) /\ \A y : In(y, u.runq) <=> In(y, s.runq) \/ y = x
  BY <1>1, <1>2 DEF Longer, Queueing
<1> QED BY <1>1, <1>2, <1>3 DEF Queueing

(* Threads of the front end have changed, the viewers and theirs have not. *)
LEMMA DeviceChange ==
  ASSUME NEW s, NEW t \in {Ses, Recv, Send, Heart, Open}, NEW n, Good(s, t, n),
         NEW u \in Server, u.cu = s.cu, u.crashed = s.crashed,
         \A c \in Viewers : /\ u.pc[<<"session", c>>] = s.pc[<<"session", c>>]
                            /\ u.pc[<<"recv", c>>] = s.pc[<<"recv", c>>]
                            /\ u.pc[<<"send", c>>] = s.pc[<<"send", c>>]
                            /\ u.pc[<<"open", c>>] = s.pc[<<"open", c>>],
         Queueing(u, NoThread), StartUp(u, NoThread), Locations(u.pc), FrontEnd(u),
         Sessions(u, n), Counted(u), u.pu.vec = s.pu.vec, s.pu.cmd => u.pu.cmd,
         u.pc[Send] = "write" <=> u.pu.batch # <<>>
  PROVE  Good(u, NoThread, n)
<1>1. Video(u)
  BY DEF Good, Video
<1>2. \A c \in Viewers : Viewer(u, c)
  BY ViewerSame DEF Good
<1>3. \A c \in Viewers : t # <<"send", c>>
  BY ViewerNames
<1>4. Batches(u, NoThread)
  BY <1>3 DEF Good, Batches
<1> QED BY <1>1, <1>2, <1>4 DEF Good

(* Only threads of the front end have moved.                               *)
DeviceMoves(p, q) == \A x \in Threads : x \notin {Ses, Recv, Send, Heart, Open} => p[x] = q[x]
ViewersStay(p, q) ==
  \A c \in Viewers : /\ p[<<"session", c>>] = q[<<"session", c>>]
                     /\ p[<<"recv", c>>] = q[<<"recv", c>>]
                     /\ p[<<"send", c>>] = q[<<"send", c>>]
                     /\ p[<<"open", c>>] = q[<<"open", c>>]

(* Then the threads of the viewers are where they were.                    *)
LEMMA DevicePcs == ASSUME NEW p, NEW q, DeviceMoves(p, q) PROVE ViewersStay(p, q)
BY ViewerNames DEF DeviceMoves, ViewersStay

(* The counts, and what refers to messages, are the same.                  *)
HeldAs(u, s) ==
  /\ u.ref = s.ref /\ u.cu = s.cu
  /\ u.pu.queue = s.pu.queue /\ u.pu.batch = s.pu.batch /\ u.pu.cmd = s.pu.cmd
  /\ u.pu.vec = s.pu.vec
  /\ \A c \in Viewers : u.pc[<<"open", c>>] = s.pc[<<"open", c>>]

(* The counts cover what is held when neither has changed.                 *)
LEMMA CountedSame ==
  ASSUME NEW s, NEW u, Counted(s), HeldAs(u, s)
  PROVE  Counted(u)
<1>0. /\ u.ref = s.ref /\ u.cu = s.cu
      /\ u.pu.queue = s.pu.queue /\ u.pu.batch = s.pu.batch /\ u.pu.cmd = s.pu.cmd
      /\ u.pu.vec = s.pu.vec
      /\ \A c \in Viewers : u.pc[<<"open", c>>] = s.pc[<<"open", c>>]
  BY DEF HeldAs
<1> USE <1>0
<1>1. \A m : OpenHeld(u.pc, m) = OpenHeld(s.pc, m)
  BY OpenHeldSame
<1>2. \A m : CuHeld(u, m) = CuHeld(s, m)
  BY DEF CuHeld
<1>3. \A m : PuHeld(u.pu, m) = PuHeld(s.pu, m)
  BY DEF PuHeld, Queued
<1>4. \A m : Held(u, m) = Held(s, m)
  BY <1>1, <1>2, <1>3 DEF Held
<1> QED BY <1>2, <1>4 DEF Counted

(* What the sessions rely on has not changed.                              *)
LEMMA SessionsSame ==
  ASSUME NEW s, NEW u, NEW n, Sessions(s, n), u.pc[Ses] = s.pc[Ses],
         u.pu.alive = s.pu.alive, u.pu.id = s.pu.id, s.pu.cmd => u.pu.cmd,
         \A c \in Viewers : u.cu[c].found = s.cu[c].found,
         \A c \in Viewers : u.pc[<<"session", c>>] = s.pc[<<"session", c>>]
  PROVE  Sessions(u, n)
BY DEF Sessions

(* The running thread of a state leaves the queue to the others.           *)
LEMMA NobodyRuns ==
  ASSUME NEW s \in Server, NEW t \in Threads, Queueing(s, t), s.pc[t] # "start"
  PROVE  Queueing(s, NoThread)
<1>1. s.runq \in Seq(Threads)
  BY ServerType
<1>2. \A x : In(x, s.runq) => x \in Threads
  BY <1>1, LenProperties DEF In
<1> QED BY <1>2, Names DEF Queueing

(* The sender starts: it starts the heartbeat and waits.                   *)
LEMMA SendStarts ==
  ASSUME NEW s, NEW n, Good(s, Send, n), s.pc[Send] = "start",
         NEW u, u = At(st_thread_create(s, Heart), Send, "wait")
  PROVE  Good(u, NoThread, n)
<1>1. /\ s \in Server /\ Queueing(s, Send) /\ Locations(s.pc) /\ StartUp(s, Send)
      /\ FrontEnd(s) /\ Sessions(s, n) /\ Counted(s)
  BY DEF Good
<1>2. {Ses, Recv, Send, Heart, Open} \subseteq Threads
  BY Names
<1>3. s.pc[Heart] = "none" /\ s.pc[Open] = "none" /\ ~On(Recv, s, Send)
  BY <1>1 DEF StartUp, Young, Queueing
<1>4. PICK v : v = st_thread_create(s, Heart)
  OBVIOUS
<1>5. /\ v \in Server /\ Longer(v.runq, s.runq, Heart) /\ v.pc[Heart] = "start"
      /\ \A y \in Threads : y # Heart => v.pc[y] = s.pc[y]
      /\ v.pu = s.pu /\ v.cu = s.cu /\ v.ref = s.ref /\ v.crashed = s.crashed
  <2>1. Created(v, s, Heart)
    BY <1>1, <1>2, <1>4, CreateFacts
  <2> QED BY <2>1 DEF Created
<1>6. Queueing(v, Send)
  BY <1>1, <1>2, <1>3, <1>4, CreateQueueing, DeviceNames
<1>7. PICK l : l = "wait"
  OBVIOUS
<1>8. PcSet(u, v, Send, l)
  <2>1. u = [v EXCEPT !.pc[Send] = l] /\ l \in Locs
    BY <1>4, <1>7 DEF At, Locs
  <2> QED BY <1>2, <1>5, <2>1, SetPc
<1>9. /\ u \in Server /\ u.runq = v.runq /\ u.pu = s.pu /\ u.cu = s.cu /\ u.ref = s.ref
      /\ u.crashed = s.crashed
      /\ \A y \in Threads : y # Send => u.pc[y] = v.pc[y]
  BY <1>5, <1>8 DEF PcSet
<1>10. /\ u.pc[Send] = "wait" /\ u.pc[Heart] = "start" /\ u.pc[Open] = "none"
       /\ u.pc[Ses] = s.pc[Ses] /\ u.pc[Recv] = s.pc[Recv]
       /\ \A x \in Threads : x \notin {Ses, Recv, Send, Heart, Open} => u.pc[x] = s.pc[x]
  BY <1>2, <1>3, <1>5, <1>7, <1>8, <1>9, DeviceNames DEF PcSet
<1>11. \A c \in Viewers : /\ u.pc[<<"session", c>>] = s.pc[<<"session", c>>]
                          /\ u.pc[<<"recv", c>>] = s.pc[<<"recv", c>>]
                          /\ u.pc[<<"send", c>>] = s.pc[<<"send", c>>]
                          /\ u.pc[<<"open", c>>] = s.pc[<<"open", c>>]
  <2>1. DeviceMoves(u.pc, s.pc)
    BY <1>10 DEF DeviceMoves
  <2>2. ViewersStay(u.pc, s.pc)
    BY <2>1, DevicePcs
  <2> QED BY <2>2 DEF ViewersStay
<1>12. \A x : In(x, u.runq) <=> In(x, s.runq) \/ x = Heart
  BY <1>5, <1>9 DEF Longer
<1>13. Queueing(u, NoThread)
  <2>1. Queueing(u, Send)
    BY <1>6, <1>7, <1>8, <1>9 DEF Queueing, PcSet
  <2> QED BY <1>2, <1>9, <1>10, <2>1, NobodyRuns
<1>14. Send # NoThread /\ Recv # NoThread /\ Heart # NoThread
  BY <1>2, Names
<1>15. StartUp(u, NoThread)
  <2>1. ~In(Recv, s.runq) /\ ~In(Send, s.runq)
    BY <1>1, <1>3 DEF On, Queueing
  <2> QED BY <1>10, <1>12, <1>14, <2>1, DeviceNames DEF StartUp, On
<1>16. Locations(u.pc)
  BY <1>1, <1>10, <1>11 DEF Locations
<1>17. PuRefs(u) = PuRefs(s)
  <2>1. Attached(u) = Attached(s)
    BY <1>9 DEF Attached
  <2>2. /\ Bit(u.pc[Send] # "none") = Bit(s.pc[Send] # "none")
        /\ Bit(u.pc[Heart] = "sleep") = Bit(s.pc[Heart] = "sleep")
    BY <1>3, <1>10 DEF Bit
  <2> QED BY <1>10, <2>1, <2>2 DEF PuRefs
<1>18. FrontEnd(u)
  BY <1>1, <1>9, <1>10, <1>17 DEF FrontEnd, Young, NoneServes
<1>19. Sessions(u, n)
  <2>1. \A c \in Viewers : u.cu[c].found = s.cu[c].found
    BY <1>9
  <2>2. \A c \in Viewers : u.pc[<<"session", c>>] = s.pc[<<"session", c>>]
    BY <1>11
  <2>3. u.pu.alive = s.pu.alive /\ u.pu.id = s.pu.id /\ u.pu.cmd = s.pu.cmd
    BY <1>9
  <2> QED BY <1>1, <1>10, <2>1, <2>2, <2>3, SessionsSame
<1>20. Counted(u)
  <2>1. /\ u.pu.queue = s.pu.queue /\ u.pu.batch = s.pu.batch /\ u.pu.cmd = s.pu.cmd
        /\ u.pu.vec = s.pu.vec
    BY <1>9
  <2>2. \A c \in Viewers : u.pc[<<"open", c>>] = s.pc[<<"open", c>>]
    BY <1>11
  <2>3. HeldAs(u, s)
    BY <1>9, <2>1, <2>2 DEF HeldAs
  <2> QED BY <1>1, <2>3, CountedSame
<1>21. u.pu.batch = <<>>
  <2>1. ~s.pu.cmd
    BY <1>1 DEF FrontEnd, Young
  <2> QED BY <1>1, <1>9, <2>1 DEF FrontEnd
<1> QED BY <1>9, <1>10, <1>11, <1>13, <1>15, <1>16, <1>18, <1>19, <1>20, <1>21, DeviceChange

(* A turn of the sending thread of the front end keeps the invariant.      *)
LEMMA GoodPuSendThread ==
  ASSUME NEW s, NEW n, Good(s, Send, n), s.pc[Send] # "none",
         s.pc[Send] = "write" <=> s.pu.batch # <<>>, NEW fail \in BOOLEAN,
         NEW u, u = pu_handle_send(s, fail)
  PROVE  Good(u, NoThread, n)
<1>1. s.pc[Send] \in {"start", "wait", "write"} /\ s.pu.alive
  BY Served DEF Good, Locations
<1>2. CASE s.pc[Send] = "start"
  <2>1. u = At(st_thread_create(s, Heart), Send, "wait")
    BY <1>2 DEF pu_handle_send, Send, Heart
  <2> QED BY <1>2, <2>1, SendStarts
<1>3. CASE s.pc[Send] = "wait"
  <2>1. u = IF ~s.pu.valid THEN pu_close(End(s, Send)) ELSE PuWrite(pu_backup(s), fail)
    BY <1>3 DEF pu_handle_send, Send
  <2>2. CASE ~s.pu.valid
    BY <1>3, <2>1, <2>2, SendEnds
  <2>3. CASE s.pu.valid
    <3>1. PICK v : v = pu_backup(s)
      OBVIOUS
    <3>2. Good(v, Send, n) /\ PuQueuesOnly(v, s)
      BY <1>1, <1>3, <3>1, GoodPuBackup
    <3>3. v.pc[Send] \in {"wait", "write"} /\ u = PuWrite(v, fail)
      BY <1>3, <2>1, <2>3, <3>1, <3>2 DEF PuQueuesOnly
    <3> QED BY <3>2, <3>3, GoodPuWrite
  <2> QED BY <2>2, <2>3
<1>4. CASE s.pc[Send] = "write"
  <2>1. PICK v : v = [ReleaseMsg(s, Head(s.pu.batch)) EXCEPT !.pu.batch = Tail(@)]
    OBVIOUS
  <2>2. u = PuWrite(v, fail)
    BY <1>4, <2>1 DEF pu_handle_send, Send
  <2>3. Good(v, Send, n) /\ PuQueuesOnly(v, s)
    BY <1>1, <1>4, <2>1, GoodPuWritten
  <2>4. v.pc[Send] \in {"wait", "write"}
    BY <1>4, <2>3 DEF PuQueuesOnly
  <2> QED BY <2>2, <2>3, <2>4, GoodPuWrite
<1> QED BY <1>1, <1>2, <1>3, <1>4

(* Before the front end has its video command no viewer is attached to it. *)
LEMMA NoVideo ==
  ASSUME NEW s, NEW t, NEW n, Good(s, t, n), ~s.pu.cmd
  PROVE  /\ s.pu.vec = <<>> /\ Len(s.pu.vec) = 0 /\ Attached(s) = {}
         /\ s.pu.queue = <<>> /\ s.pu.batch = <<>>
         /\ \A m \in Msgs : PuHeld(s.pu, m) = 0
<1>1. s \in Server /\ s.pu \in PuRec /\ Video(s) /\ FrontEnd(s)
  BY ServerType DEF Good
<1>2. \A c \in Viewers : ~s.cu[c].pu
  BY <1>1 DEF Video
<1>3. \A c \in Viewers : s.pc[<<"open", c>>] # "wait"
  BY <1>2 DEF Good, Viewer
<1>4. s.pu.vec \in Seq(Viewers) /\ \A c \in Viewers : ~In(c, s.pu.vec)
  BY <1>1, <1>3, PuType DEF Video
<1>5. Len(s.pu.vec) = 0
  <2> SUFFICES ASSUME Len(s.pu.vec) # 0 PROVE FALSE
    OBVIOUS
  <2>1. Len(s.pu.vec) \in Nat
    BY <1>4, LenProperties
  <2>2. 1 \in 1..Len(s.pu.vec)
    BY <2>1
  <2>3. s.pu.vec[1] \in Viewers
    BY <1>4, <2>2, ElementOfSeq
  <2> QED BY <1>4, <2>2, <2>3 DEF In
<1>6. s.pu.vec = <<>>
  BY <1>4, <1>5, EmptySeq
<1>7. s.pu.queue = <<>> /\ s.pu.batch = <<>>
  BY <1>1 DEF FrontEnd
<1>8. ASSUME NEW m \in Msgs PROVE PuHeld(s.pu, m) = 0
  <2>1. PICK e : e = <<>>
    OBVIOUS
  <2>2. Copies(e, m) = 0
    <3>1. e \in Seq(Msgs)
      BY <2>1, EmptySeq
    <3> QED BY <2>1, <3>1, CopiesFacts
  <2>3. Queued(s.pu, m) = 0
    BY <1>7, <2>1, <2>2 DEF Queued
  <2> QED BY <2>3 DEF PuHeld
<1> QED BY <1>2, <1>5, <1>6, <1>7, <1>8 DEF Attached

(* The heartbeat starts: it starts the open command, counts a reference    *)
(* and sleeps.                                                             *)
LEMMA HeartStarts ==
  ASSUME NEW s, NEW n, Good(s, Heart, n), s.pc[Heart] = "start",
         NEW u, u = At([st_thread_create(s, Open) EXCEPT !.pu.ref = @ + 1], Heart, "sleep")
  PROVE  Good(u, NoThread, n)
<1>1. /\ s \in Server /\ s.pu \in PuRec /\ Queueing(s, Heart) /\ Locations(s.pc)
      /\ StartUp(s, Heart) /\ FrontEnd(s) /\ Sessions(s, n) /\ Counted(s) /\ Batches(s, Heart)
  BY ServerType DEF Good
<1>2. {Ses, Recv, Send, Heart, Open} \subseteq Threads
  BY Names
<1>3. s.pc[Open] = "none" /\ s.pc[Send] = "wait" /\ ~On(Send, s, Heart) /\ ~On(Recv, s, Heart)
  BY <1>1 DEF StartUp, Young
<1>4. s.pu.alive /\ s.pc[Ses] # "auth" /\ s.pu.ref \in Nat /\ s.pu.ref >= PuRefs(s)
      /\ PuRefs(s) \in Nat
  BY Served
<1>5. PICK v : v = st_thread_create(s, Open)
  OBVIOUS
<1>6. /\ v \in Server /\ Longer(v.runq, s.runq, Open) /\ v.pc[Open] = "start"
      /\ \A y \in Threads : y # Open => v.pc[y] = s.pc[y]
      /\ v.pu = s.pu /\ v.cu = s.cu /\ v.ref = s.ref /\ v.crashed = s.crashed
  <2>1. Created(v, s, Open)
    BY <1>1, <1>2, <1>5, CreateFacts
  <2> QED BY <2>1 DEF Created
<1>7. Queueing(v, Heart)
  BY <1>1, <1>2, <1>3, <1>5, CreateQueueing, DeviceNames
<1>8. PICK p, k : p = [s.pu EXCEPT !.ref = k] /\ k = s.pu.ref + 1
  OBVIOUS
<1>9. /\ p \in PuRec /\ p.ref = s.pu.ref + 1 /\ p.alive = s.pu.alive /\ p.id = s.pu.id
      /\ p.valid = s.pu.valid /\ p.cmd = s.pu.cmd /\ p.vec = s.pu.vec
      /\ p.queue = s.pu.queue /\ p.batch = s.pu.batch
  <2>1. k \in Nat
    BY <1>4, <1>8
  <2> QED BY <1>1, <1>8, <2>1 DEF PuRec
<1>10. PICK x : x = [v EXCEPT !.pu.ref = @ + 1]
  OBVIOUS
<1>11. PuSet(x, v, p)
  <2>1. x = [v EXCEPT !.pu = p]
    BY <1>6, <1>8, <1>10
  <2> QED BY <1>6, <1>9, <2>1, SetPu
<1>12. /\ x \in Server /\ x.pu = p /\ x.pc = v.pc /\ x.cu = s.cu /\ x.crashed = s.crashed
       /\ x.runq = v.runq /\ x.ref = s.ref
  BY <1>6, <1>11 DEF PuSet
<1>13. PICK l : l = "sleep"
  OBVIOUS
<1>14. PcSet(u, x, Heart, l)
  <2>1. u = [x EXCEPT !.pc[Heart] = l] /\ l \in Locs
    BY <1>5, <1>10, <1>13 DEF At, Locs
  <2> QED BY <1>2, <1>12, <2>1, SetPc
<1>15. /\ u \in Server /\ u.runq = v.runq /\ u.pu = p /\ u.cu = s.cu /\ u.ref = s.ref
       /\ u.crashed = s.crashed
       /\ \A y \in Threads : y # Heart => u.pc[y] = v.pc[y]
  BY <1>12, <1>14 DEF PcSet
<1>16. /\ u.pc[Send] = "wait" /\ u.pc[Heart] = "sleep" /\ u.pc[Open] = "start"
       /\ u.pc[Ses] = s.pc[Ses] /\ u.pc[Recv] = s.pc[Recv]
       /\ \A y \in Threads : y \notin {Ses, Recv, Send, Heart, Open} => u.pc[y] = s.pc[y]
  BY <1>2, <1>3, <1>6, <1>13, <1>14, <1>15, DeviceNames DEF PcSet
<1>17. \A c \in Viewers :
                          /\ u.pc[<<"session", c>>] = s.pc[<<"session", c>>]
                          /\ u.pc[<<"recv", c>>] = s.pc[<<"recv", c>>]
                          /\ u.pc[<<"send", c>>] = s.pc[<<"send", c>>]
                          /\ u.pc[<<"open", c>>] = s.pc[<<"open", c>>]
  <2>1. DeviceMoves(u.pc, s.pc)
    BY <1>16 DEF DeviceMoves
  <2>2. ViewersStay(u.pc, s.pc)
    BY <2>1, DevicePcs
  <2> QED BY <2>2 DEF ViewersStay
<1>18. \A y : In(y, u.runq) <=> In(y, s.runq) \/ y = Open
  BY <1>6, <1>15 DEF Longer
<1>19. Queueing(u, NoThread)
  <2>1. Queueing(u, Heart)
    BY <1>7, <1>12, <1>13, <1>14, <1>15 DEF Queueing, PcSet
  <2> QED BY <1>2, <1>15, <1>16, <2>1, NobodyRuns
<1>20. Send # NoThread /\ Recv # NoThread /\ Heart # NoThread
  BY <1>2, Names
<1>21. StartUp(u, NoThread)
  <2>1. ~In(Recv, s.runq) /\ ~In(Send, s.runq) /\ ~In(Heart, s.runq)
    BY <1>1, <1>3 DEF On, Queueing
  <2> QED BY <1>16, <1>18, <1>20, <2>1, DeviceNames DEF StartUp, On
<1>22. Locations(u.pc)
  BY <1>1, <1>16, <1>17 DEF Locations
<1>23. PuRefs(u) = PuRefs(s) + 1
  <2>1. Attached(u) = Attached(s)
    BY <1>15 DEF Attached
  <2>2. PICK a, b, c, e : a = Bit(s.pc[Ses] = "auth") /\ b = Bit(s.pc[Recv] # "none")
                          /\ c = Bit(s.pc[Send] # "none") /\ e = Cardinality(Attached(s))
    OBVIOUS
  <2>3. a \in Nat /\ b \in Nat /\ c \in Nat /\ e \in Nat
    BY <2>2, PuRefsNat, FS_CardinalityType DEF Bit
  <2>4. /\ Bit(u.pc[Send] # "none") = c
        /\ Bit(s.pc[Heart] = "sleep") = 0 /\ Bit(u.pc[Heart] = "sleep") = 1
    BY <1>3, <1>16, <2>2 DEF Bit
  <2>5. PuRefs(s) = a + b + c + 0 + e /\ PuRefs(u) = a + b + c + 1 + e
    BY <1>16, <2>1, <2>2, <2>4 DEF PuRefs
  <2> QED BY <2>3, <2>5
<1>24. FrontEnd(u)
  <2>1. u.pu.ref >= PuRefs(u)
    BY <1>4, <1>9, <1>15, <1>23
  <2> QED BY <1>1, <1>4, <1>9, <1>15, <1>16, <2>1 DEF FrontEnd, Young, NoneServes
<1>25. Sessions(u, n)
  <2>1. \A c \in Viewers : u.cu[c].found = s.cu[c].found
    BY <1>15
  <2>2. \A c \in Viewers : u.pc[<<"session", c>>] = s.pc[<<"session", c>>]
    BY <1>17
  <2>3. u.pu.alive = s.pu.alive /\ u.pu.id = s.pu.id /\ u.pu.cmd = s.pu.cmd
    BY <1>9, <1>15
  <2> QED BY <1>1, <1>16, <2>1, <2>2, <2>3, SessionsSame
<1>26. Counted(u)
  <2>1. /\ u.pu.queue = s.pu.queue /\ u.pu.batch = s.pu.batch /\ u.pu.cmd = s.pu.cmd
        /\ u.pu.vec = s.pu.vec
    BY <1>9, <1>15
  <2>2. \A c \in Viewers : u.pc[<<"open", c>>] = s.pc[<<"open", c>>]
    BY <1>17
  <2>3. HeldAs(u, s)
    BY <1>15, <2>1, <2>2 DEF HeldAs
  <2> QED BY <1>1, <2>3, CountedSame
<1>27. u.pu.batch = <<>>
  <2>1. ~s.pu.cmd
    BY <1>1 DEF FrontEnd, Young
  <2> QED BY <1>9, <1>15, <2>1, NoVideo
<1>28. u.pu.vec = s.pu.vec /\ (s.pu.cmd => u.pu.cmd)
  BY <1>9, <1>15
<1>29. u \in Server /\ u.cu = s.cu /\ u.crashed = s.crashed
  BY <1>15
<1>30. u.pc[Send] = "write" <=> u.pu.batch # <<>>
  BY <1>16, <1>27
<1>31. Heart \in {Ses, Recv, Send, Heart, Open}
  OBVIOUS
<1> QED BY <1>17, <1>19, <1>21, <1>22, <1>24, <1>25, <1>26, <1>28, <1>29, <1>30, <1>31,
           DeviceChange

(* A second of the heartbeat has passed.                                   *)
LEMMA PuTicks ==
  ASSUME NEW s, NEW t, NEW n, Good(s, t, n), s.pu.alive, NEW k \in Nat,
         NEW u, u = [s EXCEPT !.pu.ticks = k]
  PROVE  Good(u, t, n) /\ u.pc = s.pc
<1>1. s \in Server /\ s.pu \in PuRec /\ FrontEnd(s) /\ Batches(s, t)
  BY ServerType DEF Good
<1>2. PICK p : p = [s.pu EXCEPT !.ticks = k]
  OBVIOUS
<1>3. /\ p \in PuRec /\ p.ref = s.pu.ref /\ p.alive = s.pu.alive /\ p.id = s.pu.id
      /\ p.valid = s.pu.valid /\ p.cmd = s.pu.cmd /\ p.vec = s.pu.vec
      /\ p.queue = s.pu.queue /\ p.batch = s.pu.batch
  BY <1>1, <1>2 DEF PuRec
<1>4. PuSet(u, s, p)
  <2>1. u = [s EXCEPT !.pu = p]
    BY <1>2
  <2> QED BY <1>1, <1>3, <2>1, SetPu
<1>5. /\ u \in Server /\ u.pu = p /\ u.pc = s.pc /\ u.cu = s.cu /\ u.crashed = s.crashed
      /\ u.runq = s.runq /\ u.ref = s.ref
  BY <1>4 DEF PuSet
<1>6. Quiet(u, s, t)
  <2>1. PuLike(u.pu, s.pu) /\ \A c \in Viewers : CuLike(u.cu[c], s.cu[c])
    BY <1>1, <1>3, <1>5 DEF PuLike, CuLike, FrontEnd
  <2> QED BY <1>5, <2>1 DEF Quiet, Wakes
<1>7. Batches(u, t)
  BY <1>1, <1>3, <1>5 DEF Batches
<1>8. Counted(u)
  <2>1. /\ u.pu.queue = s.pu.queue /\ u.pu.batch = s.pu.batch /\ u.pu.cmd = s.pu.cmd
        /\ u.pu.vec = s.pu.vec
    BY <1>3, <1>5
  <2>2. \A c \in Viewers : u.pc[<<"open", c>>] = s.pc[<<"open", c>>]
    BY <1>5
  <2>3. Counted(s) /\ u.ref = s.ref /\ u.cu = s.cu
    BY <1>5 DEF Good
  <2>4. HeldAs(u, s)
    BY <2>1, <2>2, <2>3 DEF HeldAs
  <2> QED BY <2>3, <2>4, CountedSame
<1> QED BY <1>5, <1>6, <1>7, <1>8, QuietKeeps

(* The heartbeat sleeps again, once it has queued its message.             *)
LEMMA HeartBeats ==
  ASSUME NEW s, NEW n, Good(s, Heart, n), s.pc[Heart] = "sleep", NEW k \in Nat,
         NEW u, u = At([IF k = 0 THEN HeartBeat(s) ELSE s EXCEPT !.pu.ticks = k],
                       Heart, "sleep")
  PROVE  Good(u, NoThread, n)
<1>1. s \in Server /\ FrontEnd(s) /\ StartUp(s, Heart) /\ Locations(s.pc)
  BY DEF Good
<1>2. s.pu.alive /\ s.pc[Ses] # "auth"
  BY Served
<1>3. s.pc[Send] # "start" /\ s.pc[Open] # "start"
  BY <1>1 DEF StartUp, On
<1>4. s.pu.cmd
  BY <1>1, <1>2, <1>3 DEF FrontEnd, Young
<1>5. PICK b : b = IF k = 0 THEN HeartBeat(s) ELSE s
  OBVIOUS
<1>6. Good(b, Heart, n) /\ b.pc = s.pc /\ b.pu.alive
  <2>1. CASE k = 0
    <3>1. PICK a : a = AddMsg(s, Beat)
      OBVIOUS
    <3>2. Beat \in Msgs
      BY Names
    <3>3. Good(a, Heart, n) /\ RefOnly(a, s) /\ Spare(a, Beat) = Spare(s, Beat) + 1
      BY <3>1, <3>2, GoodAddMsg
    <3>4. Spare(s, Beat) \in Nat
      BY <3>2, SpareInt
    <3>5. Spare(a, Beat) >= 1
      BY <3>3, <3>4
    <3>6. a.pc = s.pc /\ a.pu = s.pu
      BY <3>3 DEF RefOnly
    <3>7. b = pu_send_msg(a, Beat)
      BY <1>5, <2>1, <3>1 DEF HeartBeat
    <3>8. a.pu.cmd /\ a.pc[Heart] # "start" /\ a.pc[Open] # "start" /\ Heart # Send
      BY <1>3, <1>4, <3>6, DeviceNames
    <3>9. Good(b, Heart, n) /\ PuSent(b, a, Beat)
      BY <3>2, <3>3, <3>5, <3>7, <3>8, GoodPuSend
    <3>10. b.pc = s.pc
      BY <3>6, <3>9 DEF PuSent
    <3>11. b.pu.alive
      BY <3>9, <3>10, Served
    <3> QED BY <3>9, <3>10, <3>11
  <2>2. CASE k # 0
    BY <1>2, <1>5, <2>2
  <2> QED BY <2>1, <2>2
<1>7. PICK x : x = [b EXCEPT !.pu.ticks = k]
  OBVIOUS
<1>8. Good(x, Heart, n) /\ x.pc = b.pc
  BY <1>6, <1>7, PuTicks
<1>9. PICK l : l = "sleep"
  OBVIOUS
<1>10. u = [x EXCEPT !.pc[Heart] = l]
  BY <1>5, <1>7, <1>9 DEF At
<1>11. l \in Locs \ {"start"}
  BY <1>9 DEF Locs
<1>12. Heart \in {Recv, Send, Heart} /\ Heart # Recv /\ Heart # Send
  BY DeviceNames
<1>13. x.pc[Heart] = "sleep"
  BY <1>6, <1>8
<1>14. DeviceMay(x, Heart, l)
  BY <1>9, <1>11, <1>12, <1>13 DEF DeviceMay
<1> QED BY <1>8, <1>10, <1>14, DeviceWaits

(* A turn of the heartbeat keeps the invariant.                            *)
LEMMA GoodHeartThread ==
  ASSUME NEW s, NEW n, Good(s, Heart, n), s.pc[Heart] # "none", NEW u, u = heart_thread(s)
  PROVE  Good(u, NoThread, n)
<1>1. s.pc[Heart] \in {"start", "sleep"}
  BY DEF Good, Locations
<1>2. CASE s.pc[Heart] = "start"
  <2>1. u = At([st_thread_create(s, Open) EXCEPT !.pu.ref = @ + 1], Heart, "sleep")
    BY <1>2 DEF heart_thread, Heart, Open
  <2> QED BY <1>2, <2>1, HeartStarts
<1>3. CASE s.pc[Heart] = "sleep" /\ ~s.pu.valid
  <2>1. PICK v, l : v = [s EXCEPT !.pc[Heart] = l] /\ l = "none"
    OBVIOUS
  <2>2. /\ Good(v, NoThread, n) /\ PcSet(v, s, Heart, l) /\ v.pu.alive
        /\ PuRefs(v) = PuRefs(s) - 1
    <3>1. l \in Locs \ {"start"} /\ l = "none"
      BY <2>1 DEF Locs
    <3>2. Heart \in {Recv, Send, Heart} /\ Heart # Recv /\ Heart # Send
      BY DeviceNames
    <3>3. DeviceMay(s, Heart, l)
      BY <1>3, <3>1, <3>2 DEF DeviceMay
    <3>4. v = [s EXCEPT !.pc[Heart] = l]
      BY <2>1
    <3>5. Good(v, NoThread, n) /\ PcSet(v, s, Heart, l) /\ v.pu.alive
      BY <3>4, <3>3, DeviceWaits
    <3>6. l = "none" => PuRefs(v) = PuRefs(s) - 1
      BY <3>4, <3>3, DeviceWaits
    <3> QED BY <3>1, <3>5, <3>6
  <2>3. s.pu.ref \in Nat /\ s.pu.ref >= PuRefs(s) /\ PuRefs(s) \in Nat
    BY <1>3, Served
  <2>4. v.pu = s.pu
    BY <2>2 DEF PcSet
  <2>5. v.pu.ref >= PuRefs(v) + 1
    BY <2>2, <2>3, <2>4
  <2>6. u = pu_release(v)
    BY <1>3, <2>1 DEF heart_thread, End, Heart
  <2> QED BY <2>2, <2>5, <2>6, GoodPuRelease
<1>4. CASE s.pc[Heart] = "sleep" /\ s.pu.valid
  <2>1. PICK k : k = (s.pu.ticks + 1) % HeartTicks
    OBVIOUS
  <2>2. s.pu \in PuRec
    BY ServerType DEF Good
  <2>3. k \in Nat
    <3>1. s.pu.ticks + 1 \in Nat
      BY <2>2, PuType
    <3>2. PICK j : j = s.pu.ticks + 1
      OBVIOUS
    <3> QED BY <2>1, <3>1, <3>2, NvsAssumption
  <2>4. u = At([IF k = 0 THEN HeartBeat(s) ELSE s EXCEPT !.pu.ticks = k], Heart, "sleep")
    BY <1>4, <2>1 DEF heart_thread, Heart
  <2> QED BY <1>4, <2>3, <2>4, HeartBeats
<1> QED BY <1>1, <1>2, <1>3, <1>4

(* The open command of a front end: it has the video command from then on. *)
Commanded(s) ==
  [End(s, Open) EXCEPT !.pu.ref = @ + 1, !.pu.cmd = TRUE, !.ref[VideoCmd] = 2]

(* What becomes of a state s whose thread has ended in v.                  *)
CommandedFrom(u, v, s) ==
  /\ u \in Server /\ u.runq = s.runq /\ u.cu = s.cu /\ u.crashed = s.crashed
  /\ u.pc = v.pc
  /\ u.pu.ref = s.pu.ref + 1 /\ u.pu.cmd /\ u.pu.alive = s.pu.alive
  /\ u.pu.id = s.pu.id /\ u.pu.valid = s.pu.valid /\ u.pu.vec = s.pu.vec
  /\ u.pu.queue = s.pu.queue /\ u.pu.batch = s.pu.batch
  /\ u.ref[VideoCmd] = 2 /\ \A m \in Msgs : m # VideoCmd => u.ref[m] = s.ref[m]

(* Commanded, as changes of the counts and of the thread.                  *)
LEMMA CommandedIs ==
  ASSUME NEW s \in Server, NEW u, u = Commanded(s), NEW v, NEW l,
         v = [s EXCEPT !.pc[Open] = l], l = "none"
  PROVE  PcSet(v, s, Open, l) /\ CommandedFrom(u, v, s)
<1>1. s.pu \in PuRec /\ s.ref \in [Msgs -> Nat] /\ s.pu.ref \in Nat
  BY ServerType, PuType
<1>3. PcSet(v, s, Open, l)
  <2>1. l \in Locs
    BY DEF Locs
  <2> QED BY <2>1, SetPc, Names
<1>4. PICK p, k, b : p = [s.pu EXCEPT !.ref = k, !.cmd = b] /\ k = s.pu.ref + 1 /\ b = TRUE
  OBVIOUS
<1>5. k \in Nat /\ b \in BOOLEAN
  BY <1>1, <1>4
<1>6. /\ p \in PuRec /\ p.ref = k /\ p.cmd = b /\ p.alive = s.pu.alive /\ p.id = s.pu.id
      /\ p.valid = s.pu.valid /\ p.vec = s.pu.vec
      /\ p.queue = s.pu.queue /\ p.batch = s.pu.batch
  BY <1>1, <1>4, <1>5 DEF PuRec
<1>7. PICK f, two : f = [s.ref EXCEPT ![VideoCmd] = two] /\ two = 2
  OBVIOUS
<1>8. /\ f \in [Msgs -> Nat] /\ f[VideoCmd] = 2
      /\ \A m \in Msgs : m # VideoCmd => f[m] = s.ref[m]
  BY <1>1, <1>7, Names
<1>9. v \in Server /\ v.pu = s.pu /\ v.ref = s.ref
  BY <1>3 DEF PcSet
<1>10. u = [v EXCEPT !.pu = p, !.ref = f]
  <2>1. u = [v EXCEPT !.pu.ref = @ + 1, !.pu.cmd = b, !.ref[VideoCmd] = two]
    BY <1>4, <1>7 DEF Commanded, End
  <2>2. u = [[v EXCEPT !.pu.ref = k, !.pu.cmd = b] EXCEPT !.ref[VideoCmd] = two]
    BY <1>4, <1>9, <2>1
  <2>3. [v EXCEPT !.pu.ref = k, !.pu.cmd = b] = [v EXCEPT !.pu = p]
    BY <1>1, <1>4, <1>9
  <2>4. [[v EXCEPT !.pu = p] EXCEPT !.ref[VideoCmd] = two] = [v EXCEPT !.pu = p, !.ref = f]
    BY <1>7, <1>9 DEF Server
  <2> QED BY <2>2, <2>3, <2>4
<1>11. /\ u \in Server /\ u.runq = v.runq /\ u.cu = v.cu /\ u.crashed = v.crashed
       /\ u.pc = v.pc /\ u.pu = p /\ u.ref = f
  BY <1>6, <1>8, <1>9, <1>10 DEF Server
<1> QED BY <1>3, <1>4, <1>6, <1>8, <1>11 DEF PcSet, CommandedFrom

(* The thread that sends the device its video command keeps the invariant. *)
LEMMA OpenCommand ==
  ASSUME NEW s, NEW n, Good(s, Open, n), s.pc[Open] # "none", NEW u, u = handle_open_video(s)
  PROVE  Good(u, NoThread, n)
<1>1. /\ s \in Server /\ s.pu \in PuRec /\ Locations(s.pc) /\ StartUp(s, Open) /\ FrontEnd(s)
      /\ Sessions(s, n) /\ Counted(s) /\ Batches(s, Open)
  BY ServerType DEF Good
<1>2. {Ses, Recv, Send, Heart, Open} \subseteq Threads
  BY Names
<1>3. s.pc[Open] = "start" /\ s.pc[Heart] = "sleep" /\ s.pc[Send] = "wait" /\ ~s.pu.cmd
  BY <1>1 DEF Locations, StartUp, FrontEnd, Young
<1>4. s.pu.alive /\ s.pc[Ses] # "auth" /\ s.pu.ref \in Nat /\ s.pu.ref >= PuRefs(s)
      /\ PuRefs(s) \in Nat
  BY Served
<1>5. PICK y, v, l : y = Commanded(s) /\ v = [s EXCEPT !.pc[Open] = l] /\ l = "none"
  OBVIOUS
<1>6. /\ PcSet(v, s, Open, l)
      /\ y \in Server /\ y.runq = s.runq /\ y.cu = s.cu /\ y.crashed = s.crashed
      /\ y.pc = v.pc
      /\ y.pu.ref = s.pu.ref + 1 /\ y.pu.cmd /\ y.pu.alive = s.pu.alive
      /\ y.pu.id = s.pu.id /\ y.pu.valid = s.pu.valid /\ y.pu.vec = s.pu.vec
      /\ y.pu.queue = s.pu.queue /\ y.pu.batch = s.pu.batch
      /\ y.ref[VideoCmd] = 2 /\ \A m \in Msgs : m # VideoCmd => y.ref[m] = s.ref[m]
  <2>1. PcSet(v, s, Open, l) /\ CommandedFrom(y, v, s)
    BY <1>1, <1>5, CommandedIs
  <2> QED BY <2>1 DEF CommandedFrom
<1>7. l \in Locs \ {"start"}
  BY <1>5 DEF Locs
<1>8. v.runq = s.runq /\ Queueing(v, NoThread) /\ StartUp(v, NoThread)
  <2>1. Queueing(v, NoThread) /\ StartUp(v, NoThread)
    <3>1. Open \in Threads /\ s.pc[Open] # "none" /\ PcSet(v, s, Open, l)
      BY <1>2, <1>3, <1>6
    <3> QED BY <1>7, <3>1, Stops
  <2> QED BY <1>6, <2>1 DEF PcSet
<1>9. Queueing(y, NoThread) /\ StartUp(y, NoThread)
  BY <1>6, <1>8 DEF Queueing, StartUp, On
<1>10. /\ y.pc[Open] = "none" /\ y.pc[Heart] = "sleep" /\ y.pc[Send] = "wait"
       /\ y.pc[Ses] = s.pc[Ses] /\ y.pc[Recv] = s.pc[Recv]
       /\ \A x \in Threads : x # Open => y.pc[x] = s.pc[x]
  BY <1>2, <1>3, <1>5, <1>6, DeviceNames DEF PcSet
<1>11. \A c \in Viewers :
         /\ y.pc[<<"session", c>>] = s.pc[<<"session", c>>]
         /\ y.pc[<<"recv", c>>] = s.pc[<<"recv", c>>]
         /\ y.pc[<<"send", c>>] = s.pc[<<"send", c>>]
         /\ y.pc[<<"open", c>>] = s.pc[<<"open", c>>]
  <2>1. DeviceMoves(y.pc, s.pc)
    BY <1>10 DEF DeviceMoves
  <2>2. ViewersStay(y.pc, s.pc)
    BY <2>1, DevicePcs
  <2> QED BY <2>2 DEF ViewersStay
<1>12. Locations(y.pc)
  BY <1>1, <1>10, <1>11 DEF Locations
<1>13. PuRefs(y) = PuRefs(s)
  <2>1. Attached(y) = Attached(s)
    BY <1>6 DEF Attached
  <2>2. Bit(y.pc[Send] # "none") = Bit(s.pc[Send] # "none")
    BY <1>3, <1>10
  <2>3. Bit(y.pc[Heart] = "sleep") = Bit(s.pc[Heart] = "sleep")
    BY <1>3, <1>10
  <2> QED BY <1>10, <2>1, <2>2, <2>3 DEF PuRefs
<1>14. y.pu.alive /\ y.pu.ref >= PuRefs(y) + 1
  BY <1>4, <1>6, <1>13
<1>15. FrontEnd(y)
  <2>1. y.pu.ref >= PuRefs(y)
    BY <1>4, <1>6, <1>13
  <2> QED BY <1>1, <1>4, <1>6, <1>10, <2>1 DEF FrontEnd, Young, NoneServes
<1>16. Sessions(y, n)
  <2>1. \A c \in Viewers : y.cu[c].found = s.cu[c].found
    BY <1>6
  <2>2. \A c \in Viewers : y.pc[<<"session", c>>] = s.pc[<<"session", c>>]
    BY <1>11
  <2> QED BY <1>1, <1>6, <1>10, <2>1, <2>2, SessionsSame
<1>17. VideoCmd \in Msgs /\ Spare(y, VideoCmd) >= 1 /\ Counted(y)
  <2>1. VideoCmd \in Msgs
    BY Names
  <2>2. Len(s.pu.vec) = 0 /\ s.pu.queue = <<>> /\ s.pu.batch = <<>>
        /\ \A m \in Msgs : PuHeld(s.pu, m) = 0
    BY <1>3, NoVideo
  <2>3. \A m : OpenHeld(y.pc, m) = OpenHeld(s.pc, m)
    <3>1. \A c \in Viewers : y.pc[<<"open", c>>] # "none" <=> s.pc[<<"open", c>>] # "none"
      BY <1>11
    <3> QED BY <3>1, OpenHeldSame
  <2>4. \A m : CuHeld(y, m) = CuHeld(s, m)
    BY <1>6 DEF CuHeld
  <2>5. \A m \in Msgs : PuHeld(y.pu, m) = IF m = VideoCmd THEN 1 ELSE 0
    <3>1. ASSUME NEW m \in Msgs PROVE Queued(y.pu, m) = 0
      <4>1. PICK e : e = <<>>
        OBVIOUS
      <4>2. Copies(e, m) = 0
        <5>1. e \in Seq(Msgs)
          BY <4>1, EmptySeq
        <5> QED BY <4>1, <5>1, CopiesFacts
      <4> QED BY <1>6, <2>2, <4>1, <4>2 DEF Queued
    <3> QED BY <1>6, <2>2, <3>1 DEF PuHeld
  <2>6. OpenHeld(s.pc, VideoCmd) = 0
    <3>1. VideoCmd \notin {"open"} \X Viewers
      BY NvsAssumption DEF VideoCmd
    <3> QED BY <3>1 DEF OpenHeld, Bit
  <2>7. CuHeld(s, VideoCmd) = 0
    BY <1>1 DEF Counted
  <2>8. Held(y, VideoCmd) = 1
    BY <2>1, <2>3, <2>4, <2>5, <2>6, <2>7 DEF Held
  <2>9. ASSUME NEW m \in Msgs PROVE y.ref[m] >= Held(y, m)
    <3>1. CASE m = VideoCmd
      BY <1>6, <2>8, <3>1
    <3>2. CASE m # VideoCmd
      <4>1. Held(y, m) = 0 + CuHeld(s, m) + OpenHeld(s.pc, m)
        BY <2>3, <2>4, <2>5, <3>2 DEF Held
      <4>2. Held(s, m) = 0 + CuHeld(s, m) + OpenHeld(s.pc, m)
        BY <2>2 DEF Held
      <4> QED BY <1>1, <1>6, <3>2, <4>1, <4>2 DEF Counted
    <3> QED BY <3>1, <3>2
  <2>10. Counted(y)
    BY <2>4, <2>7, <2>9 DEF Counted
  <2> QED BY <1>6, <2>1, <2>8, <2>10 DEF Spare
<1>18. Good(y, NoThread, n)
  <2>1. y.pc[Send] = "write" <=> y.pu.batch # <<>>
    BY <1>1, <1>3, <1>6, <1>10, DeviceNames DEF Batches
  <2>2. Open \in {Ses, Recv, Send, Heart, Open}
    OBVIOUS
  <2> QED BY <1>6, <1>9, <1>11, <1>12, <1>15, <1>16, <1>17, <2>1, <2>2, DeviceChange
<1>19. PICK z : z = pu_send_msg(y, VideoCmd)
  OBVIOUS
<1>20. Good(z, NoThread, n) /\ PuSent(z, y, VideoCmd)
  <2>1. NoThread # Send /\ y.pc[Heart] # "start" /\ y.pc[Open] # "start" /\ y.pu.cmd
    BY <1>2, <1>6, <1>10, Names
  <2> QED BY <1>17, <1>18, <1>19, <2>1, GoodPuSend
<1>21. z.pu.alive /\ z.pu.ref >= PuRefs(z) + 1
  <2>1. z.pc = y.pc /\ z.cu = y.cu
    BY <1>20 DEF PuSent
  <2>2. z.pu.alive = y.pu.alive /\ z.pu.ref = y.pu.ref
    <3>1. y.pu \in PuRec
      BY <1>6, ServerType
    <3> QED BY <1>20, <3>1 DEF PuSent, PuRec
  <2>3. PuRefs(z) = PuRefs(y)
    BY <2>1 DEF PuRefs, Attached
  <2> QED BY <1>14, <2>2, <2>3
<1>22. u = pu_release(z)
  BY <1>5, <1>19 DEF handle_open_video, Commanded, Open
<1> QED BY <1>20, <1>21, <1>22, GoodPuRelease

(* The session of a device starts the threads of the front end.            *)
Serving(x) ==
  st_thread_create(st_thread_create([x EXCEPT !.pu.valid = TRUE, !.pu.ref = @ + 2], Recv),
                   Send)

(* The second of two new threads is behind the first.                      *)
LEMMA BehindFacts ==
  ASSUME NEW q, NEW r, NEW v, NEW x, NEW y, x # y, Len(q) \in Nat,
         Longer(r, q, x), Longer(v, r, y), ~In(y, r)
  PROVE  Before(v, x, y) /\ In(y, v) /\ In(x, v)
<1>1. Len(r) \in Nat /\ Len(v) = Len(r) + 1 /\ v[Len(r) + 1] = y /\ \A i \in 1..Len(r) : v[i] = r[i]
  BY DEF Longer
<1>2. ASSUME NEW i \in 1..Len(v), NEW j \in 1..Len(v), v[i] = x, v[j] = y PROVE i < j
  <2>1. j \notin 1..Len(r)
    BY <1>1, <1>2 DEF In
  <2>2. i # Len(r) + 1
    BY <1>1, <1>2
  <2> QED BY <1>1, <2>1, <2>2
<1>3. In(y, v) /\ In(x, v)
  BY DEF Longer
<1> QED BY <1>2, <1>3 DEF Before

(* u is x with the two threads of the front end.                           *)
ServingFrom(u, x) ==
  /\ u \in Server /\ Queueing(u, NoThread) /\ Before(u.runq, Recv, Send) /\ In(Send, u.runq)
  /\ u.pc[Recv] = "start" /\ u.pc[Send] = "start"
  /\ \A y \in Threads : y # Recv /\ y # Send => u.pc[y] = x.pc[y]
  /\ u.cu = x.cu /\ u.ref = x.ref /\ u.crashed = x.crashed
  /\ u.pu.alive = x.pu.alive /\ u.pu.id = x.pu.id /\ u.pu.ref = x.pu.ref + 2
  /\ u.pu.cmd = x.pu.cmd /\ u.pu.vec = x.pu.vec /\ u.pu.queue = x.pu.queue
  /\ u.pu.batch = x.pu.batch

(* Serving, as changes of the run queue, the threads and the record.       *)
LEMMA ServingIs ==
  ASSUME NEW x \in Server, Queueing(x, NoThread), x.pc[Recv] = "none", x.pc[Send] = "none",
         NEW u, u = Serving(x)
  PROVE  ServingFrom(u, x)
<1>1. x.pu \in PuRec /\ x.pu.ref \in Nat /\ x.runq \in Seq(Threads)
  BY ServerType, PuType
<1>2. PICK p, k, b : p = [x.pu EXCEPT !.valid = b, !.ref = k] /\ k = x.pu.ref + 2 /\ b = TRUE
  OBVIOUS
<1>3. k \in Nat /\ b \in BOOLEAN
  BY <1>1, <1>2
<1>4. /\ p \in PuRec /\ p.ref = k /\ p.cmd = x.pu.cmd /\ p.alive = x.pu.alive /\ p.id = x.pu.id
      /\ p.vec = x.pu.vec /\ p.queue = x.pu.queue /\ p.batch = x.pu.batch
  BY <1>1, <1>2, <1>3 DEF PuRec
<1>5. PICK y : y = [x EXCEPT !.pu.valid = TRUE, !.pu.ref = @ + 2]
  OBVIOUS
<1>6. y = [x EXCEPT !.pu = p]
  <2>1. y = [x EXCEPT !.pu.valid = b, !.pu.ref = k]
    BY <1>2, <1>5
  <2> QED BY <1>1, <1>2, <2>1
<1>7. PuSet(y, x, p)
  BY <1>4, <1>6, SetPu
<1>8. /\ y \in Server /\ y.pu = p /\ y.pc = x.pc /\ y.cu = x.cu /\ y.crashed = x.crashed
      /\ y.runq = x.runq /\ y.ref = x.ref
  BY <1>7 DEF PuSet
<1>9. Recv \in Threads /\ Send \in Threads /\ Recv # Send /\ Recv # NoThread /\ Send # NoThread
  BY Names, DeviceNames
<1>10. Queueing(y, NoThread)
  BY <1>8 DEF Queueing
<1>11. PICK v : v = st_thread_create(y, Recv)
  OBVIOUS
<1>12. Created(v, y, Recv)
  BY <1>8, <1>9, <1>11, CreateFacts
<1>13. Queueing(v, NoThread)
  BY <1>8, <1>9, <1>10, <1>11, CreateQueueing
<1>14. u = st_thread_create(v, Send)
  BY <1>5, <1>11 DEF Serving
<1>15. v \in Server /\ v.pc[Send] = "none"
  BY <1>8, <1>9, <1>12 DEF Created
<1>16. Created(u, v, Send)
  BY <1>9, <1>14, <1>15, CreateFacts
<1>17. Queueing(u, NoThread) /\ ~In(Send, v.runq)
  BY <1>9, <1>13, <1>14, <1>15, CreateQueueing
<1>18. Longer(v.runq, x.runq, Recv) /\ Longer(u.runq, v.runq, Send) /\ Len(x.runq) \in Nat
  BY <1>1, <1>8, <1>12, <1>16, LenProperties DEF Created
<1>19. Before(u.runq, Recv, Send) /\ In(Send, u.runq)
  BY <1>9, <1>17, <1>18, BehindFacts
<1>20. /\ u \in Server /\ u.pc[Recv] = "start" /\ u.pc[Send] = "start"
       /\ \A z \in Threads : z # Recv /\ z # Send => u.pc[z] = x.pc[z]
       /\ u.pu = p /\ u.cu = x.cu /\ u.ref = x.ref /\ u.crashed = x.crashed
  BY <1>8, <1>9, <1>12, <1>16 DEF Created
<1> QED BY <1>2, <1>4, <1>17, <1>19, <1>20 DEF ServingFrom

(* The front end is served, and the session gives its reference up.        *)
LEMMA SessionServes ==
  ASSUME NEW s, NEW n, Good(s, Ses, n), s.pc[Ses] # "none", NoneServes(s.pc), ~s.pu.cmd,
         NEW v, PcSet(v, s, Ses, "none"),
         NEW x \in Server, x.pc = v.pc, x.runq = s.runq, x.cu = s.cu, x.ref = s.ref,
         x.crashed = s.crashed, x.pu.alive, ~x.pu.cmd, x.pu.vec = s.pu.vec,
         x.pu.queue = <<>>, x.pu.batch = <<>>, x.pu.ref >= 1, x.pu.id \in 1..n,
         \A c \in Viewers : s.pc[<<"session", c>>] = "auth" => s.cu[c].found # x.pu.id,
         NEW u, u = Serving(x)
  PROVE  Good(pu_release(u), NoThread, n)
<1>1. /\ s \in Server /\ Locations(s.pc) /\ Sessions(s, n) /\ Counted(s)
  BY DEF Good
<1>2. {Ses, Recv, Send, Heart, Open} \subseteq Threads
  BY Names
<1>3. PICK l : l = "none"
  OBVIOUS
<1>4. l \in Locs \ {"start"} /\ PcSet(v, s, Ses, l)
  BY <1>3 DEF Locs
<1>5. Queueing(v, NoThread) /\ v.runq = s.runq
  <2>1. Ses \in Threads
    BY <1>2
  <2>2. Queueing(v, NoThread)
    BY <1>4, <2>1, Stops
  <2> QED BY <1>4, <2>2 DEF PcSet
<1>6. Queueing(x, NoThread)
  BY <1>5 DEF Queueing
<1>7. /\ x.pc[Ses] = "none" /\ x.pc[Recv] = "none" /\ x.pc[Send] = "none"
      /\ x.pc[Heart] = "none" /\ x.pc[Open] = "none"
      /\ \A y \in Threads : y # Ses => x.pc[y] = s.pc[y]
  BY <1>2, DeviceNames DEF PcSet, NoneServes
<1>8. ServingFrom(u, x)
  BY <1>6, <1>7, ServingIs
<1>9. /\ u \in Server /\ Queueing(u, NoThread) /\ Before(u.runq, Recv, Send) /\ In(Send, u.runq)
      /\ u.pc[Recv] = "start" /\ u.pc[Send] = "start"
      /\ \A y \in Threads : y # Recv /\ y # Send => u.pc[y] = x.pc[y]
      /\ u.cu = s.cu /\ u.ref = s.ref /\ u.crashed = s.crashed
      /\ u.pu.alive /\ u.pu.id = x.pu.id /\ u.pu.ref = x.pu.ref + 2
      /\ ~u.pu.cmd /\ u.pu.vec = s.pu.vec /\ u.pu.queue = <<>> /\ u.pu.batch = <<>>
  BY <1>8 DEF ServingFrom
<1>10. /\ u.pc[Ses] = "none" /\ u.pc[Heart] = "none" /\ u.pc[Open] = "none"
       /\ \A y \in Threads : y \notin {Ses, Recv, Send, Heart, Open} => u.pc[y] = s.pc[y]
  BY <1>2, <1>7, <1>9, DeviceNames
<1>11. \A c \in Viewers :
         /\ u.pc[<<"session", c>>] = s.pc[<<"session", c>>]
         /\ u.pc[<<"recv", c>>] = s.pc[<<"recv", c>>]
         /\ u.pc[<<"send", c>>] = s.pc[<<"send", c>>]
         /\ u.pc[<<"open", c>>] = s.pc[<<"open", c>>]
  <2>1. \A y \in Threads : y \notin {Ses, Recv, Send, Heart, Open} => u.pc[y] = s.pc[y]
    BY <1>10
  <2> QED BY <2>1, ViewerNames
<1>12. Locations(u.pc)
  BY <1>1, <1>9, <1>10, <1>11 DEF Locations
<1>13. StartUp(u, NoThread)
  BY <1>9, <1>10, DeviceNames DEF StartUp
<1>14. Attached(s) = {} /\ s.pu.queue = <<>> /\ s.pu.batch = <<>>
  BY NoVideo
<1>15. PuRefs(u) = 2
  <2>1. Cardinality(Attached(u)) = 0
    <3>1. Attached(u) = {}
      BY <1>9, <1>14 DEF Attached
    <3> QED BY <3>1, FS_EmptySet
  <2> QED BY <1>9, <1>10, <2>1 DEF PuRefs, Bit
<1>16. u.pu.ref >= PuRefs(u) + 1 /\ u.pu.ref >= PuRefs(u)
  <2>1. x.pu.ref \in Nat
    BY ServerType, PuType
  <2> QED BY <1>9, <1>15, <2>1
<1>17. FrontEnd(u)
  BY <1>9, <1>10, <1>16 DEF FrontEnd, Young
<1>18. Sessions(u, n)
  <2>1. ASSUME NEW c \in Viewers, u.pc[<<"session", c>>] = "auth"
        PROVE  u.cu[c].found \in 1..n /\ u.cu[c].found # u.pu.id
    <3>1. s.pc[<<"session", c>>] = "auth"
      BY <1>11, <2>1
    <3>2. s.cu[c].found \in 1..n /\ s.cu[c].found # x.pu.id
      BY <1>1, <3>1 DEF Sessions
    <3> QED BY <1>9, <3>2
  <2> QED BY <1>9, <1>10, <2>1 DEF Sessions
<1>19. Counted(u)
  <2>1. /\ u.pu.queue = s.pu.queue /\ u.pu.batch = s.pu.batch /\ u.pu.cmd = s.pu.cmd
        /\ u.pu.vec = s.pu.vec
    <3>1. s.pu.cmd \in BOOLEAN /\ u.pu.cmd \in BOOLEAN
      BY <1>1, <1>9, ServerType, PuType
    <3> QED BY <1>9, <1>14, <3>1
  <2>2. \A c \in Viewers : u.pc[<<"open", c>>] = s.pc[<<"open", c>>]
    BY <1>11
  <2>3. HeldAs(u, s)
    BY <1>9, <2>1, <2>2 DEF HeldAs
  <2> QED BY <1>1, <2>3, CountedSame
<1>20. Good(u, NoThread, n)
  <2>1. u.pc[Send] = "write" <=> u.pu.batch # <<>>
    BY <1>9
  <2>2. u \in Server /\ u.cu = s.cu /\ u.crashed = s.crashed /\ u.pu.vec = s.pu.vec
        /\ Queueing(u, NoThread) /\ (s.pu.cmd => u.pu.cmd)
    BY <1>9
  <2>3. Ses \in {Ses, Recv, Send, Heart, Open}
    OBVIOUS
  <2> QED BY <1>11, <1>12, <1>13, <1>17, <1>18, <1>19, <2>1, <2>2, <2>3, DeviceChange
<1> QED BY <1>9, <1>16, <1>20, GoodPuRelease

(* A device that has registered: its front end, that nobody knows yet.     *)
NewPu(i) == [NoPu EXCEPT !.alive = TRUE, !.ref = 1, !.id = i]

(* A new front end, which nobody refers to but the session.                *)
LEMMA NewPuFacts ==
  ASSUME NEW i \in Nat, NEW p, p = NewPu(i)
  PROVE  /\ p \in PuRec /\ p.alive /\ p.ref = 1 /\ p.id = i /\ ~p.valid /\ ~p.cmd
         /\ p.vec = <<>> /\ p.queue = <<>> /\ p.batch = <<>>
         /\ \A m : PuHeld(p, m) = 0
<1>1. /\ p \in PuRec /\ p.alive /\ p.ref = 1 /\ p.id = i /\ ~p.valid /\ ~p.cmd
      /\ p.vec = <<>> /\ p.queue = <<>> /\ p.batch = <<>>
  BY EmptySeq DEF PuRec, NewPu, NoPu
<1>2. ASSUME NEW m PROVE PuHeld(p, m) = 0
  <2>1. PICK e : e = <<>>
    OBVIOUS
  <2>2. Copies(e, m) = 0
    <3>1. e \in Seq(Msgs)
      BY <2>1, EmptySeq
    <3> QED BY <2>1, <3>1, CopiesFacts
  <2> QED BY <1>1, <2>1, <2>2 DEF PuHeld, Queued
<1> QED BY <1>1, <1>2

(* A session of a device that ends before it has made anything.            *)
LEMMA SessionEnds ==
  ASSUME NEW s, NEW n, Good(s, Ses, n), s.pc[Ses] = "start",
         NEW u, u = End(s, Ses)
  PROVE  Good(u, NoThread, n)
<1>1. /\ s \in Server /\ Locations(s.pc) /\ FrontEnd(s) /\ Sessions(s, n) /\ Batches(s, Ses)
  BY DEF Good
<1>2. {Ses, Recv, Send, Heart, Open} \subseteq Threads
  BY Names
<1>3. PICK l : l = "none"
  OBVIOUS
<1>4. l \in Locs \ {"start"} /\ u = [s EXCEPT !.pc[Ses] = l]
  BY <1>3 DEF Locs, End
<1>5. PcSet(u, s, Ses, l)
  BY <1>1, <1>2, <1>4, SetPc
<1>6. /\ u.pu = s.pu /\ u.cu = s.cu /\ u.pc[Ses] = "none"
      /\ u.pc[Recv] = s.pc[Recv] /\ u.pc[Send] = s.pc[Send] /\ u.pc[Heart] = s.pc[Heart]
      /\ u.pc[Open] = s.pc[Open]
      /\ \A x \in Threads : x # Ses => u.pc[x] = s.pc[x]
  BY <1>2, <1>3, <1>5, DeviceNames DEF PcSet
<1>7. \A c \in Viewers :
         /\ u.pc[<<"session", c>>] = s.pc[<<"session", c>>]
         /\ u.pc[<<"recv", c>>] = s.pc[<<"recv", c>>]
         /\ u.pc[<<"send", c>>] = s.pc[<<"send", c>>]
         /\ u.pc[<<"open", c>>] = s.pc[<<"open", c>>]
  BY <1>6, ViewerNames
<1>8. Locations(u.pc)
  BY <1>1, <1>6, <1>7 DEF Locations
<1>9. PuRefs(u) = PuRefs(s)
  <2>1. Attached(u) = Attached(s)
    BY <1>6 DEF Attached
  <2>2. Bit(u.pc[Ses] = "auth") = 0 /\ Bit(s.pc[Ses] = "auth") = 0
    BY <1>6 DEF Bit
  <2> QED BY <1>6, <2>1, <2>2 DEF PuRefs
<1>10. FrontEnd(u)
  BY <1>1, <1>6, <1>9 DEF FrontEnd, Young, NoneServes
<1>11. Sessions(u, n)
  <2>1. \A c \in Viewers : u.pc[<<"session", c>>] = s.pc[<<"session", c>>]
    BY <1>7
  <2> QED BY <1>1, <1>6, <2>1 DEF Sessions
<1>12. u.pc[Send] = "write" <=> u.pu.batch # <<>>
  BY <1>1, <1>6, DeviceNames DEF Batches
<1>13. Ses \in {Ses, Recv, Send, Heart, Open} /\ s.pc[Ses] # "none"
  OBVIOUS
<1> QED BY <1>4, <1>5, <1>8, <1>10, <1>11, <1>12, <1>13, DeviceStops

(* The device has registered, and its answer is being written.             *)
LEMMA SessionAnswers ==
  ASSUME NEW s, NEW n, Good(s, Ses, n), s.pc[Ses] = "start", ~s.pu.alive,
         NEW u, u = At([s EXCEPT !.pu = NewPu(n)], Ses, "auth"), n \in Nat
  PROVE  Good(u, NoThread, n)
<1>1. /\ s \in Server /\ Locations(s.pc) /\ FrontEnd(s) /\ Sessions(s, n) /\ Counted(s)
  BY DEF Good
<1>2. {Ses, Recv, Send, Heart, Open} \subseteq Threads
  BY Names
<1>3. PICK v, l, a : v = [s EXCEPT !.pc[Ses] = l] /\ l = "auth" /\ a = [s EXCEPT !.pu = NewPu(n)]
  OBVIOUS
<1>4. l \in Locs \ {"start"}
  BY <1>3 DEF Locs
<1>5. PcSet(v, s, Ses, l)
  BY <1>1, <1>2, <1>3, <1>4, SetPc
<1>6. Queueing(v, NoThread) /\ StartUp(v, NoThread)
  <2>1. Ses \in Threads /\ s.pc[Ses] # "none"
    BY <1>2
  <2> QED BY <1>4, <1>5, <2>1, Stops
<1>7. PICK p : p = NewPu(n)
  OBVIOUS
<1>8. /\ p \in PuRec /\ p.alive /\ p.ref = 1 /\ p.id = n /\ ~p.valid /\ ~p.cmd
      /\ p.vec = <<>> /\ p.queue = <<>> /\ p.batch = <<>>
      /\ \A m : PuHeld(p, m) = 0
  BY <1>7, NewPuFacts
<1>9. PuSet(a, s, p)
  BY <1>1, <1>3, <1>7, <1>8, SetPu
<1>10. a \in Server /\ a.pc = s.pc /\ a.pu = p /\ a.cu = s.cu /\ a.crashed = s.crashed
       /\ a.runq = s.runq /\ a.ref = s.ref
  BY <1>9 DEF PuSet
<1>11. PcSet(u, a, Ses, l)
  <2>1. u = [a EXCEPT !.pc[Ses] = l]
    BY <1>3 DEF At
  <2> QED BY <1>2, <1>4, <1>10, <2>1, SetPc
<1>12. /\ u \in Server /\ u.pc = v.pc /\ u.runq = v.runq /\ u.pu = p /\ u.cu = s.cu
       /\ u.ref = s.ref /\ u.crashed = s.crashed
  BY <1>5, <1>10, <1>11 DEF PcSet
<1>13. Queueing(u, NoThread) /\ StartUp(u, NoThread)
  BY <1>6, <1>12 DEF Queueing, StartUp, On
<1>14. /\ u.pc[Ses] = "auth" /\ u.pc[Recv] = "none" /\ u.pc[Send] = "none"
       /\ u.pc[Heart] = "none" /\ u.pc[Open] = "none"
       /\ \A x \in Threads : x # Ses => u.pc[x] = s.pc[x]
  <2>1. u.pc[Ses] = "auth" /\ \A x \in Threads : x # Ses => u.pc[x] = s.pc[x]
    <3>1. v.pc[Ses] = l /\ \A x \in Threads : x # Ses => v.pc[x] = s.pc[x]
      BY <1>5 DEF PcSet
    <3>2. u.pc = v.pc /\ l = "auth"
      BY <1>3, <1>12
    <3> QED BY <3>1, <3>2
  <2>2. NoneServes(s.pc)
    BY <1>1, <1>3 DEF FrontEnd
  <2>3. /\ Recv \in Threads \ {Ses} /\ Send \in Threads \ {Ses}
        /\ Heart \in Threads \ {Ses} /\ Open \in Threads \ {Ses}
    BY Names, DeviceNames
  <2> QED BY <2>1, <2>2, <2>3 DEF NoneServes
<1>15. \A c \in Viewers :
         /\ u.pc[<<"session", c>>] = s.pc[<<"session", c>>]
         /\ u.pc[<<"recv", c>>] = s.pc[<<"recv", c>>]
         /\ u.pc[<<"send", c>>] = s.pc[<<"send", c>>]
         /\ u.pc[<<"open", c>>] = s.pc[<<"open", c>>]
  BY <1>14, ViewerNames
<1>16. Locations(u.pc)
  BY <1>1, <1>14, <1>15 DEF Locations
<1>17. ~s.pu.cmd
  BY <1>1 DEF FrontEnd, NoPu
<1>18. /\ s.pu.vec = <<>> /\ Attached(s) = {} /\ \A m \in Msgs : PuHeld(s.pu, m) = 0
  BY <1>17, NoVideo
<1>19. PuRefs(u) = 1
  <2>1. Cardinality(Attached(u)) = 0
    <3>1. Attached(u) = {}
      BY <1>12, <1>18 DEF Attached
    <3> QED BY <3>1, FS_EmptySet
  <2> QED BY <1>14, <2>1 DEF PuRefs, Bit
<1>20. FrontEnd(u)
  BY <1>8, <1>12, <1>14, <1>19 DEF FrontEnd, Young, NoneServes
<1>21. Sessions(u, n)
  <2>1. n >= 1
    BY <1>1 DEF Sessions
  <2>2. ASSUME NEW c \in Viewers, u.pc[<<"session", c>>] = "auth"
        PROVE  u.cu[c].found \in 1..n /\ u.cu[c].found # u.pu.id
    <3>1. s.pc[<<"session", c>>] = "auth"
      BY <1>15, <2>2
    <3>2. s.cu[c].found \in 1..n /\ s.cu[c].found < n
      BY <1>1, <3>1 DEF Sessions
    <3>3. s.cu[c].found # n
      BY <3>2
    <3> QED BY <1>8, <1>12, <3>2, <3>3
  <2>3. u.pu.id \in 1..n
    BY <1>8, <1>12, <2>1
  <2> QED BY <1>14, <2>2, <2>3 DEF Sessions
<1>22. Counted(u)
  <2>1. \A m : OpenHeld(u.pc, m) = OpenHeld(s.pc, m)
    <3>1. \A c \in Viewers : u.pc[<<"open", c>>] # "none" <=> s.pc[<<"open", c>>] # "none"
      BY <1>15
    <3> QED BY <3>1, OpenHeldSame
  <2>2. \A m : CuHeld(u, m) = CuHeld(s, m)
    BY <1>12 DEF CuHeld
  <2>3. \A m \in Msgs : Held(u, m) = Held(s, m)
    BY <1>8, <1>12, <1>18, <2>1, <2>2 DEF Held
  <2> QED BY <1>1, <1>12, <2>2, <2>3 DEF Counted
<1>23. u.cu = s.cu /\ u.crashed = s.crashed /\ u.pu.vec = s.pu.vec /\ (s.pu.cmd => u.pu.cmd)
       /\ (u.pc[Send] = "write" <=> u.pu.batch # <<>>)
  BY <1>8, <1>12, <1>14, <1>17, <1>18
<1>24. Ses \in {Ses, Recv, Send, Heart, Open}
  OBVIOUS
<1> QED BY <1>12, <1>13, <1>15, <1>16, <1>20, <1>21, <1>22, <1>23, <1>24, DeviceChange

(* A turn of the session of a device keeps the invariant.                  *)
LEMMA GoodDeviceSession ==
  ASSUME NEW s, Good(s, Ses, inputs), s.pc[Ses] # "none", inputs \in Nat,
         NEW fail \in BOOLEAN, NEW u, u = DeviceSession(s, fail)
  PROVE  Good(u, NoThread, inputs)
<1>1. /\ s \in Server /\ Locations(s.pc) /\ FrontEnd(s) /\ Sessions(s, inputs)
  BY DEF Good
<1>2. PICK v, l : v = [s EXCEPT !.pc[Ses] = l] /\ l = "none"
  OBVIOUS
<1>3. PcSet(v, s, Ses, "none")
  <2>1. l \in Locs /\ Ses \in Threads
    BY <1>2, Names DEF Locs
  <2>2. PcSet(v, s, Ses, l)
    BY <1>1, <1>2, <2>1, SetPc
  <2> QED BY <1>2, <2>2
<1>4. v = End(s, Ses)
  BY <1>2 DEF End
<1>5. s.pc[Ses] \in {"start", "auth"}
  BY <1>1 DEF Locations
<1>6. CASE s.pc[Ses] = "auth"
  <2>1. s.pu.alive /\ NoneServes(s.pc) /\ ~s.pu.cmd /\ s.pu.ref >= PuRefs(s)
    BY <1>1, <1>6 DEF FrontEnd
  <2>2. s.pu.vec = <<>> /\ s.pu.queue = <<>> /\ s.pu.batch = <<>>
    BY <2>1, NoVideo
  <2>3. s.pu.ref >= 1
    <3>1. PuRefs(s) \in Nat /\ PuRefs(s) # 0
      BY <1>6, PuRefsNat
    <3>2. s.pu.ref \in Nat
      BY <1>1, ServerType, PuType
    <3> QED BY <2>1, <3>1, <3>2
  <2>4. s.pu.id \in 1..inputs
    BY <1>1, <2>1 DEF Sessions
  <2>5. \A c \in Viewers : s.pc[<<"session", c>>] = "auth" => s.cu[c].found # s.pu.id
    BY <1>1, <2>1 DEF Sessions
  <2>6. u = pu_release(Serving(v))
    BY <1>4, <1>6 DEF DeviceSession, Serving, Ses, Recv, Send
  <2>7. /\ v \in Server /\ v.runq = s.runq /\ v.cu = s.cu /\ v.ref = s.ref
        /\ v.crashed = s.crashed /\ v.pu = s.pu
    BY <1>3 DEF PcSet
  <2> QED BY <1>3, <1>6, <2>1, <2>2, <2>3, <2>4, <2>5, <2>6, <2>7, SessionServes
<1>7. CASE s.pc[Ses] = "start" /\ s.pu.alive
  <2>1. u = End(s, Ses)
    BY <1>7 DEF DeviceSession, Ses
  <2> QED BY <1>7, <2>1, SessionEnds
<1>8. CASE s.pc[Ses] = "start" /\ ~s.pu.alive /\ ~fail
  <2>1. u = At([s EXCEPT !.pu = NewPu(inputs)], Ses, "auth")
    BY <1>8 DEF DeviceSession, Ses, NewPu
  <2> QED BY <1>8, <2>1, SessionAnswers
<1>9. CASE s.pc[Ses] = "start" /\ ~s.pu.alive /\ fail
  <2>1. PICK x, p : x = [v EXCEPT !.pu = NewPu(inputs)] /\ p = NewPu(inputs)
    OBVIOUS
  <2>2. u = pu_release(Serving(x))
    BY <1>4, <1>9, <2>1 DEF DeviceSession, Serving, Ses, Recv, Send, NewPu
  <2>3. /\ p \in PuRec /\ p.alive /\ p.ref = 1 /\ p.id = inputs /\ ~p.cmd
        /\ p.vec = <<>> /\ p.queue = <<>> /\ p.batch = <<>>
    BY <2>1, NewPuFacts
  <2>4. v \in Server /\ v.runq = s.runq /\ v.cu = s.cu /\ v.ref = s.ref
        /\ v.crashed = s.crashed
    BY <1>3 DEF PcSet
  <2>5. PuSet(x, v, p)
    BY <2>1, <2>3, <2>4, SetPu
  <2>6. /\ x \in Server /\ x.pc = v.pc /\ x.runq = s.runq /\ x.cu = s.cu /\ x.ref = s.ref
        /\ x.crashed = s.crashed /\ x.pu = p
    BY <2>4, <2>5 DEF PuSet
  <2>7. NoneServes(s.pc) /\ ~s.pu.cmd
    BY <1>1, <1>9 DEF FrontEnd, NoPu
  <2>8. s.pu.vec = <<>>
    BY <2>7, NoVideo
  <2>9. inputs >= 1
    BY <1>1, <1>9 DEF Sessions
  <2>10. \A c \in Viewers : s.pc[<<"session", c>>] = "auth" => s.cu[c].found # p.id
    <3>1. ASSUME NEW c \in Viewers, s.pc[<<"session", c>>] = "auth"
          PROVE  s.cu[c].found # inputs
      <4>1. s.cu[c].found \in 1..inputs /\ s.cu[c].found < inputs
        BY <1>1, <1>9, <3>1 DEF Sessions
      <4> QED BY <4>1
    <3> QED BY <2>3, <3>1
  <2>11. p.id \in 1..inputs /\ p.ref >= 1
    BY <2>3, <2>9
  <2> QED BY <1>3, <1>9, <2>2, <2>3, <2>6, <2>7, <2>8, <2>10, <2>11, SessionServes
<1> QED BY <1>5, <1>6, <1>7, <1>8, <1>9

-----------------------------------------------------------------------------
(* The receiver of the front end: a frame goes to every viewer in the list.*)

(* f is the recursion over 0..n that starts with v and whose step is G.    *)
Solves(f, n, v, G, V) ==
  /\ f \in [0..n -> V]
  /\ f[0] = v
  /\ \A i \in 1..n : f[i] = G[<<i, f[i - 1]>>]

(* Such a recursion is solved by a function.                               *)
LEMMA Iterates ==
  ASSUME NEW V, NEW n \in Nat, NEW v \in V, NEW G \in [(1..n) \X V -> V]
  PROVE  \E f : Solves(f, n, v, G, V)
<1> DEFINE Bad == {m \in 0..n : ~ \E f : Solves(f, m, v, G, V)}
<1>1. CASE Bad = {}
  BY <1>1
<1>2. CASE Bad # {}
  <2>1. Bad \subseteq Nat
    OBVIOUS
  <2> HIDE DEF Bad
  <2>2. PICK m \in Bad : \A k \in Bad : m <= k
    BY <1>2, <2>1, Least
  <2>3. m \in 0..n /\ ~ \E f : Solves(f, m, v, G, V)
    BY <2>2 DEF Bad
  <2>4. Solves([i \in 0..0 |-> v], 0, v, G, V)
    BY DEF Solves
  <2>5. m # 0
    BY <2>3, <2>4
  <2>6. m - 1 \in 0..n /\ m - 1 \notin Bad /\ m \in 1..n
    BY <2>2, <2>3, <2>5
  <2>7. PICK f : Solves(f, m - 1, v, G, V)
    BY <2>6 DEF Bad
  <2> DEFINE g == [i \in 0..m |-> IF i = m THEN G[<<m, f[m - 1]>>] ELSE f[i]]
  <2>8. G[<<m, f[m - 1]>>] \in V
    BY <2>6, <2>7 DEF Solves
  <2>9. g \in [0..m -> V] /\ g[0] = v
    BY <2>6, <2>7, <2>8 DEF Solves
  <2>10. ASSUME NEW i \in 1..m PROVE g[i] = G[<<i, g[i - 1]>>]
    <3>1. g[i - 1] = f[i - 1] /\ i \in 0..m
      BY <2>6
    <3>2. CASE i = m
      BY <3>1, <3>2
    <3>3. CASE i # m
      <4>1. i \in 1..(m - 1)
        BY <2>6, <3>3
      <4>2. f[i] = G[<<i, f[i - 1]>>]
        BY <2>7, <4>1 DEF Solves
      <4> QED BY <3>1, <3>3, <4>2
    <3> QED BY <3>2, <3>3
  <2>11. Solves(g, m, v, G, V)
    BY <2>9, <2>10 DEF Solves
  <2> QED BY <2>3, <2>11
<1> QED BY <1>1, <1>2

(* The states on the way, one for each viewer served.                      *)
OnTheWay(s, m) ==
  LET to[i \in 0..Len(s.pu.vec)] ==
        IF i = 0 THEN AddMsg(s, m)
        ELSE cu_send_msg(AddMsg(to[i - 1], m), s.pu.vec[i], m)
  IN to

(* Handing out a message, viewer by viewer.                                *)
LEMMA SharedOut ==
  ASSUME NEW s \in Server, NEW m \in Msgs, NEW d, d = OnTheWay(s, m),
         NEW n, n = Len(s.pu.vec)
  PROVE  /\ n \in Nat /\ d[0] = AddMsg(s, m)
         /\ \A i \in 1..n : d[i] = cu_send_msg(AddMsg(d[i - 1], m), s.pu.vec[i], m)
<1>1. n \in Nat /\ \A i \in 1..n : s.pu.vec[i] \in Viewers
  <2>1. s.pu.vec \in Seq(Viewers)
    BY ServerType, PuType
  <2> QED BY <2>1, LenProperties, ElementOfSeq
<1>2. ASSUME NEW x \in Server, NEW i \in 1..n
      PROVE  cu_send_msg(AddMsg(x, m), s.pu.vec[i], m) \in Server
  <2>1. PICK a, b, c : a = AddMsg(x, m) /\ c = s.pu.vec[i] /\ b = cu_send_msg(a, c, m)
    OBVIOUS
  <2>2. a \in Server /\ c \in Viewers
    BY <1>1, <2>1, AddMsgFacts DEF RefOnly
  <2>3. CuSent(b, a, c, m)
    BY <2>1, <2>2, CuSendFacts
  <2> QED BY <2>1, <2>3 DEF CuSent
<1>3. PICK V : V = Server
  OBVIOUS
<1>4. PICK G : G = [p \in (1..n) \X V |-> cu_send_msg(AddMsg(p[2], m), s.pu.vec[p[1]], m)]
  OBVIOUS
<1>5. /\ G \in [(1..n) \X V -> V]
      /\ \A i \in 1..n, x \in V : G[<<i, x>>] = cu_send_msg(AddMsg(x, m), s.pu.vec[i], m)
  BY <1>2, <1>3, <1>4
<1>6. PICK v : v = AddMsg(s, m)
  OBVIOUS
<1>7. v \in V
  BY <1>3, <1>6, AddMsgFacts DEF RefOnly
<1>8. PICK f : Solves(f, n, v, G, V)
  BY <1>1, <1>5, <1>7, Iterates
<1>9. /\ f \in [0..n -> V] /\ f[0] = v
      /\ \A i \in 1..n : f[i] = G[<<i, f[i - 1]>>]
  BY <1>8 DEF Solves
<1>10. ASSUME NEW i \in 1..n PROVE f[i] = cu_send_msg(AddMsg(f[i - 1], m), s.pu.vec[i], m)
  <2>1. f[i - 1] \in V
    BY <1>1, <1>9
  <2> QED BY <1>5, <1>9, <2>1
<1>11. f = [i \in 0..n |-> IF i = 0 THEN AddMsg(s, m)
                           ELSE cu_send_msg(AddMsg(f[i - 1], m), s.pu.vec[i], m)]
  <2> DEFINE b(i) == IF i = 0 THEN AddMsg(s, m)
                     ELSE cu_send_msg(AddMsg(f[i - 1], m), s.pu.vec[i], m)
  <2>1. ASSUME NEW i \in 0..n PROVE f[i] = b(i)
    <3>1. CASE i = 0
      BY <1>6, <1>9, <3>1
    <3>2. CASE i # 0
      <4>1. i \in 1..n
        BY <1>1, <3>2
      <4> QED BY <1>10, <3>2, <4>1
    <3> QED BY <3>1, <3>2
  <2> HIDE DEF b
  <2>2. f = [i \in 0..n |-> b(i)]
    BY <1>9, <2>1
  <2> QED BY <2>2 DEF b
<1>12. d = [i \in 0..n |-> IF i = 0 THEN AddMsg(s, m)
                           ELSE cu_send_msg(AddMsg(d[i - 1], m), s.pu.vec[i], m)]
  BY <1>11 DEF OnTheWay
<1>13. d[0] = AddMsg(s, m)
  <2>1. 0 \in 0..n
    BY <1>1
  <2> QED BY <1>12, <2>1
<1>14. ASSUME NEW i \in 1..n PROVE d[i] = cu_send_msg(AddMsg(d[i - 1], m), s.pu.vec[i], m)
  <2>1. i \in 0..n /\ i # 0
    BY <1>1
  <2> QED BY <1>12, <2>1
<1> QED BY <1>1, <1>13, <1>14

(* A receiver that still holds a reference to the message it hands out.    *)
Handing(x, s, m, n) ==
  /\ Good(x, Recv, n) /\ Spare(x, m) >= 1 /\ x.pc = s.pc /\ x.pu = s.pu

(* A message from the device goes to every viewer of its video.            *)
LEMMA GoodForward ==
  ASSUME NEW s, NEW n, Good(s, Recv, n), NEW m \in Msgs, m # VideoCmd,
         NEW u, u = Forward(s, m)
  PROVE  Good(u, Recv, n) /\ u.pc = s.pc
<1>1. s \in Server /\ s.pu.vec \in Seq(Viewers)
  BY ServerType, PuType DEF Good
<1>2. PICK d, k : d = OnTheWay(s, m) /\ k = Len(s.pu.vec)
  OBVIOUS
<1>3. /\ k \in Nat /\ d[0] = AddMsg(s, m)
      /\ \A i \in 1..k : d[i] = cu_send_msg(AddMsg(d[i - 1], m), s.pu.vec[i], m)
  BY <1>1, <1>2, SharedOut
<1>4. u = ReleaseMsg(d[k], m)
  BY <1>2 DEF Forward, OnTheWay
<1>5. Handing(d[0], s, m, n)
  <2>1. PICK a : a = d[0]
    OBVIOUS
  <2>2. Good(a, Recv, n) /\ RefOnly(a, s) /\ Spare(a, m) = Spare(s, m) + 1
    BY <1>3, <2>1, GoodAddMsg
  <2>3. Spare(s, m) \in Nat
    BY SpareInt
  <2> QED BY <2>1, <2>2, <2>3 DEF Handing, RefOnly
<1>6. ASSUME NEW i \in 1..k, Handing(d[i - 1], s, m, n) PROVE Handing(d[i], s, m, n)
  <2>1. PICK x, a, c, b : x = d[i - 1] /\ a = AddMsg(x, m) /\ c = s.pu.vec[i] /\ b = d[i]
    OBVIOUS
  <2>2. Good(x, Recv, n) /\ Spare(x, m) >= 1 /\ x.pc = s.pc /\ x.pu = s.pu
    BY <1>6, <2>1 DEF Handing
  <2>3. Good(a, Recv, n) /\ RefOnly(a, x) /\ Spare(a, m) = Spare(x, m) + 1
    BY <2>1, <2>2, GoodAddMsg
  <2>4. Spare(x, m) \in Nat /\ Spare(a, m) \in Nat
    BY <2>2, <2>3, SpareInt
  <2>5. c \in Viewers /\ Recv # <<"send", c>>
    <3>1. c \in Viewers
      BY <1>1, <1>2, <2>1, ElementOfSeq
    <3> QED BY <3>1, ViewerNames
  <2>6. Spare(a, m) >= 1 /\ b = cu_send_msg(a, c, m)
    BY <1>3, <2>1, <2>2, <2>3, <2>4
  <2>7. Good(b, Recv, n) /\ CuSent(b, a, c, m) /\ Spare(b, m) \in {Spare(a, m), Spare(a, m) - 1}
    BY <2>3, <2>5, <2>6, GoodCuSend
  <2>8. Spare(b, m) >= 1
    BY <2>2, <2>3, <2>4, <2>7
  <2> QED BY <2>1, <2>2, <2>3, <2>7, <2>8 DEF Handing, CuSent, RefOnly
<1> DEFINE Bad == {i \in 0..k : ~Handing(d[i], s, m, n)}
<1>7. Bad = {}
  <2> SUFFICES ASSUME Bad # {} PROVE FALSE
    OBVIOUS
  <2>1. Bad \subseteq Nat
    BY <1>3
  <2> HIDE DEF Bad
  <2>2. PICK i \in Bad : \A j \in Bad : i <= j
    BY <2>1, Least
  <2>3. i \in 0..k /\ ~Handing(d[i], s, m, n)
    BY <2>2 DEF Bad
  <2>4. i # 0
    BY <1>5, <2>3
  <2>5. i \in 1..k /\ i - 1 \in 0..k /\ i - 1 \notin Bad
    BY <1>3, <2>2, <2>3, <2>4
  <2>6. Handing(d[i - 1], s, m, n)
    BY <2>5 DEF Bad
  <2> QED BY <1>6, <2>3, <2>5, <2>6
<1>8. PICK z : z = d[k]
  OBVIOUS
<1>9. Good(z, Recv, n) /\ Spare(z, m) >= 1 /\ z.pc = s.pc
  <2>1. k \in 0..k
    BY <1>3
  <2> QED BY <1>7, <1>8, <2>1 DEF Handing
<1>10. Good(u, Recv, n) /\ RefOnly(u, z)
  BY <1>4, <1>8, <1>9, GoodReleaseMsg
<1> QED BY <1>9, <1>10 DEF RefOnly

(* A turn of the receiving thread of the front end keeps the invariant.    *)
LEMMA GoodRecvThread ==
  ASSUME NEW s, NEW n, Good(s, Recv, n), s.pc[Recv] # "none",
         NEW kind \in {"none", "frame"}, frames \in Nat,
         kind = "frame" => frames < MaxFrames,
         NEW fail \in BOOLEAN, NEW u, u = handle_recv(s, kind, fail)
  PROVE  Good(u, NoThread, n)
<1>1. CASE kind = "frame"
  <2>1. PICK m, v : m = <<"frame", frames + 1>> /\ v = Forward(s, m)
    OBVIOUS
  <2>2. m \in Msgs /\ m # VideoCmd
    <3>1. frames + 1 \in 1..MaxFrames
      BY <1>1, NvsAssumption
    <3> QED BY <2>1, <3>1 DEF Msgs, VideoCmd
  <2>3. Good(v, Recv, n) /\ v.pc[Recv] # "none"
    BY <2>1, <2>2, GoodForward
  <2>4. u = PuRead(v, fail)
    BY <1>1, <2>1 DEF handle_recv
  <2> QED BY <2>3, <2>4, GoodPuRead
<1>2. CASE kind # "frame"
  <2>1. u = PuRead(s, fail)
    BY <1>2 DEF handle_recv
  <2> QED BY <2>1, GoodPuRead
<1> QED BY <1>1, <1>2

-----------------------------------------------------------------------------
(* The threads of a viewer that read and write.                            *)

(* While such a thread runs the viewer is there.                           *)
LEMMA CuServed ==
  ASSUME NEW s, NEW c \in Viewers, NEW t, NEW n, Good(s, t, n),
         s.pc[<<"recv", c>>] # "none" \/ s.pc[<<"send", c>>] # "none"
           \/ s.pc[<<"open", c>>] = "wait"
  PROVE  /\ s.cu[c].alive /\ s.cu[c] \in CuRec /\ s.cu[c].ref \in Nat
         /\ s.cu[c].ref >= CuRefs(s, c) /\ CuRefs(s, c) \in Nat
         /\ s.pc[<<"session", c>>] = "none"
<1>1. s.cu[c] \in CuRec /\ s.cu[c].ref \in Nat /\ Viewer(s, c)
  BY ServerType, CuType DEF Good
<1>2. s.cu[c].alive
  BY <1>1 DEF Viewer
<1> QED BY <1>1, <1>2, CuRefsNat DEF Viewer

(* A thread of a viewer may wait at l, or end.                             *)
MayWait(s, c, r, l) ==
  /\ r \in {"recv", "send"} /\ s.pc[<<r, c>>] # "none" /\ l \in Locs \ {"start"}
  /\ r = "recv" => l \in {"none", "read"}
  /\ r = "send" => l \in {"none", "wait", "write"} /\ (l = "write" <=> s.cu[c].batch # <<>>)

(* A thread of a viewer waits, or ends with a reference it may give up.    *)
LEMMA ViewerWaits ==
  ASSUME NEW s, NEW c \in Viewers, NEW r, NEW n, Good(s, <<r, c>>, n),
         NEW l, MayWait(s, c, r, l), NEW u, u = [s EXCEPT !.pc[<<r, c>>] = l]
  PROVE  /\ Good(u, NoThread, n) /\ u.cu = s.cu
         /\ l = "none" => s.cu[c].alive /\ s.cu[c].ref >= CuRefs(u, c) + 1
<1> r \in {"recv", "send"} /\ l \in Locs \ {"start"} /\ s.pc[<<r, c>>] # "none"
  BY DEF MayWait
<1>0. /\ r = "recv" => l \in {"none", "read"}
      /\ r = "send" => l \in {"none", "wait", "write"} /\ (l = "write" <=> s.cu[c].batch # <<>>)
  BY DEF MayWait
<1>1. s \in Server /\ Locations(s.pc) /\ Viewer(s, c) /\ Sessions(s, n) /\ Batches(s, <<r, c>>)
  BY DEF Good
<1>2. <<r, c>> \in Threads
  BY ViewerNames
<1>3. PcSet(u, s, <<r, c>>, l)
  BY <1>1, <1>2, SetPc
<1>4. /\ u.pu = s.pu /\ u.cu = s.cu /\ u.pc[<<r, c>>] = l
      /\ \A x \in Threads : x # <<r, c>> => u.pc[x] = s.pc[x]
  BY <1>3 DEF PcSet
<1>5. /\ r # "recv" => u.pc[<<"recv", c>>] = s.pc[<<"recv", c>>]
      /\ r # "send" => u.pc[<<"send", c>>] = s.pc[<<"send", c>>]
      /\ u.pc[<<"open", c>>] = s.pc[<<"open", c>>]
      /\ u.pc[<<"session", c>>] = s.pc[<<"session", c>>]
      /\ u.pc[Ses] = s.pc[Ses]
  BY <1>4, ViewerNames, Names
<1>6. \A d \in Viewers : /\ d # c => /\ u.pc[<<"recv", d>>] = s.pc[<<"recv", d>>]
                                     /\ u.pc[<<"send", d>>] = s.pc[<<"send", d>>]
                         /\ u.pc[<<"open", d>>] = s.pc[<<"open", d>>]
                         /\ u.pc[<<"session", d>>] = s.pc[<<"session", d>>]
  BY <1>4, ViewerNames
<1>7. /\ u.pc[Recv] = s.pc[Recv] /\ u.pc[Send] = s.pc[Send]
      /\ u.pc[Heart] = s.pc[Heart] /\ u.pc[Open] = s.pc[Open]
  BY <1>4, ViewerNames, Names
<1>8. Locations(u.pc)
  <2>1. ASSUME NEW d \in Viewers
        PROVE  /\ u.pc[<<"recv", d>>] \in {"none", "start", "read"}
               /\ u.pc[<<"send", d>>] \in {"none", "start", "wait", "write"}
    <3>1. CASE d = c
      BY <1>0, <1>1, <1>4, <1>5, <3>1 DEF Locations
    <3>2. CASE d # c
      BY <1>1, <1>6, <3>2 DEF Locations
    <3> QED BY <3>1, <3>2
  <2> QED BY <1>1, <1>5, <1>6, <1>7, <2>1 DEF Locations
<1>9. /\ s.cu[c].alive /\ s.cu[c].ref \in Nat /\ s.cu[c].ref >= CuRefs(s, c)
      /\ CuRefs(s, c) \in Nat /\ s.pc[<<"session", c>>] = "none"
  BY CuServed
<1>10. /\ l # "none" => CuRefs(u, c) = CuRefs(s, c)
       /\ l = "none" => CuRefs(u, c) = CuRefs(s, c) - 1
  <2>1. PICK i, j, k : /\ i = Bit(s.pc[<<"recv", c>>] # "none")
                       /\ j = Bit(s.pc[<<"send", c>>] # "none")
                       /\ k = Bit(s.pc[<<"open", c>>] = "wait")
    OBVIOUS
  <2>2. PICK x, y : /\ x = Bit(u.pc[<<"recv", c>>] # "none")
                    /\ y = Bit(u.pc[<<"send", c>>] # "none")
    OBVIOUS
  <2>3. CuRefs(s, c) = i + j + 2 * k /\ CuRefs(u, c) = x + y + 2 * k
    BY <1>5, <2>1, <2>2 DEF CuRefs
  <2>4. i \in {0, 1} /\ j \in {0, 1} /\ k \in {0, 1}
    BY <2>1 DEF Bit
  <2>5. CASE r = "recv"
    <3>1. y = j /\ i = 1 /\ (x = IF l = "none" THEN 0 ELSE 1)
      BY <1>4, <1>5, <2>1, <2>2, <2>5 DEF Bit
    <3> QED BY <2>3, <2>4, <3>1
  <2>6. CASE r = "send"
    <3>1. x = i /\ j = 1 /\ (y = IF l = "none" THEN 0 ELSE 1)
      BY <1>4, <1>5, <2>1, <2>2, <2>6 DEF Bit
    <3> QED BY <2>3, <2>4, <3>1
  <2> QED BY <2>5, <2>6
<1>11. s.cu[c].ref >= CuRefs(u, c)
  <2>1. CuRefs(u, c) = CuRefs(s, c) \/ CuRefs(u, c) = CuRefs(s, c) - 1
    BY <1>10
  <2> QED BY <1>9, <2>1
<1>12. Viewer(u, c)
  BY <1>1, <1>4, <1>5, <1>9, <1>11 DEF Viewer
<1>13. Sessions(u, n)
  BY <1>1, <1>4, <1>5, <1>6 DEF Sessions
<1>14. u.pc[<<"send", c>>] = "write" <=> u.cu[c].batch # <<>>
  <2>1. CASE r = "recv"
    <3>1. <<r, c>> # <<"send", c>>
      BY <2>1
    <3> QED BY <1>1, <1>4, <1>5, <2>1, <3>1 DEF Batches
  <2>2. CASE r = "send"
    BY <1>0, <1>4, <2>2
  <2> QED BY <2>1, <2>2
<1>15. Good(u, NoThread, n)
  BY <1>3, <1>8, <1>12, <1>13, <1>14, ViewerStops
<1>16. l = "none" => s.cu[c].ref >= CuRefs(u, c) + 1
  BY <1>9, <1>10
<1> QED BY <1>4, <1>9, <1>15, <1>16

(* The thread ends and closes the connection.                              *)
LEMMA ViewerEnds ==
  ASSUME NEW s, NEW c \in Viewers, NEW r \in {"recv", "send"}, NEW n,
         Good(s, <<r, c>>, n), s.pc[<<r, c>>] # "none",
         r = "send" => s.cu[c].batch = <<>>,
         NEW u, u = cu_close(End(s, <<r, c>>), c)
  PROVE  Good(u, NoThread, n)
<1>1. PICK v, l : v = [s EXCEPT !.pc[<<r, c>>] = l] /\ l = "none"
  OBVIOUS
<1>2. MayWait(s, c, r, l)
  BY <1>1 DEF Locs, MayWait
<1>3. /\ Good(v, NoThread, n) /\ v.cu = s.cu
      /\ l = "none" => s.cu[c].alive /\ s.cu[c].ref >= CuRefs(v, c) + 1
  BY <1>1, <1>2, ViewerWaits
<1>4. u = cu_close(v, c) /\ v.cu[c].alive /\ v.cu[c].ref >= CuRefs(v, c) + 1
  BY <1>1, <1>3 DEF End
<1> QED BY <1>3, <1>4, GoodCuClose

(* The receiving thread of a viewer waits for the next message, or ends.   *)
LEMMA GoodCuRead ==
  ASSUME NEW s, NEW c \in Viewers, NEW n, Good(s, <<"recv", c>>, n),
         s.pc[<<"recv", c>>] # "none", NEW fail \in BOOLEAN, NEW u, u = CuRead(s, c, fail)
  PROVE  Good(u, NoThread, n)
<1>1. PICK r : r = "recv"
  OBVIOUS
<1>2. CASE ~s.cu[c].valid \/ fail
  <2>1. u = cu_close(End(s, <<r, c>>), c)
    BY <1>1, <1>2 DEF CuRead
  <2> QED BY <1>1, <2>1, ViewerEnds
<1>3. CASE ~(~s.cu[c].valid \/ fail)
  <2>1. PICK l : l = "read"
    OBVIOUS
  <2>2. u = [s EXCEPT !.pc[<<r, c>>] = l]
    BY <1>1, <1>3, <2>1 DEF CuRead, At
  <2>3. MayWait(s, c, r, l) /\ Good(s, <<r, c>>, n)
    BY <1>1, <2>1 DEF Locs, MayWait
  <2> QED BY <2>2, <2>3, ViewerWaits
<1> QED BY <1>2, <1>3

(* The sending thread of a viewer goes on with its batch, waits, or ends.  *)
LEMMA GoodCuWrite ==
  ASSUME NEW s, NEW c \in Viewers, NEW n, Good(s, <<"send", c>>, n),
         s.pc[<<"send", c>>] # "none", NEW fail \in BOOLEAN, NEW u, u = CuWrite(s, c, fail)
  PROVE  Good(u, NoThread, n)
<1>1. PICK r : r = "send"
  OBVIOUS
<1>2. s.cu[c].alive
  BY CuServed
<1>3. CASE s.cu[c].batch = <<>>
  <2>1. PICK l : l = "wait"
    OBVIOUS
  <2>2. u = [s EXCEPT !.pc[<<r, c>>] = l]
    BY <1>1, <1>3, <2>1 DEF CuWrite, At
  <2>3. MayWait(s, c, r, l) /\ Good(s, <<r, c>>, n)
    BY <1>1, <1>3, <2>1 DEF Locs, MayWait
  <2> QED BY <2>2, <2>3, ViewerWaits
<1>4. CASE s.cu[c].batch # <<>> /\ (~s.cu[c].valid \/ fail)
  <2>1. PICK v : v = [ReleaseAll(ReleaseAll(s, s.cu[c].batch), s.cu[c].queue) EXCEPT
                        !.cu[c].batch = <<>>, !.cu[c].queue = <<>>]
    OBVIOUS
  <2>2. Good(v, <<"send", c>>, n) /\ CuQueuesOnly(v, s, c) /\ v.cu[c].batch = <<>>
    BY <1>2, <2>1, GoodCuDropped
  <2>3. u = cu_close(End(v, <<r, c>>), c)
    BY <1>1, <1>4, <2>1 DEF CuWrite
  <2>4. v.pc[<<r, c>>] # "none"
    BY <1>1, <2>2 DEF CuQueuesOnly
  <2> QED BY <1>1, <2>2, <2>3, <2>4, ViewerEnds
<1>5. CASE s.cu[c].batch # <<>> /\ ~(~s.cu[c].valid \/ fail)
  <2>1. PICK l : l = "write"
    OBVIOUS
  <2>2. u = [s EXCEPT !.pc[<<r, c>>] = l]
    BY <1>1, <1>5, <2>1 DEF CuWrite, At
  <2>3. MayWait(s, c, r, l) /\ Good(s, <<r, c>>, n)
    BY <1>1, <1>5, <2>1 DEF Locs, MayWait
  <2> QED BY <2>2, <2>3, ViewerWaits
<1> QED BY <1>3, <1>4, <1>5

(* A turn of the sending thread of a viewer keeps the invariant.           *)
LEMMA GoodCuSendThread ==
  ASSUME NEW s, NEW c \in Viewers, NEW n, Good(s, <<"send", c>>, n),
         s.pc[<<"send", c>>] # "none",
         s.pc[<<"send", c>>] = "write" <=> s.cu[c].batch # <<>>, NEW fail \in BOOLEAN,
         NEW u, u = cu_handle_send(s, c, fail)
  PROVE  Good(u, NoThread, n)
<1>1. s.pc[<<"send", c>>] \in {"start", "wait", "write"} /\ s.cu[c].alive
  BY CuServed DEF Good, Locations
<1>2. PICK r : r = "send"
  OBVIOUS
<1>3. CASE s.pc[<<"send", c>>] = "start"
  <2>1. PICK l : l = "wait"
    OBVIOUS
  <2>2. u = [s EXCEPT !.pc[<<r, c>>] = l]
    BY <1>2, <1>3, <2>1 DEF cu_handle_send, At
  <2>3. MayWait(s, c, r, l) /\ Good(s, <<r, c>>, n)
    BY <1>2, <1>3, <2>1 DEF Locs, MayWait
  <2> QED BY <2>2, <2>3, ViewerWaits
<1>4. CASE s.pc[<<"send", c>>] = "wait" /\ ~s.cu[c].valid
  <2>1. PICK v : v = [ReleaseAll(s, s.cu[c].queue) EXCEPT !.cu[c].queue = <<>>]
    OBVIOUS
  <2>2. Good(v, <<"send", c>>, n) /\ CuQueuesOnly(v, s, c) /\ v.cu[c].batch = <<>>
    BY <1>1, <1>4, <2>1, GoodCuCleared
  <2>3. u = cu_close(End(v, <<r, c>>), c)
    BY <1>2, <1>4, <2>1 DEF cu_handle_send
  <2>4. v.pc[<<r, c>>] # "none"
    BY <1>2, <2>2 DEF CuQueuesOnly
  <2> QED BY <1>2, <2>2, <2>3, <2>4, ViewerEnds
<1>5. CASE s.pc[<<"send", c>>] = "wait" /\ s.cu[c].valid
  <2>1. PICK v : v = cu_backup(s, c)
    OBVIOUS
  <2>2. Good(v, <<"send", c>>, n) /\ CuQueuesOnly(v, s, c)
    BY <1>1, <1>5, <2>1, GoodCuBackup
  <2>3. u = CuWrite(v, c, fail)
    BY <1>5, <2>1 DEF cu_handle_send
  <2>4. v.pc[<<"send", c>>] # "none"
    BY <2>2 DEF CuQueuesOnly
  <2> QED BY <2>2, <2>3, <2>4, GoodCuWrite
<1>6. CASE s.pc[<<"send", c>>] = "write"
  <2>1. PICK v : v = CuWritten(s, c)
    OBVIOUS
  <2>2. Good(v, <<"send", c>>, n) /\ CuQueuesOnly(v, s, c)
    BY <1>1, <1>6, <2>1, GoodCuWritten
  <2>3. u = CuWrite(v, c, fail)
    BY <1>6, <2>1 DEF cu_handle_send, CuWritten
  <2>4. v.pc[<<"send", c>>] # "none"
    BY <2>2 DEF CuQueuesOnly
  <2> QED BY <2>2, <2>3, <2>4, GoodCuWrite
<1> QED BY <1>1, <1>3, <1>4, <1>5, <1>6

(* The viewer remembers that it has asked for the video.                   *)
LEMMA CuWrap ==
  ASSUME NEW s, NEW t, NEW n, Good(s, t, n), NEW c \in Viewers, s.cu[c].alive,
         NEW u, u = [s EXCEPT !.cu[c].wrap = TRUE]
  PROVE  /\ Good(u, t, n) /\ u.pc = s.pc /\ u.ref = s.ref /\ u.cu[c].pu = s.cu[c].pu
         /\ u.cu[c].alive /\ \A m \in Msgs : Held(u, m) = Held(s, m)
<1>1. s \in Server /\ s.cu \in [Viewers -> CuRec] /\ s.cu[c] \in CuRec /\ FrontEnd(s)
      /\ Batches(s, t) /\ Counted(s)
  BY ServerType DEF Good
<1>2. PICK r : r = [s.cu[c] EXCEPT !.wrap = TRUE]
  OBVIOUS
<1>3. /\ r \in CuRec /\ r.alive = s.cu[c].alive /\ r.ref = s.cu[c].ref
      /\ r.pu = s.cu[c].pu /\ r.found = s.cu[c].found /\ r.queue = s.cu[c].queue
      /\ r.batch = s.cu[c].batch
  BY <1>1, <1>2 DEF CuRec
<1>4. CuSet(u, s, c, r)
  <2>1. u = [s EXCEPT !.cu[c] = r]
    BY <1>1, <1>2
  <2>2. CuSet([s EXCEPT !.cu[c] = r], s, c, r)
    BY <1>1, <1>3, SetCu
  <2> QED BY <2>1, <2>2
<1>5. /\ u \in Server /\ u.pu = s.pu /\ u.pc = s.pc /\ u.crashed = s.crashed
      /\ u.runq = s.runq /\ u.ref = s.ref /\ u.cu = [s.cu EXCEPT ![c] = r] /\ u.cu[c] = r
      /\ \A d \in Viewers : d # c => u.cu[d] = s.cu[d]
  BY <1>4 DEF CuSet
<1>6. Quiet(u, s, t)
  <2>1. \A d \in Viewers : CuLike(u.cu[d], s.cu[d])
    BY <1>1, <1>3, <1>5 DEF CuLike
  <2>2. PuLike(u.pu, s.pu)
    BY <1>1, <1>5 DEF PuLike, FrontEnd
  <2> QED BY <1>5, <2>1, <2>2 DEF Quiet, Wakes
<1>7. Batches(u, t)
  <2>1. \A d \in Viewers : u.cu[d].batch = s.cu[d].batch
    BY <1>3, <1>5
  <2> QED BY <1>1, <1>5, <2>1 DEF Batches
<1>8. \A m \in Msgs : CuHeld(u, m) = CuHeld(s, m)
  <2>1. s \in Server /\ u \in Server /\ r \in CuRec /\ u.cu = [s.cu EXCEPT ![c] = r]
    BY <1>1, <1>3, <1>4 DEF CuSet
  <2>2. r.queue = s.cu[c].queue /\ r.batch = s.cu[c].batch
    BY <1>3
  <2> QED BY <2>1, <2>2, CuHeldSame
<1>9. \A m \in Msgs : Held(u, m) = Held(s, m)
  BY <1>5, <1>8 DEF Held
<1>10. Counted(u)
  <2>1. VideoCmd \in Msgs
    BY Names
  <2> QED BY <1>1, <1>5, <1>8, <1>9, <2>1 DEF Counted
<1>11. Good(u, t, n)
  BY <1>6, <1>7, <1>10, QuietKeeps
<1> QED BY <1>3, <1>5, <1>9, <1>11

(* A thread starts that shows the video; the reference to the request that *)
(* the receiver has taken is for this thread.                              *)
LEMMA OpenStarts ==
  ASSUME NEW s, NEW c \in Viewers, NEW n, Good(s, <<"recv", c>>, n),
         s.pc[<<"recv", c>>] # "none", s.pc[<<"open", c>>] = "none", s.cu[c].pu,
         Spare(s, <<"open", c>>) >= 1, NEW u, u = st_thread_create(s, <<"open", c>>)
  PROVE  Good(u, <<"recv", c>>, n) /\ u.pc[<<"recv", c>>] # "none"
<1>1. /\ s \in Server /\ Queueing(s, <<"recv", c>>) /\ Locations(s.pc) /\ FrontEnd(s)
      /\ StartUp(s, <<"recv", c>>) /\ Video(s) /\ Batches(s, <<"recv", c>>)
      /\ Sessions(s, n) /\ Counted(s) /\ s.crashed = "no" /\ Viewer(s, c)
  BY DEF Good
<1>2. PICK t, o : t = <<"recv", c>> /\ o = <<"open", c>>
  OBVIOUS
<1>3. o \in Threads /\ t \in Threads /\ o # t /\ o \in Msgs /\ o \notin {Ses, Recv, Send, Heart, Open}
  BY <1>2, ViewerNames
<1>4. Created(u, s, o)
  BY <1>1, <1>2, <1>3, CreateFacts
<1>5. /\ u \in Server /\ Longer(u.runq, s.runq, o) /\ u.pc[o] = "start"
      /\ \A y \in Threads : y # o => u.pc[y] = s.pc[y]
      /\ u.pu = s.pu /\ u.cu = s.cu /\ u.ref = s.ref /\ u.crashed = s.crashed
  BY <1>4 DEF Created
<1>6. Queueing(u, t)
  BY <1>1, <1>2, <1>3, CreateQueueing
<1>7. /\ u.pc[Ses] = s.pc[Ses] /\ u.pc[Recv] = s.pc[Recv] /\ u.pc[Send] = s.pc[Send]
      /\ u.pc[Heart] = s.pc[Heart] /\ u.pc[Open] = s.pc[Open]
  BY <1>3, <1>5, Names
<1>8. \A d \in Viewers : /\ d # c => u.pc[<<"open", d>>] = s.pc[<<"open", d>>]
                         /\ u.pc[<<"session", d>>] = s.pc[<<"session", d>>]
                         /\ u.pc[<<"recv", d>>] = s.pc[<<"recv", d>>]
                         /\ u.pc[<<"send", d>>] = s.pc[<<"send", d>>]
  BY <1>2, <1>5, ViewerNames
<1>9. u.pc[<<"open", c>>] = "start"
  BY <1>2, <1>5
<1>10. Locations(u.pc)
  <2>1. \A d \in Viewers : u.pc[<<"open", d>>] \in {"none", "start", "wait"}
    BY <1>1, <1>8, <1>9 DEF Locations
  <2> QED BY <1>1, <1>7, <1>8, <2>1 DEF Locations
<1>11. /\ \A x : In(x, u.runq) <=> In(x, s.runq) \/ x = o
       /\ Before(s.runq, Recv, Send) => Before(u.runq, Recv, Send)
  BY <1>3, <1>5 DEF Longer
<1>12. StartUp(u, t)
  <2>1. /\ On(Recv, u, t) <=> On(Recv, s, t)
        /\ On(Heart, u, t) <=> On(Heart, s, t)
        /\ On(Send, u, t) <=> On(Send, s, t)
        /\ In(Send, s.runq) => In(Send, u.runq)
    BY <1>3, <1>11 DEF On
  <2> QED BY <1>1, <1>2, <1>7, <1>11, <2>1 DEF StartUp, Young
<1>13. FrontEnd(u)
  <2>1. Attached(u) = Attached(s)
    BY <1>5 DEF Attached
  <2>2. PuRefs(u) = PuRefs(s)
    BY <1>7, <2>1 DEF PuRefs
  <2> QED BY <1>1, <1>5, <1>7, <2>2 DEF FrontEnd, Young, NoneServes
<1>14. Video(u)
  <2>1. \A d \in Viewers : u.pc[<<"open", d>>] = "wait" <=> s.pc[<<"open", d>>] = "wait"
    BY <1>8, <1>9
  <2> QED BY <1>1, <1>5, <2>1 DEF Video
<1>15. ASSUME NEW d \in Viewers PROVE Viewer(u, d)
  <2>1. CASE d = c
    <3>1. CuRefs(u, c) = CuRefs(s, c)
      <4>1. Bit(u.pc[<<"open", c>>] = "wait") = Bit(s.pc[<<"open", c>>] = "wait")
        BY <1>9 DEF Bit
      <4> QED BY <1>8, <4>1 DEF CuRefs
    <3>2. s.pc[<<"session", c>>] = "none"
      BY <1>1 DEF Viewer
    <3> QED BY <1>1, <1>5, <1>8, <1>9, <2>1, <3>1, <3>2 DEF Viewer
  <2>2. CASE d # c
    <3>1. Viewer(s, d)
      BY DEF Good
    <3> QED BY <1>5, <1>8, <2>2, <3>1, ViewerSame
  <2> QED BY <2>1, <2>2
<1>16. Batches(u, t)
  <2>1. Batches(s, t)
    BY <1>1, <1>2
  <2>2. /\ u.pu.batch = s.pu.batch /\ u.pc[Send] = s.pc[Send]
        /\ \A d \in Viewers : /\ u.cu[d].batch = s.cu[d].batch
                              /\ u.pc[<<"send", d>>] = s.pc[<<"send", d>>]
    BY <1>5, <1>7, <1>8
  <2> QED BY <2>1, <2>2 DEF Batches
<1>17. Sessions(u, n)
  <2>1. \A d \in Viewers : u.pc[<<"session", d>>] = s.pc[<<"session", d>>]
    BY <1>8
  <2> QED BY <1>1, <1>5, <1>7, <2>1, SessionsSame
<1>18. Counted(u)
  <2>1. \A m : CuHeld(u, m) = CuHeld(s, m)
    BY <1>5 DEF CuHeld
  <2>2. ASSUME NEW m \in Msgs PROVE u.ref[m] >= Held(u, m)
    <3>1. /\ PuHeld(s.pu, m) \in Nat /\ CuHeld(s, m) \in Nat /\ s.ref[m] \in Nat
          /\ OpenHeld(s.pc, m) \in {0, 1} /\ OpenHeld(u.pc, m) \in {0, 1}
      BY <1>1, <1>5, HeldNat
    <3>2. /\ Held(u, m) = PuHeld(s.pu, m) + CuHeld(s, m) + OpenHeld(u.pc, m)
          /\ Held(s, m) = PuHeld(s.pu, m) + CuHeld(s, m) + OpenHeld(s.pc, m)
      BY <1>5, <2>1 DEF Held
    <3>3. CASE m = o
      <4>1. OpenHeld(s.pc, m) = 0
        BY <1>2, <3>3 DEF OpenHeld, Bit
      <4>2. s.ref[m] - Held(s, m) >= 1
        BY <1>2, <3>3 DEF Spare
      <4> QED BY <1>5, <3>1, <3>2, <4>1, <4>2
    <3>4. CASE m # o
      <4>1. OpenHeld(u.pc, m) = OpenHeld(s.pc, m)
        <5>1. CASE m \in {"open"} \X Viewers
          <6>1. PICK d \in Viewers : m = <<"open", d>>
            BY <5>1
          <6>2. u.pc[m] = s.pc[m]
            BY <1>2, <1>8, <3>4, <6>1
          <6> QED BY <6>2 DEF OpenHeld
        <5>2. CASE m \notin {"open"} \X Viewers
          BY <5>2 DEF OpenHeld, Bit
        <5> QED BY <5>1, <5>2
      <4>2. s.ref[m] >= Held(s, m)
        BY <1>1 DEF Counted
      <4> QED BY <1>5, <3>2, <4>1, <4>2
    <3> QED BY <3>3, <3>4
  <2> QED BY <1>1, <2>1, <2>2 DEF Counted
<1>19. Good(u, t, n)
  BY <1>1, <1>5, <1>6, <1>10, <1>12, <1>13, <1>14, <1>15, <1>16, <1>17, <1>18 DEF Good
<1> QED BY <1>2, <1>8, <1>19

(* A turn of the receiving thread of a viewer keeps the invariant.         *)
LEMMA GoodCuRecvThread ==
  ASSUME NEW s, NEW c \in Viewers, NEW n, Good(s, <<"recv", c>>, n),
         s.pc[<<"recv", c>>] # "none",
         NEW kind \in {"none", "beat", "open", "other"},
         kind = "none" <=> s.pc[<<"recv", c>>] = "start",
         kind = "open" => s.ref[<<"open", c>>] = 0,
         NEW fail \in BOOLEAN, NEW u, u = cu_handle_recv(s, c, kind, fail)
  PROVE  Good(u, NoThread, n)
<1>1. s \in Server /\ s.pc[<<"recv", c>>] \in {"start", "read"}
  BY DEF Good, Locations
<1>2. s.cu[c].alive
  BY CuServed
<1>3. <<"open", c>> \in Msgs /\ <<"beat", c>> \in Msgs /\ <<"beat", c>> # VideoCmd
  BY ViewerNames
<1>4. CASE s.pc[<<"recv", c>>] = "start"
  <2>1. u = CuRead(s, c, fail)
    BY <1>4 DEF cu_handle_recv
  <2> QED BY <2>1, GoodCuRead
<1>5. CASE s.pc[<<"recv", c>>] = "read" /\ (~check_net(s, c) \/ kind = "other")
  <2>1. PICK r : r = "recv"
    OBVIOUS
  <2>2. u = cu_close(End(s, <<r, c>>), c)
    BY <1>5, <2>1 DEF cu_handle_recv
  <2> QED BY <2>1, <2>2, ViewerEnds
<1>6. CASE s.pc[<<"recv", c>>] = "read" /\ check_net(s, c) /\ kind = "beat"
  <2>1. PICK m, a, b : m = <<"beat", c>> /\ a = AddMsg(s, m) /\ b = cu_send_msg(a, c, m)
    OBVIOUS
  <2>2. Good(a, <<"recv", c>>, n) /\ RefOnly(a, s) /\ Spare(a, m) = Spare(s, m) + 1
    BY <1>3, <2>1, GoodAddMsg
  <2>3. Spare(a, m) >= 1
    <3>1. Spare(s, m) \in Nat
      BY <1>3, <2>1, SpareInt
    <3> QED BY <2>2, <3>1
  <2>4. Good(b, <<"recv", c>>, n) /\ CuSent(b, a, c, m)
    <3>1. <<"recv", c>> # <<"send", c>>
      OBVIOUS
    <3> QED BY <1>3, <2>1, <2>2, <2>3, <3>1, GoodCuSend
  <2>5. u = CuRead(b, c, fail)
    BY <1>6, <2>1 DEF cu_handle_recv
  <2>6. b.pc[<<"recv", c>>] # "none"
    BY <2>2, <2>4 DEF CuSent, RefOnly
  <2> QED BY <2>4, <2>5, <2>6, GoodCuRead
<1>7. CASE s.pc[<<"recv", c>>] = "read" /\ check_net(s, c) /\ kind = "open"
  <2>1. PICK m, a, b, z : /\ m = <<"open", c>> /\ a = AddMsg(s, m)
                          /\ b = [a EXCEPT !.cu[c].wrap = TRUE]
                          /\ z = st_thread_create(b, m)
    OBVIOUS
  <2>2. Good(a, <<"recv", c>>, n) /\ RefOnly(a, s) /\ Spare(a, m) = Spare(s, m) + 1
    BY <1>3, <2>1, GoodAddMsg
  <2>3. Spare(a, m) >= 1
    <3>1. Spare(s, m) \in Nat
      BY <1>3, <2>1, SpareInt
    <3> QED BY <2>2, <3>1
  <2>4. s.pc[m] = "none"
    <3>1. s.ref[m] = 0 /\ s.ref[m] >= Held(s, m)
      BY <1>3, <1>7, <2>1 DEF Good, Counted
    <3>2. /\ PuHeld(s.pu, m) \in Nat /\ CuHeld(s, m) \in Nat /\ OpenHeld(s.pc, m) \in {0, 1}
          /\ Held(s, m) \in Nat
          /\ Held(s, m) = PuHeld(s.pu, m) + CuHeld(s, m) + OpenHeld(s.pc, m)
      BY <1>1, <1>3, <2>1, HeldNat
    <3>3. OpenHeld(s.pc, m) = 0
      BY <3>1, <3>2
    <3> QED BY <2>1, <3>3 DEF OpenHeld, Bit
  <2>5. /\ Good(b, <<"recv", c>>, n) /\ b.pc = a.pc /\ b.ref = a.ref
        /\ b.cu[c].pu = a.cu[c].pu /\ b.cu[c].alive
        /\ \A x \in Msgs : Held(b, x) = Held(a, x)
    <3>1. a.cu[c].alive
      BY <1>2, <2>2 DEF RefOnly
    <3> QED BY <2>1, <2>2, <3>1, CuWrap
  <2>6. b.pc = s.pc /\ b.cu[c].pu /\ Spare(b, m) >= 1
    BY <1>3, <1>7, <2>1, <2>2, <2>3, <2>5 DEF check_net, RefOnly, Spare
  <2>7. Good(z, <<"recv", c>>, n) /\ z.pc[<<"recv", c>>] # "none"
    <3>1. b.pc[<<"recv", c>>] # "none" /\ b.pc[<<"open", c>>] = "none"
      BY <2>1, <2>4, <2>6
    <3>2. Spare(b, <<"open", c>>) >= 1 /\ z = st_thread_create(b, <<"open", c>>)
      BY <2>1, <2>6
    <3> QED BY <2>5, <2>6, <3>1, <3>2, OpenStarts
  <2>8. u = CuRead(z, c, fail)
    BY <1>7, <2>1 DEF cu_handle_recv
  <2> QED BY <2>7, <2>8, GoodCuRead
<1> QED BY <1>1, <1>4, <1>5, <1>6, <1>7

-----------------------------------------------------------------------------
(* The thread of a viewer that shows the video.                            *)

(* The viewer is put into the list of the front end, with the references   *)
(* that the list, the thread and its request have, and the thread waits.   *)
Listed(s, c) ==
  At(AddMsg(OpenVideo([s EXCEPT !.cu[c].ref = @ + 1], c), <<"open", c>>), <<"open", c>>, "wait")

(* u is s after Listed: p and r are the new records of the front end and   *)
(* of the viewer.                                                          *)
ListedFrom(u, s, c, p, r) ==
  /\ u \in Server /\ u.runq = s.runq /\ u.crashed = s.crashed
  /\ u.pc[<<"open", c>>] = "wait"
  /\ \A x \in Threads : x # <<"open", c>> => u.pc[x] = s.pc[x]
  /\ u.pu = p /\ p.alive = s.pu.alive /\ p.id = s.pu.id /\ p.ref = s.pu.ref /\ p.cmd = s.pu.cmd
  /\ p.valid = s.pu.valid /\ p.queue = s.pu.queue /\ p.batch = s.pu.batch
  /\ p.vec = Append(s.pu.vec, c)
  /\ r \in CuRec /\ u.cu = [s.cu EXCEPT ![c] = r] /\ u.cu[c] = r
  /\ \A d \in Viewers : d # c => u.cu[d] = s.cu[d]
  /\ r.alive = s.cu[c].alive /\ r.ref = s.cu[c].ref + 2 /\ r.pu = s.cu[c].pu
  /\ r.found = s.cu[c].found /\ r.queue = s.cu[c].queue /\ r.batch = s.cu[c].batch
  /\ u.ref[VideoCmd] = s.ref[VideoCmd] + 1 /\ u.ref[<<"open", c>>] = s.ref[<<"open", c>>] + 1
  /\ \A m \in Msgs : m # VideoCmd /\ m # <<"open", c>> => u.ref[m] = s.ref[m]

(* Listed, as changes of the two records and of the thread.                *)
LEMMA ListedIs ==
  ASSUME NEW s \in Server, NEW c \in Viewers, NEW u, u = Listed(s, c)
  PROVE  \E p, r : ListedFrom(u, s, c, p, r)
<1>1. s.cu \in [Viewers -> CuRec] /\ s.cu[c] \in CuRec /\ s.pu \in PuRec
  BY ServerType
<1>2. PICK k : k = s.cu[c].ref
  OBVIOUS
<1>3. k \in Nat
  BY <1>1, <1>2, CuType
<1>4. PICK r1, r2, p : /\ r1 = [s.cu[c] EXCEPT !.ref = k + 1]
                       /\ r2 = [s.cu[c] EXCEPT !.ref = k + 2]
                       /\ p = [s.pu EXCEPT !.vec = Append(s.pu.vec, c)]
  OBVIOUS
<1>5. /\ r1 \in CuRec /\ r1.ref = k + 1 /\ r2 \in CuRec /\ r2.ref = k + 2
      /\ r2.alive = s.cu[c].alive /\ r2.pu = s.cu[c].pu /\ r2.found = s.cu[c].found
      /\ r2.queue = s.cu[c].queue /\ r2.batch = s.cu[c].batch
      /\ r2 = [r1 EXCEPT !.ref = @ + 1]
  <2>1. PICK i, j : i = k + 1 /\ j = k + 2
    OBVIOUS
  <2>2. i \in Nat /\ j \in Nat /\ j = i + 1
    BY <1>3, <2>1
  <2>3. r1 = [s.cu[c] EXCEPT !.ref = i] /\ r2 = [s.cu[c] EXCEPT !.ref = j]
    BY <1>4, <2>1
  <2>4. /\ r1 \in CuRec /\ r1.ref = i /\ r2 \in CuRec /\ r2.ref = j
        /\ r2.alive = s.cu[c].alive /\ r2.pu = s.cu[c].pu /\ r2.found = s.cu[c].found
        /\ r2.queue = s.cu[c].queue /\ r2.batch = s.cu[c].batch
        /\ r2 = [r1 EXCEPT !.ref = j]
    BY <1>1, <2>2, <2>3 DEF CuRec
  <2> QED BY <2>1, <2>2, <2>4
<1>6. /\ p \in PuRec /\ p.alive = s.pu.alive /\ p.id = s.pu.id /\ p.ref = s.pu.ref
      /\ p.cmd = s.pu.cmd /\ p.valid = s.pu.valid /\ p.queue = s.pu.queue
      /\ p.batch = s.pu.batch /\ p.vec = Append(s.pu.vec, c)
  <2>1. PICK q : q = Append(s.pu.vec, c)
    OBVIOUS
  <2>2. q \in Seq(Viewers)
    BY <1>1, <2>1, PuType, AppendProperties
  <2> QED BY <1>1, <1>4, <2>1, <2>2 DEF PuRec
<1>7. PICK a, b, d : /\ a = [s EXCEPT !.cu[c] = r1] /\ b = [a EXCEPT !.cu[c] = r2]
                     /\ d = [b EXCEPT !.pu = p]
  OBVIOUS
<1>8. CuSet(a, s, c, r1)
  BY <1>1, <1>5, <1>7, SetCu
<1>9. a \in Server /\ a.cu[c] = r1 /\ a.cu = [s.cu EXCEPT ![c] = r1] /\ a.pu = s.pu
      /\ a.pc = s.pc /\ a.runq = s.runq /\ a.crashed = s.crashed /\ a.ref = s.ref
  BY <1>8 DEF CuSet
<1>10. CuSet(b, a, c, r2)
  BY <1>5, <1>7, <1>9, SetCu
<1>11. b \in Server /\ b.cu = [a.cu EXCEPT ![c] = r2] /\ b.cu[c] = r2 /\ b.pu = s.pu
       /\ b.pc = s.pc /\ b.runq = s.runq /\ b.crashed = s.crashed /\ b.ref = s.ref
  BY <1>9, <1>10 DEF CuSet
<1>12. PuSet(d, b, p)
  BY <1>6, <1>7, <1>11, SetPu
<1>13. d \in Server /\ d.cu = b.cu /\ d.pu = p
       /\ d.pc = s.pc /\ d.runq = s.runq /\ d.crashed = s.crashed /\ d.ref = s.ref
  BY <1>11, <1>12 DEF PuSet
<1>14. d.cu = [s.cu EXCEPT ![c] = r2] /\ d.cu[c] = r2
       /\ \A e \in Viewers : e # c => d.cu[e] = s.cu[e]
  BY <1>1, <1>9, <1>11, <1>13
<1>15. PICK o, x, y, l : o = <<"open", c>> /\ x = AddMsg(d, VideoCmd) /\ y = AddMsg(x, o) /\ l = "wait"
  OBVIOUS
<1>16. u = [y EXCEPT !.pc[o] = l]
  <2>1. [s EXCEPT !.cu[c].ref = @ + 1] = a
    BY <1>1, <1>2, <1>4, <1>7
  <2>2. [a EXCEPT !.cu[c].ref = @ + 1, !.pu.vec = Append(@, c)] = d
    <3>1. [a EXCEPT !.cu[c].ref = @ + 1] = b
      BY <1>5, <1>7, <1>9
    <3>2. [b EXCEPT !.pu.vec = Append(@, c)] = d
      BY <1>4, <1>7, <1>11
    <3>3. [a EXCEPT !.cu[c].ref = @ + 1, !.pu.vec = Append(@, c)]
            = [[a EXCEPT !.cu[c].ref = @ + 1] EXCEPT !.pu.vec = Append(@, c)]
      OBVIOUS
    <3> QED BY <3>1, <3>2, <3>3
  <2>3. OpenVideo(a, c) = x
    BY <1>15, <2>2 DEF OpenVideo
  <2> QED BY <1>15, <2>1, <2>3 DEF Listed, At
<1>17. o \in Msgs /\ o \in Threads /\ o # VideoCmd /\ VideoCmd \in Msgs /\ l \in Locs
  BY <1>15, ViewerNames, Names DEF Locs
<1>18. RefOnly(x, d) /\ x.ref = [d.ref EXCEPT ![VideoCmd] = @ + 1]
  BY <1>13, <1>15, <1>17, AddMsgFacts
<1>19. RefOnly(y, x) /\ y.ref = [x.ref EXCEPT ![o] = @ + 1]
  <2>1. x \in Server
    BY <1>18 DEF RefOnly
  <2> QED BY <1>15, <1>17, <2>1, AddMsgFacts
<1>20. y \in Server /\ y.cu = d.cu /\ y.pu = p /\ y.pc = s.pc /\ y.runq = s.runq
       /\ y.crashed = s.crashed
  BY <1>13, <1>18, <1>19 DEF RefOnly
<1>21. PcSet(u, y, o, l)
  BY <1>16, <1>17, <1>20, SetPc
<1>22. /\ u \in Server /\ u.cu = d.cu /\ u.pu = p /\ u.runq = s.runq /\ u.crashed = s.crashed
       /\ u.ref = y.ref /\ u.pc[o] = l /\ \A z \in Threads : z # o => u.pc[z] = s.pc[z]
  BY <1>20, <1>21 DEF PcSet
<1>23. \A m \in Msgs : u.ref[m] = s.ref[m] + (IF m = VideoCmd \/ m = o THEN 1 ELSE 0)
  <2>1. s.ref \in [Msgs -> Nat]
    BY ServerType
  <2> QED BY <1>13, <1>17, <1>18, <1>19, <1>22, <2>1
<1>24. \A m \in Msgs : s.ref[m] \in Nat
  BY ServerType
<1>25. /\ u.ref[VideoCmd] = s.ref[VideoCmd] + 1 /\ u.ref[o] = s.ref[o] + 1
       /\ \A m \in Msgs : m # VideoCmd /\ m # o => u.ref[m] = s.ref[m]
  BY <1>17, <1>23, <1>24
<1>26. r2.ref = s.cu[c].ref + 2
  BY <1>2, <1>5
<1>27. ListedFrom(u, s, c, p, r2)
  BY <1>5, <1>6, <1>14, <1>15, <1>22, <1>25, <1>26 DEF ListedFrom
<1> QED BY <1>27

(* The order of the signal and of the reference that follows it does not   *)
(* matter.                                                                 *)
LEMMA SendCommutes ==
  ASSUME NEW x \in Server, NEW c \in Viewers, NEW o, o = <<"open", c>>
  PROVE  At(AddMsg(cu_send_msg(x, c, o), o), o, "wait")
           = cu_send_msg(At(AddMsg(x, o), o, "wait"), c, o)
<1>1. PICK q, f, p, g, r, k :
         /\ x = [runq |-> q, pc |-> f, pu |-> p, cu |-> g, ref |-> r, crashed |-> k]
         /\ q = x.runq /\ f = x.pc /\ g = x.cu /\ r = x.ref
  BY ServerType
<1>2. f \in [Threads -> Locs] /\ g \in [Viewers -> CuRec] /\ r \in [Msgs -> Nat]
  BY <1>1, ServerType
<1>3. PICK n, l : n = <<"send", c>> /\ l = "wait"
  OBVIOUS
<1>4. o \in Threads /\ n \in Threads /\ n # o /\ o \in Msgs
  BY <1>3, ViewerNames
<1>5. PICK f2, r2, r3, g2, q2 :
         /\ f2 = [f EXCEPT ![o] = l] /\ r2 = [r EXCEPT ![o] = @ + 1]
         /\ r3 = [r2 EXCEPT ![o] = @ + 1] /\ g2 = [g EXCEPT ![c].queue = Append(@, o)]
         /\ q2 = IF f[n] = l /\ n \notin ToSet(q) THEN Append(q, n) ELSE q
  OBVIOUS
<1>51. ASSUME NEW z, z.cu = g PROVE [z EXCEPT !.cu[c].queue = Append(@, o)] = [z EXCEPT !.cu = g2]
  <2>1. PICK e : e = Append(g[c].queue, o)
    OBVIOUS
  <2>2. [z EXCEPT !.cu[c].queue = Append(@, o)] = [z EXCEPT !.cu[c].queue = e]
    BY <1>51, <2>1
  <2>3. g2 = [g EXCEPT ![c].queue = e]
    BY <1>5, <2>1
  <2> QED BY <1>51, <2>2, <2>3
<1>52. ASSUME NEW z, z.runq = q, z.pc[n] = f[n], z = [z EXCEPT !.runq = q]
       PROVE  notify(z, n) = [z EXCEPT !.runq = q2]
  <2>1. CASE f[n] = l /\ n \notin ToSet(q)
    BY <1>3, <1>5, <1>52, <2>1 DEF notify
  <2>2. CASE ~(f[n] = l /\ n \notin ToSet(q))
    BY <1>3, <1>5, <1>52, <2>2 DEF notify
  <2> QED BY <2>1, <2>2
<1>6. f2[n] = f[n]
  BY <1>2, <1>4, <1>5
<1>7. AddMsg(x, o) = [runq |-> q, pc |-> f, pu |-> p, cu |-> g, ref |-> r2, crashed |-> k]
  BY <1>1, <1>5 DEF AddMsg
<1>8. PICK y : y = At(AddMsg(x, o), o, l)
  OBVIOUS
<1>9. y = [runq |-> q, pc |-> f2, pu |-> p, cu |-> g, ref |-> r2, crashed |-> k]
  <2>1. y = [AddMsg(x, o) EXCEPT !.pc[o] = l]
    BY <1>8 DEF At
  <2>2. [[runq |-> q, pc |-> f, pu |-> p, cu |-> g, ref |-> r2, crashed |-> k]
            EXCEPT !.pc[o] = l]
          = [runq |-> q, pc |-> [f EXCEPT ![o] = l], pu |-> p, cu |-> g, ref |-> r2,
             crashed |-> k]
    OBVIOUS
  <2> QED BY <1>5, <1>7, <2>1, <2>2
<1>10. CASE ~g[c].valid
  <2>1. cu_send_msg(x, c, o) = x /\ cu_send_msg(y, c, o) = y
    BY <1>1, <1>9, <1>10 DEF cu_send_msg
  <2> QED BY <1>3, <1>8, <2>1
<1>11. CASE g[c].valid
  <2>1. PICK x1, y1, a, b, u, v :
           /\ x1 = AddMsg(x, o) /\ a = [x1 EXCEPT !.cu[c].queue = Append(@, o)]
           /\ y1 = AddMsg(y, o) /\ b = [y1 EXCEPT !.cu[c].queue = Append(@, o)]
           /\ u = notify(a, n) /\ v = AddMsg(u, o)
    OBVIOUS
  <2>2. cu_send_msg(x, c, o) = u /\ cu_send_msg(y, c, o) = notify(b, n)
    BY <1>1, <1>3, <1>9, <1>11, <2>1 DEF cu_send_msg
  <2>3. a = [runq |-> q, pc |-> f, pu |-> p, cu |-> g2, ref |-> r2, crashed |-> k]
    <3>1. x1 = [runq |-> q, pc |-> f, pu |-> p, cu |-> g, ref |-> r2, crashed |-> k]
      BY <1>7, <2>1
    <3>2. a = [x1 EXCEPT !.cu = g2]
      BY <1>51, <2>1, <3>1
    <3> QED BY <3>1, <3>2
  <2>4. y1 = [runq |-> q, pc |-> f2, pu |-> p, cu |-> g, ref |-> r3, crashed |-> k]
    <3>1. y1 = [y EXCEPT !.ref = [r2 EXCEPT ![o] = @ + 1]]
      BY <1>9, <2>1 DEF AddMsg
    <3> QED BY <1>5, <1>9, <3>1
  <2>5. b = [runq |-> q, pc |-> f2, pu |-> p, cu |-> g2, ref |-> r3, crashed |-> k]
    <3>1. b = [y1 EXCEPT !.cu = g2]
      BY <1>51, <2>1, <2>4
    <3> QED BY <2>4, <3>1
  <2>6. u = [runq |-> q2, pc |-> f, pu |-> p, cu |-> g2, ref |-> r2, crashed |-> k]
    <3>1. a.runq = q /\ a.pc[n] = f[n] /\ a = [a EXCEPT !.runq = q]
      BY <2>3
    <3>2. notify(a, n) = [a EXCEPT !.runq = q2]
      <4>1. CASE f[n] = l /\ n \notin ToSet(q)
        BY <1>3, <1>5, <3>1, <4>1 DEF notify
      <4>2. CASE ~(f[n] = l /\ n \notin ToSet(q))
        BY <1>3, <1>5, <3>1, <4>2 DEF notify
      <4> QED BY <4>1, <4>2
    <3>3. [a EXCEPT !.runq = q2]
            = [runq |-> q2, pc |-> f, pu |-> p, cu |-> g2, ref |-> r2, crashed |-> k]
      BY <2>3
    <3>4. u = notify(a, n)
      BY <2>1, Zenon
    <3> QED BY <3>2, <3>3, <3>4, Zenon
  <2>7. notify(b, n) = [runq |-> q2, pc |-> f2, pu |-> p, cu |-> g2, ref |-> r3, crashed |-> k]
    <3>1. b.runq = q /\ b.pc[n] = f[n] /\ b = [b EXCEPT !.runq = q]
      BY <1>6, <2>5
    <3>2. notify(b, n) = [b EXCEPT !.runq = q2]
      BY <1>52, <3>1
    <3> QED BY <2>5, <3>2
  <2>8. v = [runq |-> q2, pc |-> f, pu |-> p, cu |-> g2, ref |-> r3, crashed |-> k]
    <3>1. v = [u EXCEPT !.ref = [r2 EXCEPT ![o] = @ + 1]]
      BY <2>1, <2>6 DEF AddMsg
    <3> QED BY <1>5, <2>6, <3>1
  <2>9. At(v, o, l) = [runq |-> q2, pc |-> f2, pu |-> p, cu |-> g2, ref |-> r3, crashed |-> k]
    <3>1. At(v, o, l) = [v EXCEPT !.pc = f2]
      BY <1>5, <2>8 DEF At
    <3> QED BY <2>8, <3>1
  <2> QED BY <1>3, <1>8, <2>1, <2>2, <2>7, <2>9
<1> QED BY <1>10, <1>11


(* The thread has put its viewer into the list and waits.                  *)
LEMMA GoodListed ==
  ASSUME NEW s, NEW c \in Viewers, NEW n, Good(s, <<"open", c>>, n),
         s.pc[<<"open", c>>] = "start", s.cu[c].alive, s.pu.cmd,
         NEW u, u = Listed(s, c)
  PROVE  Good(u, NoThread, n) /\ Spare(u, <<"open", c>>) >= 1
<1>1. /\ s \in Server /\ Locations(s.pc) /\ FrontEnd(s) /\ Video(s) /\ Sessions(s, n)
      /\ Counted(s) /\ Viewer(s, c) /\ Batches(s, <<"open", c>>) /\ s.crashed = "no"
  BY DEF Good
<1>2. PICK o : o = <<"open", c>>
  OBVIOUS
<1>3. /\ o \in Threads /\ o \in Msgs /\ o # VideoCmd /\ VideoCmd \in Msgs
      /\ o \notin {Ses, Recv, Send, Heart, Open}
  BY <1>2, ViewerNames, Names
<1>4. PICK p, r : ListedFrom(u, s, c, p, r)
  BY <1>1, ListedIs
<1>5. /\ u \in Server /\ u.runq = s.runq /\ u.crashed = s.crashed /\ u.pc[o] = "wait"
      /\ \A x \in Threads : x # o => u.pc[x] = s.pc[x]
  BY <1>2, <1>4 DEF ListedFrom
<1>6. /\ u.pu = p /\ p.alive = s.pu.alive /\ p.id = s.pu.id /\ p.ref = s.pu.ref
      /\ p.cmd = s.pu.cmd /\ p.valid = s.pu.valid /\ p.queue = s.pu.queue
      /\ p.batch = s.pu.batch /\ p.vec = Append(s.pu.vec, c)
  BY <1>4 DEF ListedFrom
<1>7. /\ r \in CuRec /\ u.cu = [s.cu EXCEPT ![c] = r] /\ u.cu[c] = r
      /\ \A d \in Viewers : d # c => u.cu[d] = s.cu[d]
      /\ r.alive = s.cu[c].alive /\ r.ref = s.cu[c].ref + 2 /\ r.pu = s.cu[c].pu
      /\ r.found = s.cu[c].found /\ r.queue = s.cu[c].queue /\ r.batch = s.cu[c].batch
  BY <1>4 DEF ListedFrom
<1>8. /\ u.ref[VideoCmd] = s.ref[VideoCmd] + 1 /\ u.ref[o] = s.ref[o] + 1
      /\ \A m \in Msgs : m # VideoCmd /\ m # o => u.ref[m] = s.ref[m]
  BY <1>2, <1>4 DEF ListedFrom
<1>9. Queueing(u, NoThread) /\ StartUp(u, NoThread)
  <2>1. PICK v, l : v = [s EXCEPT !.pc[o] = l] /\ l = "wait"
    OBVIOUS
  <2>2. l \in Locs \ {"start"} /\ PcSet(v, s, o, l)
    <3>1. l \in Locs \ {"start"}
      BY <2>1 DEF Locs
    <3> QED BY <1>1, <1>3, <2>1, <3>1, SetPc
  <2>3. Queueing(v, NoThread) /\ StartUp(v, NoThread)
    <3>1. Good(s, o, n) /\ s.pc[o] # "none"
      BY <1>2
    <3> QED BY <1>3, <2>2, <3>1, Stops
  <2>4. v.runq = u.runq /\ \A x \in Threads : v.pc[x] = u.pc[x]
    BY <1>5, <2>1, <2>2 DEF PcSet
  <2> QED BY <2>3, <2>4, Names DEF Queueing, StartUp, On, Young
<1>10. /\ u.pc[Ses] = s.pc[Ses] /\ u.pc[Recv] = s.pc[Recv] /\ u.pc[Send] = s.pc[Send]
       /\ u.pc[Heart] = s.pc[Heart] /\ u.pc[Open] = s.pc[Open]
  BY <1>3, <1>5, Names
<1>11. \A d \in Viewers : /\ d # c => u.pc[<<"open", d>>] = s.pc[<<"open", d>>]
                          /\ u.pc[<<"session", d>>] = s.pc[<<"session", d>>]
                          /\ u.pc[<<"recv", d>>] = s.pc[<<"recv", d>>]
                          /\ u.pc[<<"send", d>>] = s.pc[<<"send", d>>]
  BY <1>2, <1>5, ViewerNames
<1>12. u.pc[<<"open", c>>] = "wait"
  BY <1>2, <1>5
<1>13. Locations(u.pc)
  <2>1. \A d \in Viewers : u.pc[<<"open", d>>] \in {"none", "start", "wait"}
    BY <1>1, <1>11, <1>12 DEF Locations
  <2> QED BY <1>1, <1>10, <1>11, <2>1 DEF Locations
<1>14. FrontEnd(u)
  <2>1. Attached(u) = Attached(s)
    BY <1>7 DEF Attached
  <2>2. PuRefs(u) = PuRefs(s)
    BY <1>10, <2>1 DEF PuRefs
  <2>3. s.pu.alive
    BY <1>1 DEF FrontEnd, NoPu
  <2> QED BY <1>1, <1>6, <1>10, <2>2, <2>3 DEF FrontEnd, Young, NoneServes
<1>15. s.pu.vec \in Seq(Viewers) /\ Len(s.pu.vec) \in Nat
  BY <1>1, ServerType, PuType, LenProperties
<1>16. PICK q : q = Append(s.pu.vec, c)
  OBVIOUS
<1>17. Longer(q, s.pu.vec, c)
  BY <1>15, <1>16, AppendFacts
<1>18. Video(u)
  <2>1. ~In(c, s.pu.vec) /\ Distinct(s.pu.vec)
    BY <1>1 DEF Video
  <2>2. Distinct(u.pu.vec) /\ \A d : In(d, u.pu.vec) <=> In(d, s.pu.vec) \/ d = c
    BY <1>6, <1>16, <1>17, <2>1 DEF Longer
  <2>3. \A d \in Viewers : u.cu[d].pu => u.pu.cmd
    BY <1>1, <1>6, <1>7 DEF Video
  <2>4. \A d \in Viewers : In(d, u.pu.vec) <=> u.pc[<<"open", d>>] = "wait"
    BY <1>1, <1>11, <1>12, <2>2 DEF Video
  <2> QED BY <2>2, <2>3, <2>4 DEF Video
<1>19. ASSUME NEW d \in Viewers PROVE Viewer(u, d)
  <2>1. CASE d = c
    <3>1. CuRefs(u, c) = CuRefs(s, c) + 2
      <4>1. Bit(u.pc[<<"open", c>>] = "wait") = 1 /\ Bit(s.pc[<<"open", c>>] = "wait") = 0
        BY <1>12 DEF Bit
      <4>2. PICK x, y : /\ x = Bit(s.pc[<<"recv", c>>] # "none")
                        /\ y = Bit(s.pc[<<"send", c>>] # "none")
        OBVIOUS
      <4>3. x \in Nat /\ y \in Nat
        BY <4>2 DEF Bit
      <4>4. CuRefs(s, c) = x + y + 2 * 0 /\ CuRefs(u, c) = x + y + 2 * 1
        BY <1>11, <4>1, <4>2 DEF CuRefs
      <4> QED BY <4>3, <4>4
    <3>2. s.cu[c].ref >= CuRefs(s, c) /\ s.cu[c].ref \in Nat /\ CuRefs(s, c) \in Nat
      BY <1>1, ServerType, CuType, CuRefsNat DEF Viewer
    <3>3. r.ref >= CuRefs(u, c)
      BY <1>7, <3>1, <3>2
    <3>4. s.pc[<<"session", c>>] = "none" /\ s.cu[c].pu
      BY <1>1 DEF Viewer
    <3> QED BY <1>7, <1>11, <2>1, <3>3, <3>4 DEF Viewer
  <2>2. CASE d # c
    <3>1. Viewer(s, d) /\ u.cu[d] = s.cu[d]
      BY <1>7, <2>2 DEF Good
    <3>2. /\ u.pc[<<"session", d>>] = s.pc[<<"session", d>>]
          /\ u.pc[<<"recv", d>>] = s.pc[<<"recv", d>>]
          /\ u.pc[<<"send", d>>] = s.pc[<<"send", d>>]
          /\ u.pc[<<"open", d>>] = s.pc[<<"open", d>>]
      BY <1>11, <2>2
    <3> QED BY <3>1, <3>2, ViewerSame
  <2> QED BY <2>1, <2>2
<1>20. Batches(u, NoThread)
  <2>1. /\ u.pu.batch = s.pu.batch /\ u.pc[Send] = s.pc[Send]
        /\ \A d \in Viewers : /\ u.cu[d].batch = s.cu[d].batch
                              /\ u.pc[<<"send", d>>] = s.pc[<<"send", d>>]
    BY <1>6, <1>7, <1>10, <1>11
  <2>2. o # Send /\ \A d \in Viewers : o # <<"send", d>>
    BY <1>2, <1>3
  <2>3. Batches(s, o)
    BY <1>1, <1>2
  <2> QED BY <2>1, <2>2, <2>3 DEF Batches
<1>21. Sessions(u, n)
  <2>1. \A d \in Viewers : u.pc[<<"session", d>>] = s.pc[<<"session", d>>]
    BY <1>11
  <2>2. \A d \in Viewers : u.cu[d].found = s.cu[d].found
    BY <1>7
  <2>3. u.pu.alive = s.pu.alive /\ u.pu.id = s.pu.id /\ u.pu.cmd = s.pu.cmd
    BY <1>6
  <2>4. u.pc[Ses] = s.pc[Ses]
    BY <1>10
  <2>5. Sessions(s, n)
    BY <1>1
  <2> QED BY <2>1, <2>2, <2>3, <2>4, <2>5 DEF Sessions
<1>22. \A m \in Msgs : CuHeld(u, m) = CuHeld(s, m)
  BY <1>1, <1>5, <1>7, CuHeldSame
<1>23. \A m : OpenHeld(u.pc, m) = OpenHeld(s.pc, m)
  <2>1. \A d \in Viewers : u.pc[<<"open", d>>] # "none" <=> s.pc[<<"open", d>>] # "none"
    BY <1>11, <1>12
  <2> QED BY <2>1, OpenHeldSame
<1>24. ASSUME NEW m \in Msgs
       PROVE  PuHeld(u.pu, m) = PuHeld(s.pu, m) + Bit(m = VideoCmd)
  <2>1. Queued(u.pu, m) = Queued(s.pu, m) /\ Queued(s.pu, m) \in Nat
    <3>1. Queued(u.pu, m) = Queued(s.pu, m)
      BY <1>6 DEF Queued
    <3> QED BY <1>1, <3>1, RefCovers
  <2>2. Len(u.pu.vec) = Len(s.pu.vec) + 1
    BY <1>6, <1>16, <1>17 DEF Longer
  <2>3. CASE m = VideoCmd
    <3>1. PuHeld(u.pu, m) = Queued(u.pu, m) + (1 + Len(u.pu.vec))
      BY <1>6, <2>3 DEF PuHeld
    <3>2. PuHeld(s.pu, m) = Queued(s.pu, m) + (1 + Len(s.pu.vec))
      BY <2>3 DEF PuHeld
    <3>3. Bit(m = VideoCmd) = 1
      BY <2>3 DEF Bit
    <3> QED BY <1>15, <2>1, <2>2, <3>1, <3>2, <3>3
  <2>4. CASE m # VideoCmd
    <3>1. PuHeld(u.pu, m) = Queued(u.pu, m) + 0 /\ PuHeld(s.pu, m) = Queued(s.pu, m) + 0
      BY <2>4 DEF PuHeld
    <3>2. Bit(m = VideoCmd) = 0
      BY <2>4 DEF Bit
    <3> QED BY <2>1, <3>1, <3>2
  <2> QED BY <2>3, <2>4
<1>25. ASSUME NEW m \in Msgs
       PROVE  /\ Held(u, m) = Held(s, m) + Bit(m = VideoCmd) /\ Held(s, m) \in Nat
              /\ s.ref[m] \in Nat /\ s.ref[m] >= Held(s, m)
  <2>1. /\ PuHeld(s.pu, m) \in Nat /\ CuHeld(s, m) \in Nat /\ OpenHeld(s.pc, m) \in {0, 1}
        /\ Held(s, m) \in Nat /\ s.ref[m] \in Nat
        /\ Held(s, m) = PuHeld(s.pu, m) + CuHeld(s, m) + OpenHeld(s.pc, m)
    BY <1>1, HeldNat
  <2>2. PICK k : k = Bit(m = VideoCmd)
    OBVIOUS
  <2>3. k \in Nat
    BY <2>2 DEF Bit
  <2>4. Held(u, m) = PuHeld(s.pu, m) + k + CuHeld(s, m) + OpenHeld(s.pc, m)
    BY <1>22, <1>23, <1>24, <2>2 DEF Held
  <2>5. s.ref[m] >= Held(s, m)
    BY <1>1 DEF Counted
  <2> QED BY <2>1, <2>2, <2>3, <2>4, <2>5
<1>26. ASSUME NEW m \in Msgs PROVE u.ref[m] >= Held(u, m)
  <2>1. CASE m = VideoCmd
    <3>1. Bit(m = VideoCmd) = 1
      BY <2>1 DEF Bit
    <3> QED BY <1>8, <1>25, <2>1, <3>1
  <2>2. CASE m # VideoCmd
    <3>1. Bit(m = VideoCmd) = 0
      BY <2>2 DEF Bit
    <3>2. u.ref[m] = s.ref[m] \/ u.ref[m] = s.ref[m] + 1
      BY <1>8, <2>2
    <3> QED BY <1>25, <3>1, <3>2
  <2> QED BY <2>1, <2>2
<1>27. Counted(u)
  BY <1>1, <1>3, <1>22, <1>26 DEF Counted
<1>28. Spare(u, o) >= 1
  <2>1. Bit(o = VideoCmd) = 0
    BY <1>3 DEF Bit
  <2>2. Held(u, o) = Held(s, o) /\ u.ref[o] = s.ref[o] + 1 /\ s.ref[o] >= Held(s, o)
        /\ Held(s, o) \in Nat /\ s.ref[o] \in Nat
    BY <1>3, <1>8, <1>25, <2>1
  <2> QED BY <2>2 DEF Spare
<1>29. Good(u, NoThread, n)
  BY <1>1, <1>5, <1>9, <1>13, <1>14, <1>18, <1>19, <1>20, <1>21, <1>27 DEF Good
<1> QED BY <1>2, <1>28, <1>29


-----------------------------------------------------------------------------
(* The thread of a viewer that shows the video asks the front end for it.  *)
LEMMA OpenAsks ==
  ASSUME NEW s, NEW c \in Viewers, NEW n, Good(s, <<"open", c>>, n),
         s.pc[<<"open", c>>] = "start", s.cu[c].alive, s.pu.cmd,
         NEW u, u = open_real_video(s, c)
  PROVE  Good(u, NoThread, n)
<1>1. PICK o, v, x, y : /\ o = <<"open", c>> /\ v = Listed(s, c)
                        /\ x = OpenVideo([s EXCEPT !.cu[c].ref = @ + 1], c)
                        /\ y = AddMsg(cu_send_msg(x, c, o), o)
  OBVIOUS
<1>2. o \in Msgs /\ o \in Threads /\ o # VideoCmd /\ NoThread # <<"send", c>>
  <2>1. <<"send", c>> \in Threads
    BY ViewerNames
  <2> QED BY <1>1, <2>1, ViewerNames, Names
<1>3. Good(v, NoThread, n) /\ Spare(v, o) >= 1
  BY <1>1, GoodListed
<1>4. v = At(AddMsg(x, o), o, "wait")
  BY <1>1 DEF Listed
<1>5. x \in Server
  <2>1. s \in Server /\ s.cu \in [Viewers -> CuRec] /\ s.cu[c] \in CuRec /\ s.pu \in PuRec
        /\ s.cu[c].ref \in Nat /\ s.pu.vec \in Seq(Viewers)
    BY ServerType, PuType, CuType DEF Good
  <2>2. PICK i, j, q : i = s.cu[c].ref + 1 /\ j = i + 1 /\ q = Append(s.pu.vec, c)
    OBVIOUS
  <2>3. i \in Nat /\ j \in Nat /\ q \in Seq(Viewers)
    BY <2>1, <2>2, AppendProperties
  <2>4. PICK r1, r2, p : /\ r1 = [s.cu[c] EXCEPT !.ref = i] /\ r2 = [r1 EXCEPT !.ref = j]
                         /\ p = [s.pu EXCEPT !.vec = q]
    OBVIOUS
  <2>5. r1 \in CuRec /\ r1.ref = i /\ r2 \in CuRec
    BY <2>1, <2>3, <2>4 DEF CuRec
  <2>6. p \in PuRec
    BY <2>1, <2>3, <2>4 DEF PuRec
  <2>7. PICK a, b, d : /\ a = [s EXCEPT !.cu[c] = r1] /\ b = [a EXCEPT !.cu[c] = r2]
                       /\ d = [b EXCEPT !.pu = p]
    OBVIOUS
  <2>8. a \in Server /\ a.cu[c] = r1 /\ a.pu = s.pu
    <3>1. CuSet(a, s, c, r1)
      BY <2>1, <2>5, <2>7, SetCu
    <3> QED BY <3>1 DEF CuSet
  <2>9. b \in Server /\ b.pu = s.pu
    <3>1. CuSet(b, a, c, r2)
      BY <2>5, <2>7, <2>8, SetCu
    <3> QED BY <2>8, <3>1 DEF CuSet
  <2>10. d \in Server
    <3>1. PuSet(d, b, p)
      BY <2>6, <2>7, <2>9, SetPu
    <3> QED BY <3>1 DEF PuSet
  <2>11. [s EXCEPT !.cu[c].ref = @ + 1] = a
    BY <2>1, <2>2, <2>4, <2>7
  <2>12. [a EXCEPT !.cu[c].ref = @ + 1, !.pu.vec = Append(@, c)] = d
    <3>1. [a EXCEPT !.cu[c].ref = @ + 1] = b
      BY <2>2, <2>4, <2>5, <2>7, <2>8
    <3>2. [b EXCEPT !.pu.vec = Append(@, c)] = d
      BY <2>2, <2>4, <2>7, <2>9
    <3>3. [a EXCEPT !.cu[c].ref = @ + 1, !.pu.vec = Append(@, c)]
            = [[a EXCEPT !.cu[c].ref = @ + 1] EXCEPT !.pu.vec = Append(@, c)]
      OBVIOUS
    <3> QED BY <3>1, <3>2, <3>3
  <2>13. x = AddMsg(d, VideoCmd)
    BY <1>1, <2>11, <2>12 DEF OpenVideo
  <2>14. VideoCmd \in Msgs
    BY Names
  <2>15. RefOnly(x, d)
    BY <2>10, <2>13, <2>14, AddMsgFacts
  <2> QED BY <2>15 DEF RefOnly
<1>6. u = At(y, o, "wait")
  BY <1>1 DEF open_real_video
<1>7. u = cu_send_msg(v, c, o)
  <2>1. At(y, o, "wait") = cu_send_msg(At(AddMsg(x, o), o, "wait"), c, o)
    BY <1>1, <1>5, SendCommutes
  <2> QED BY <1>4, <1>6, <2>1
<1> QED BY <1>2, <1>3, <1>7, GoodCuSend

(* The viewer has been taken out of the list of the front end, and what    *)
(* the list, the thread and its request referred to has been given up.     *)
Unlisted(s, c) ==
  [ReleaseMsg(CloseVideo(End(s, <<"open", c>>), c), <<"open", c>>) EXCEPT !.cu[c].pu = FALSE]

(* u is s after Unlisted: p and r are the new records of the front end and *)
(* of the viewer.                                                          *)
UnlistedFrom(u, s, c, p, r) ==
  /\ u \in Server /\ u.runq = s.runq /\ u.crashed = s.crashed
  /\ u.pc[<<"open", c>>] = "none"
  /\ \A x \in Threads : x # <<"open", c>> => u.pc[x] = s.pc[x]
  /\ u.pu = p /\ p.alive = s.pu.alive /\ p.id = s.pu.id /\ p.ref = s.pu.ref /\ p.cmd = s.pu.cmd
  /\ p.valid = s.pu.valid /\ p.queue = s.pu.queue /\ p.batch = s.pu.batch
  /\ \E i \in 1..Len(s.pu.vec) : s.pu.vec[i] = c /\ p.vec = RemoveAt(s.pu.vec, i)
  /\ r \in CuRec /\ u.cu = [s.cu EXCEPT ![c] = r] /\ u.cu[c] = r
  /\ \A d \in Viewers : d # c => u.cu[d] = s.cu[d]
  /\ r.alive = s.cu[c].alive /\ r.ref = s.cu[c].ref - 1 /\ ~r.pu
  /\ r.found = s.cu[c].found /\ r.queue = s.cu[c].queue /\ r.batch = s.cu[c].batch
  /\ u.ref[VideoCmd] = s.ref[VideoCmd] - 1 /\ u.ref[<<"open", c>>] = s.ref[<<"open", c>>] - 1
  /\ \A m \in Msgs : m # VideoCmd /\ m # <<"open", c>> => u.ref[m] = s.ref[m]

(* Unlisted, as changes of the two records and of the thread.              *)
LEMMA UnlistedIs ==
  ASSUME NEW s \in Server, NEW c \in Viewers, In(c, s.pu.vec), s.cu[c].alive,
         s.cu[c].ref >= 2, s.ref[VideoCmd] >= 1, s.ref[<<"open", c>>] >= 1,
         NEW u, u = Unlisted(s, c)
  PROVE  \E p, r : UnlistedFrom(u, s, c, p, r)
<1>1. /\ s.cu \in [Viewers -> CuRec] /\ s.cu[c] \in CuRec /\ s.pu \in PuRec
      /\ s.pu.vec \in Seq(Viewers)
  BY ServerType, PuType
<1>2. PICK o, e, l : o = <<"open", c>> /\ e = [s EXCEPT !.pc[o] = l] /\ l = "none"
  OBVIOUS
<1>3. o \in Msgs /\ o \in Threads /\ o # VideoCmd /\ VideoCmd \in Msgs /\ l \in Locs
  BY <1>2, ViewerNames, Names DEF Locs
<1>4. PcSet(e, s, o, l)
  BY <1>2, <1>3, SetPc
<1>5. /\ e \in Server /\ e.cu = s.cu /\ e.pu = s.pu /\ e.runq = s.runq
      /\ e.crashed = s.crashed /\ e.ref = s.ref /\ e.pc[o] = l
      /\ \A x \in Threads : x # o => e.pc[x] = s.pc[x]
  BY <1>4 DEF PcSet
<1>6. PICK k : k = s.cu[c].ref - 1
  OBVIOUS
<1>7. s.cu[c].ref \in Nat
  BY <1>1, CuType
<1>71. k \in Nat /\ s.cu[c].ref > 1
  BY <1>6, <1>7
<1>8. PICK F, i, q : /\ F = {j \in DOMAIN s.pu.vec : s.pu.vec[j] = c}
                     /\ i = Min(F) /\ q = RemoveAt(s.pu.vec, i)
  OBVIOUS
<1>9. F \subseteq 1..Len(s.pu.vec) /\ F \subseteq Nat /\ F # {}
  <2>1. Len(s.pu.vec) \in Nat /\ DOMAIN s.pu.vec = 1..Len(s.pu.vec)
    BY <1>1, LenProperties
  <2> QED BY <1>8, <2>1 DEF In
<1>10. i \in F
  <2>1. \E x \in F : \A y \in F : x <= y
    BY <1>9, Least
  <2> QED BY <1>8, <2>1 DEF Min
<1>11. i \in 1..Len(s.pu.vec) /\ s.pu.vec[i] = c
  BY <1>8, <1>9, <1>10
<1>12. q \in Seq(Viewers)
  BY <1>1, <1>8, <1>11, RemoveFacts
<1>13. PICK r1, r2, p : /\ r1 = [s.cu[c] EXCEPT !.ref = k] /\ r2 = [r1 EXCEPT !.pu = FALSE]
                        /\ p = [s.pu EXCEPT !.vec = q]
  OBVIOUS
<1>14. /\ r1 \in CuRec /\ r2 \in CuRec /\ r2.ref = k /\ ~r2.pu
       /\ r2.alive = s.cu[c].alive /\ r2.found = s.cu[c].found
       /\ r2.queue = s.cu[c].queue /\ r2.batch = s.cu[c].batch
  BY <1>1, <1>71, <1>13 DEF CuRec
<1>15. /\ p \in PuRec /\ p.alive = s.pu.alive /\ p.id = s.pu.id /\ p.ref = s.pu.ref
       /\ p.cmd = s.pu.cmd /\ p.valid = s.pu.valid /\ p.queue = s.pu.queue
       /\ p.batch = s.pu.batch /\ p.vec = q
  BY <1>1, <1>12, <1>13 DEF PuRec
<1>16. PICK a, b, d, g : /\ a = [e EXCEPT !.cu[c] = r1] /\ b = [a EXCEPT !.pu = p]
                         /\ d = ReleaseMsg(b, VideoCmd) /\ g = ReleaseMsg(d, o)
  OBVIOUS
<1>17. CuSet(a, e, c, r1)
  BY <1>5, <1>14, <1>16, SetCu
<1>18. /\ a \in Server /\ a.cu = [s.cu EXCEPT ![c] = r1] /\ a.cu[c] = r1 /\ a.pu = s.pu
       /\ a.pc = e.pc /\ a.runq = s.runq /\ a.crashed = s.crashed /\ a.ref = s.ref
  BY <1>5, <1>17 DEF CuSet
<1>19. PuSet(b, a, p)
  BY <1>15, <1>16, <1>18, SetPu
<1>20. /\ b \in Server /\ b.cu = a.cu /\ b.pu = p
       /\ b.pc = e.pc /\ b.runq = s.runq /\ b.crashed = s.crashed /\ b.ref = s.ref
  BY <1>18, <1>19 DEF PuSet
<1>21. RefOnly(d, b) /\ d.ref = [b.ref EXCEPT ![VideoCmd] = @ - 1]
  <2>1. b.ref[VideoCmd] >= 1
    BY <1>20
  <2>2. b \in Server /\ VideoCmd \in Msgs /\ d = ReleaseMsg(b, VideoCmd)
    BY <1>3, <1>16, <1>20
  <2> QED BY <2>1, <2>2, ReleaseMsgFacts
<1>22. s.ref \in [Msgs -> Nat]
  BY ServerType
<1>23. RefOnly(g, d) /\ g.ref = [d.ref EXCEPT ![o] = @ - 1]
  <2>1. d \in Server
    BY <1>21 DEF RefOnly
  <2>2. d.ref[o] >= 1
    BY <1>2, <1>3, <1>20, <1>21, <1>22
  <2> QED BY <1>3, <1>16, <2>1, <2>2, ReleaseMsgFacts
<1>24. /\ g \in Server /\ g.cu = a.cu /\ g.pu = p /\ g.pc = e.pc
       /\ g.runq = s.runq /\ g.crashed = s.crashed
  BY <1>20, <1>21, <1>23 DEF RefOnly
<1>25. u = [g EXCEPT !.cu[c] = r2]
  <2>1. cu_release(e, c) = a
    <3>1. cu_release(e, c) = [e EXCEPT !.cu[c].ref = @ - 1]
      BY <1>5, <1>71 DEF cu_release
    <3> QED BY <1>1, <1>5, <1>6, <1>13, <1>16, <3>1
  <2>2. [a EXCEPT !.pu.vec = RemoveAt(@, i)] = b
    BY <1>8, <1>13, <1>16, <1>18
  <2>3. CloseVideo(e, c) = d
    <3>1. {j \in DOMAIN e.pu.vec : e.pu.vec[j] = c} = F
      BY <1>5, <1>8
    <3>2. CloseVideo(e, c)
            = ReleaseMsg([cu_release(e, c) EXCEPT !.pu.vec = RemoveAt(@, Min(F))], VideoCmd)
      BY <1>9, <3>1 DEF CloseVideo
    <3>3. CloseVideo(e, c) = ReleaseMsg([a EXCEPT !.pu.vec = RemoveAt(@, i)], VideoCmd)
      BY <1>8, <2>1, <3>2
    <3> QED BY <1>16, <2>2, <3>3
  <2>4. u = [g EXCEPT !.cu[c].pu = FALSE]
    BY <1>2, <1>16, <2>3 DEF Unlisted, End
  <2> QED BY <1>13, <1>18, <1>24, <2>4
<1>26. CuSet(u, g, c, r2)
  BY <1>14, <1>24, <1>25, SetCu
<1>27. /\ u \in Server /\ u.cu = [g.cu EXCEPT ![c] = r2] /\ u.cu[c] = r2 /\ u.pu = p
       /\ u.runq = s.runq /\ u.crashed = s.crashed /\ u.pc = e.pc /\ u.ref = g.ref
  BY <1>24, <1>26 DEF CuSet
<1>28. u.cu = [s.cu EXCEPT ![c] = r2] /\ \A x \in Viewers : x # c => u.cu[x] = s.cu[x]
  BY <1>1, <1>18, <1>24, <1>27
<1>29. \A m \in Msgs : u.ref[m] = s.ref[m] - (IF m = VideoCmd \/ m = o THEN 1 ELSE 0)
  BY <1>3, <1>20, <1>21, <1>22, <1>23, <1>27
<1>30. /\ u.ref[VideoCmd] = s.ref[VideoCmd] - 1 /\ u.ref[o] = s.ref[o] - 1
       /\ \A m \in Msgs : m # VideoCmd /\ m # o => u.ref[m] = s.ref[m]
  BY <1>3, <1>22, <1>29
<1>31. r2.ref = s.cu[c].ref - 1
  BY <1>6, <1>14
<1>32. u.pc[<<"open", c>>] = "none" /\ \A x \in Threads : x # <<"open", c>> => u.pc[x] = s.pc[x]
  BY <1>2, <1>5, <1>27
<1>33. \E j \in 1..Len(s.pu.vec) : s.pu.vec[j] = c /\ p.vec = RemoveAt(s.pu.vec, j)
  BY <1>8, <1>11, <1>15
<1>34. UnlistedFrom(u, s, c, p, r2)
  BY <1>2, <1>14, <1>15, <1>27, <1>28, <1>30, <1>31, <1>32, <1>33 DEF UnlistedFrom
<1> QED BY <1>34

(* What the thread that waits in the list may count on.                    *)
Listing(s, c) ==
  /\ In(c, s.pu.vec) /\ s.cu[c].alive /\ s.cu[c].pu /\ s.pu.alive /\ s.pu.cmd
  /\ s.cu[c].ref >= CuRefs(s, c) /\ CuRefs(s, c) >= 2
  /\ s.ref[VideoCmd] >= 1 /\ s.ref[<<"open", c>>] >= 1

(* A viewer whose request waits is in the list of the front end, with the  *)
(* references that are to be given up.                                     *)
LEMMA OpenIsListed ==
  ASSUME NEW s, NEW t, NEW c \in Viewers, NEW n, Good(s, t, n), s.pc[<<"open", c>>] = "wait"
  PROVE  Listing(s, c)
<1>1. /\ s \in Server /\ FrontEnd(s) /\ Video(s) /\ Counted(s) /\ Viewer(s, c)
  BY DEF Good
<1>2. In(c, s.pu.vec) /\ s.cu[c].alive /\ s.cu[c].pu /\ s.pu.cmd /\ s.cu[c].ref >= CuRefs(s, c)
  BY <1>1 DEF Video, Viewer
<1>3. s.pu.alive
  BY <1>1, <1>2 DEF FrontEnd, NoPu
<1>4. CuRefs(s, c) >= 2
  <2>1. PICK x, y, z : /\ x = Bit(s.pc[<<"recv", c>>] # "none")
                       /\ y = Bit(s.pc[<<"send", c>>] # "none")
                       /\ z = Bit(s.pc[<<"open", c>>] = "wait")
    OBVIOUS
  <2>2. x \in Nat /\ y \in Nat /\ z = 1
    BY <2>1 DEF Bit
  <2>3. CuRefs(s, c) = x + y + 2 * z
    BY <2>1 DEF CuRefs
  <2> QED BY <2>2, <2>3
<1>5. VideoCmd \in Msgs /\ <<"open", c>> \in Msgs
  BY Names, ViewerNames
<1>6. s.ref[VideoCmd] >= 1
  <2>1. /\ PuHeld(s.pu, VideoCmd) \in Nat /\ CuHeld(s, VideoCmd) \in Nat
        /\ OpenHeld(s.pc, VideoCmd) \in {0, 1} /\ s.ref[VideoCmd] \in Nat
        /\ Held(s, VideoCmd) = PuHeld(s.pu, VideoCmd) + CuHeld(s, VideoCmd) + OpenHeld(s.pc, VideoCmd)
    BY <1>1, <1>5, HeldNat
  <2>2. s.pu.vec \in Seq(Viewers) /\ Len(s.pu.vec) \in Nat /\ s.pu \in PuRec
    BY <1>1, ServerType, PuType, LenProperties
  <2>3. Queued(s.pu, VideoCmd) \in Nat
    BY <1>1, <1>5, RefCovers
  <2>4. PuHeld(s.pu, VideoCmd) = Queued(s.pu, VideoCmd) + (1 + Len(s.pu.vec))
    BY <1>2 DEF PuHeld
  <2>5. s.ref[VideoCmd] >= Held(s, VideoCmd)
    BY <1>1, <1>5 DEF Counted
  <2>6. PuHeld(s.pu, VideoCmd) >= 1
    BY <2>2, <2>3, <2>4
  <2> QED BY <2>1, <2>5, <2>6
<1>7. s.ref[<<"open", c>>] >= 1
  <2>1. PICK o : o = <<"open", c>>
    OBVIOUS
  <2>2. /\ PuHeld(s.pu, o) \in Nat /\ CuHeld(s, o) \in Nat
        /\ s.ref[o] \in Nat /\ Held(s, o) = PuHeld(s.pu, o) + CuHeld(s, o) + OpenHeld(s.pc, o)
    BY <1>1, <1>5, <2>1, HeldNat
  <2>3. OpenHeld(s.pc, o) = 1
    BY <2>1 DEF OpenHeld, Bit
  <2>4. s.ref[o] >= Held(s, o)
    BY <1>1, <1>5, <2>1 DEF Counted
  <2>5. s.ref[o] >= 1
    BY <2>2, <2>3, <2>4
  <2> QED BY <2>1, <2>5
<1> QED BY <1>2, <1>3, <1>4, <1>6, <1>7 DEF Listing

(* The thread has given its place in the list up: its references to the    *)
(* front end and to the viewer are left to it.                             *)
LEMMA GoodUnlisted ==
  ASSUME NEW s, NEW c \in Viewers, NEW n, Good(s, <<"open", c>>, n),
         s.pc[<<"open", c>>] = "wait", NEW u, u = Unlisted(s, c)
  PROVE  /\ Good(u, NoThread, n) /\ u.pu.alive /\ u.pu.ref >= PuRefs(u) + 1
         /\ u.cu[c].alive /\ u.cu[c].ref >= CuRefs(u, c) + 1
<1>1. /\ s \in Server /\ Locations(s.pc) /\ FrontEnd(s) /\ Video(s) /\ Sessions(s, n)
      /\ Counted(s) /\ Viewer(s, c) /\ Batches(s, <<"open", c>>) /\ s.crashed = "no"
  BY DEF Good
<1>2. PICK o : o = <<"open", c>>
  OBVIOUS
<1>3. /\ o \in Threads /\ o \in Msgs /\ o # VideoCmd /\ VideoCmd \in Msgs
      /\ o \notin {Ses, Recv, Send, Heart, Open}
  BY <1>2, ViewerNames, Names
<1>4. Listing(s, c)
  BY OpenIsListed
<1>41. /\ In(c, s.pu.vec) /\ s.cu[c].alive /\ s.cu[c].pu /\ s.pu.alive /\ s.pu.cmd
       /\ s.cu[c].ref >= CuRefs(s, c) /\ s.ref[VideoCmd] >= 1 /\ s.ref[o] >= 1
       /\ s.cu[c].ref \in Nat /\ CuRefs(s, c) \in Nat /\ CuRefs(s, c) >= 2
  BY <1>1, <1>2, <1>4, ServerType, CuType, CuRefsNat DEF Listing
<1>42. PICK p, r : UnlistedFrom(u, s, c, p, r)
  <2>1. s.cu[c].ref >= 2
    BY <1>41
  <2>2. s.ref[<<"open", c>>] >= 1
    BY <1>2, <1>41
  <2> QED BY <1>1, <1>41, <2>1, <2>2, UnlistedIs
<1>5. /\ u \in Server /\ u.runq = s.runq /\ u.crashed = s.crashed /\ u.pc[o] = "none"
      /\ \A x \in Threads : x # o => u.pc[x] = s.pc[x]
  BY <1>2, <1>42 DEF UnlistedFrom
<1>6. /\ u.pu = p /\ p.alive = s.pu.alive /\ p.id = s.pu.id /\ p.ref = s.pu.ref
      /\ p.cmd = s.pu.cmd /\ p.valid = s.pu.valid /\ p.queue = s.pu.queue
      /\ p.batch = s.pu.batch
      /\ \E i \in 1..Len(s.pu.vec) : s.pu.vec[i] = c /\ p.vec = RemoveAt(s.pu.vec, i)
  BY <1>42 DEF UnlistedFrom
<1>7. /\ r \in CuRec /\ u.cu = [s.cu EXCEPT ![c] = r] /\ u.cu[c] = r
      /\ \A d \in Viewers : d # c => u.cu[d] = s.cu[d]
      /\ r.alive = s.cu[c].alive /\ r.ref = s.cu[c].ref - 1 /\ ~r.pu
      /\ r.found = s.cu[c].found /\ r.queue = s.cu[c].queue /\ r.batch = s.cu[c].batch
  BY <1>42 DEF UnlistedFrom
<1>8. /\ u.ref[VideoCmd] = s.ref[VideoCmd] - 1 /\ u.ref[o] = s.ref[o] - 1
      /\ \A m \in Msgs : m # VideoCmd /\ m # o => u.ref[m] = s.ref[m]
  BY <1>2, <1>42 DEF UnlistedFrom
<1>9. Queueing(u, NoThread) /\ StartUp(u, NoThread)
  <2>1. PICK v, l : v = [s EXCEPT !.pc[o] = l] /\ l = "none"
    OBVIOUS
  <2>2. l \in Locs \ {"start"} /\ PcSet(v, s, o, l)
    <3>1. l \in Locs \ {"start"}
      BY <2>1 DEF Locs
    <3> QED BY <1>1, <1>3, <2>1, <3>1, SetPc
  <2>3. Queueing(v, NoThread) /\ StartUp(v, NoThread)
    <3>1. Good(s, o, n) /\ s.pc[o] # "none"
      BY <1>2
    <3> QED BY <1>3, <2>2, <3>1, Stops
  <2>4. v.runq = u.runq /\ \A x \in Threads : v.pc[x] = u.pc[x]
    BY <1>5, <2>1, <2>2 DEF PcSet
  <2> QED BY <2>3, <2>4, Names DEF Queueing, StartUp, On, Young
<1>10. /\ u.pc[Ses] = s.pc[Ses] /\ u.pc[Recv] = s.pc[Recv] /\ u.pc[Send] = s.pc[Send]
       /\ u.pc[Heart] = s.pc[Heart] /\ u.pc[Open] = s.pc[Open]
  BY <1>3, <1>5, Names
<1>11. \A d \in Viewers : /\ d # c => u.pc[<<"open", d>>] = s.pc[<<"open", d>>]
                          /\ u.pc[<<"session", d>>] = s.pc[<<"session", d>>]
                          /\ u.pc[<<"recv", d>>] = s.pc[<<"recv", d>>]
                          /\ u.pc[<<"send", d>>] = s.pc[<<"send", d>>]
  BY <1>2, <1>5, ViewerNames
<1>12. u.pc[<<"open", c>>] = "none"
  BY <1>2, <1>5
<1>13. Locations(u.pc)
  <2>1. \A d \in Viewers : u.pc[<<"open", d>>] \in {"none", "start", "wait"}
    BY <1>1, <1>11, <1>12 DEF Locations
  <2> QED BY <1>1, <1>10, <1>11, <2>1 DEF Locations
<1>14. PuRefs(u) = PuRefs(s) - 1 /\ PuRefs(s) \in Nat /\ PuRefs(u) \in Nat
  <2>1. PICK v : v = [s EXCEPT !.cu = u.cu]
    OBVIOUS
  <2>2. v.cu = [s.cu EXCEPT ![c] = r] /\ v.pc = s.pc /\ v.cu = u.cu
    BY <1>1, <1>7, <2>1 DEF Server
  <2>3. PuRefs(v) = PuRefs(s) - 1
    BY <1>1, <1>7, <1>41, <2>2, AttachedOne
  <2>4. Attached(u) = Attached(v)
    BY <2>2 DEF Attached
  <2>5. PuRefs(u) = PuRefs(v)
    BY <1>10, <2>2, <2>4 DEF PuRefs
  <2> QED BY <2>3, <2>5, PuRefsNat
<1>15. /\ s.pu.ref >= PuRefs(s) /\ s.pu.ref \in Nat /\ s.pu \in PuRec
  BY <1>1, <1>41, ServerType, PuType DEF FrontEnd
<1>16. u.pu.alive /\ u.pu.ref >= PuRefs(u) + 1
  BY <1>6, <1>14, <1>15, <1>41
<1>17. FrontEnd(u)
  <2>1. u.pu.ref >= PuRefs(u)
    BY <1>6, <1>14, <1>15
  <2> QED BY <1>1, <1>6, <1>10, <1>41, <2>1 DEF FrontEnd, Young, NoneServes
<1>18. PICK i \in 1..Len(s.pu.vec) : s.pu.vec[i] = c /\ p.vec = RemoveAt(s.pu.vec, i)
  BY <1>6
<1>19. s.pu.vec \in Seq(Viewers) /\ Len(s.pu.vec) \in Nat
  BY <1>1, ServerType, PuType, LenProperties
<1>20. Without(p.vec, s.pu.vec, i)
  BY <1>18, <1>19, RemoveFacts
<1>21. Video(u)
  <2>1. Distinct(s.pu.vec)
    BY <1>1 DEF Video
  <2>2. Distinct(u.pu.vec) /\ \A d : In(d, u.pu.vec) <=> In(d, s.pu.vec) /\ d # c
    BY <1>6, <1>18, <1>20, <2>1 DEF Without
  <2>3. \A d \in Viewers : u.cu[d].pu => u.pu.cmd
    BY <1>6, <1>41
  <2>4. \A d \in Viewers : In(d, u.pu.vec) <=> u.pc[<<"open", d>>] = "wait"
    BY <1>1, <1>11, <1>12, <2>2 DEF Video
  <2> QED BY <2>2, <2>3, <2>4 DEF Video
<1>22. u.cu[c].alive /\ u.cu[c].ref >= CuRefs(u, c) + 1 /\ CuRefs(u, c) \in Nat
  <2>1. CuRefs(s, c) = CuRefs(u, c) + 2 /\ CuRefs(u, c) \in Nat
    <3>1. Bit(u.pc[<<"open", c>>] = "wait") = 0 /\ Bit(s.pc[<<"open", c>>] = "wait") = 1
      BY <1>12 DEF Bit
    <3>2. PICK x, y : /\ x = Bit(s.pc[<<"recv", c>>] # "none")
                      /\ y = Bit(s.pc[<<"send", c>>] # "none")
      OBVIOUS
    <3>3. x \in Nat /\ y \in Nat
      BY <3>2 DEF Bit
    <3>4. CuRefs(s, c) = x + y + 2 * 1 /\ CuRefs(u, c) = x + y + 2 * 0
      BY <1>11, <3>1, <3>2 DEF CuRefs
    <3> QED BY <3>3, <3>4
  <2>2. u.cu[c].alive /\ u.cu[c].ref = s.cu[c].ref - 1
    BY <1>7, <1>41
  <2>3. PICK a, j, k : a = s.cu[c].ref /\ j = CuRefs(s, c) /\ k = CuRefs(u, c)
    OBVIOUS
  <2>4. a \in Nat /\ j \in Nat /\ a >= j /\ j = k + 2 /\ k \in Nat
    BY <1>41, <2>1, <2>3
  <2>5. a - 1 >= k + 1
    BY <2>4
  <2> QED BY <2>2, <2>3, <2>4, <2>5
<1>23. ASSUME NEW d \in Viewers PROVE Viewer(u, d)
  <2>1. CASE d = c
    <3>1. u.cu[c].ref >= CuRefs(u, c)
      BY <1>7, <1>22, <1>41
    <3>2. s.pc[<<"session", c>>] = "none"
      BY <1>1, <1>41 DEF Viewer
    <3> QED BY <1>11, <1>12, <1>22, <2>1, <3>1, <3>2 DEF Viewer
  <2>2. CASE d # c
    <3>1. Viewer(s, d) /\ u.cu[d] = s.cu[d]
      BY <1>7, <2>2 DEF Good
    <3>2. /\ u.pc[<<"session", d>>] = s.pc[<<"session", d>>]
          /\ u.pc[<<"recv", d>>] = s.pc[<<"recv", d>>]
          /\ u.pc[<<"send", d>>] = s.pc[<<"send", d>>]
          /\ u.pc[<<"open", d>>] = s.pc[<<"open", d>>]
      BY <1>11, <2>2
    <3> QED BY <3>1, <3>2, ViewerSame
  <2> QED BY <2>1, <2>2
<1>24. Batches(u, NoThread)
  <2>1. /\ u.pu.batch = s.pu.batch /\ u.pc[Send] = s.pc[Send]
        /\ \A d \in Viewers : /\ u.cu[d].batch = s.cu[d].batch
                              /\ u.pc[<<"send", d>>] = s.pc[<<"send", d>>]
    BY <1>6, <1>7, <1>10, <1>11
  <2>2. o # Send /\ \A d \in Viewers : o # <<"send", d>>
    BY <1>2, <1>3
  <2>3. Batches(s, o)
    BY <1>1, <1>2
  <2> QED BY <2>1, <2>2, <2>3 DEF Batches
<1>25. Sessions(u, n)
  <2>1. \A d \in Viewers : u.pc[<<"session", d>>] = s.pc[<<"session", d>>]
    BY <1>11
  <2>2. \A d \in Viewers : u.cu[d].found = s.cu[d].found
    BY <1>7
  <2>3. u.pu.alive = s.pu.alive /\ u.pu.id = s.pu.id /\ u.pu.cmd = s.pu.cmd
    BY <1>6
  <2>4. u.pc[Ses] = s.pc[Ses]
    BY <1>10
  <2>5. Sessions(s, n)
    BY <1>1
  <2> QED BY <2>1, <2>2, <2>3, <2>4, <2>5 DEF Sessions
<1>26. \A m \in Msgs : CuHeld(u, m) = CuHeld(s, m)
  BY <1>1, <1>5, <1>7, CuHeldSame
<1>27. ASSUME NEW m \in Msgs
       PROVE  /\ OpenHeld(u.pc, m) = OpenHeld(s.pc, m) - Bit(m = o)
              /\ OpenHeld(s.pc, m) >= Bit(m = o)
  <2>1. CASE m = o
    <3>1. o \in {"open"} \X Viewers /\ s.pc[o] = "wait"
      BY <1>2
    <3>2. OpenHeld(u.pc, m) = 0 /\ OpenHeld(s.pc, m) = 1 /\ Bit(m = o) = 1
      BY <1>5, <2>1, <3>1 DEF OpenHeld, Bit
    <3> QED BY <3>2
  <2>2. CASE m # o
    <3>1. OpenHeld(u.pc, m) = OpenHeld(s.pc, m)
      <4>1. CASE m \in {"open"} \X Viewers
        <5>1. PICK d \in Viewers : m = <<"open", d>>
          BY <4>1
        <5>2. u.pc[m] = s.pc[m]
          BY <1>2, <1>11, <2>2, <5>1
        <5> QED BY <5>2 DEF OpenHeld
      <4>2. CASE m \notin {"open"} \X Viewers
        BY <4>2 DEF OpenHeld, Bit
      <4> QED BY <4>1, <4>2
    <3>2. Bit(m = o) = 0 /\ OpenHeld(s.pc, m) \in {0, 1}
      BY <2>2 DEF Bit, OpenHeld
    <3> QED BY <3>1, <3>2
  <2> QED BY <2>1, <2>2
<1>28. ASSUME NEW m \in Msgs
       PROVE  PuHeld(u.pu, m) = PuHeld(s.pu, m) - Bit(m = VideoCmd)
  <2>1. Queued(u.pu, m) = Queued(s.pu, m) /\ Queued(s.pu, m) \in Nat
    <3>1. Queued(u.pu, m) = Queued(s.pu, m)
      BY <1>6 DEF Queued
    <3> QED BY <1>1, <3>1, RefCovers
  <2>2. Len(u.pu.vec) = Len(s.pu.vec) - 1
    BY <1>6, <1>20 DEF Without
  <2>3. CASE m = VideoCmd
    <3>1. PuHeld(u.pu, m) = Queued(u.pu, m) + (1 + Len(u.pu.vec))
      BY <1>6, <1>41, <2>3 DEF PuHeld
    <3>2. PuHeld(s.pu, m) = Queued(s.pu, m) + (1 + Len(s.pu.vec))
      BY <1>41, <2>3 DEF PuHeld
    <3>3. Bit(m = VideoCmd) = 1
      BY <2>3 DEF Bit
    <3> QED BY <1>19, <2>1, <2>2, <3>1, <3>2, <3>3
  <2>4. CASE m # VideoCmd
    <3>1. PuHeld(u.pu, m) = Queued(u.pu, m) + 0 /\ PuHeld(s.pu, m) = Queued(s.pu, m) + 0
      BY <2>4 DEF PuHeld
    <3>2. Bit(m = VideoCmd) = 0
      BY <2>4 DEF Bit
    <3> QED BY <2>1, <3>1, <3>2
  <2> QED BY <2>3, <2>4
<1>29. ASSUME NEW m \in Msgs PROVE u.ref[m] >= Held(u, m)
  <2>1. /\ PuHeld(s.pu, m) \in Nat /\ CuHeld(s, m) \in Nat /\ OpenHeld(s.pc, m) \in {0, 1}
        /\ Held(s, m) \in Nat /\ s.ref[m] \in Nat
        /\ Held(s, m) = PuHeld(s.pu, m) + CuHeld(s, m) + OpenHeld(s.pc, m)
    BY <1>1, HeldNat
  <2>2. PICK j, k : j = Bit(m = VideoCmd) /\ k = Bit(m = o)
    OBVIOUS
  <2>3. Held(u, m) = (PuHeld(s.pu, m) - j) + CuHeld(s, m) + (OpenHeld(s.pc, m) - k)
    BY <1>26, <1>27, <1>28, <2>2 DEF Held
  <2>4. u.ref[m] = s.ref[m] - j - k /\ j \in {0, 1} /\ k \in {0, 1}
    <3>1. CASE m = VideoCmd
      <4>1. j = 1 /\ k = 0
        BY <1>3, <2>2, <3>1 DEF Bit
      <4> QED BY <1>8, <2>1, <3>1, <4>1
    <3>2. CASE m = o
      <4>1. j = 0 /\ k = 1
        BY <1>3, <2>2, <3>2 DEF Bit
      <4> QED BY <1>8, <2>1, <3>2, <4>1
    <3>3. CASE m # VideoCmd /\ m # o
      <4>1. j = 0 /\ k = 0
        BY <2>2, <3>3 DEF Bit
      <4> QED BY <1>8, <2>1, <3>3, <4>1
    <3> QED BY <3>1, <3>2, <3>3
  <2>5. s.ref[m] >= Held(s, m)
    BY <1>1 DEF Counted
  <2>6. PICK x, y, z, v : /\ x = PuHeld(s.pu, m) /\ y = CuHeld(s, m)
                          /\ z = OpenHeld(s.pc, m) /\ v = s.ref[m]
    OBVIOUS
  <2>7. /\ x \in Nat /\ y \in Nat /\ z \in Nat /\ v \in Nat /\ v >= x + y + z
        /\ Held(u, m) = (x - j) + y + (z - k) /\ u.ref[m] = v - j - k
        /\ j \in Nat /\ k \in Nat
    BY <2>1, <2>3, <2>4, <2>5, <2>6
  <2>8. v - j - k >= (x - j) + y + (z - k)
    BY <2>7
  <2> QED BY <2>7, <2>8
<1>30. Counted(u)
  BY <1>1, <1>3, <1>26, <1>29 DEF Counted
<1>31. Good(u, NoThread, n)
  BY <1>1, <1>5, <1>9, <1>13, <1>17, <1>21, <1>23, <1>24, <1>25, <1>30 DEF Good
<1> QED BY <1>16, <1>22, <1>31

(* The thread that shows the video runs.                                   *)
LEMMA GoodOpenThread ==
  ASSUME NEW s, NEW c \in Viewers, NEW n, Good(s, <<"open", c>>, n),
         s.pc[<<"open", c>>] # "none", NEW u, u = open_real_video(s, c)
  PROVE  \/ Good(u, NoThread, n)
         \/ u \in Server /\ u.crashed = "open"
<1>1. s \in Server /\ s.pc[<<"open", c>>] \in {"start", "wait"} /\ Viewer(s, c) /\ Video(s)
  BY DEF Good, Locations
<1>2. CASE ~s.cu[c].alive
  <2>1. PICK k : k = "open"
    OBVIOUS
  <2>2. u = [s EXCEPT !.crashed = k]
    BY <1>2, <2>1 DEF open_real_video, Crash
  <2>3. u \in Server /\ u.crashed = k
    BY <1>1, <2>1, <2>2 DEF Server
  <2> QED BY <2>1, <2>3
<1>3. CASE s.cu[c].alive
  <2>1. s.pu.cmd
    BY <1>1, <1>3 DEF Viewer, Video
  <2>2. CASE s.pc[<<"open", c>>] = "start"
    BY <1>3, <2>1, <2>2, OpenAsks
  <2>3. CASE s.pc[<<"open", c>>] = "wait"
    <3>1. PICK z, v : z = Unlisted(s, c) /\ v = pu_release(z)
      OBVIOUS
    <3>2. u = cu_release(v, c)
      <4>1. s.pc[<<"open", c>>] # "start"
        BY <2>3
      <4> QED BY <1>3, <2>1, <3>1, <4>1 DEF open_real_video, Unlisted
    <3>3. /\ Good(z, NoThread, n) /\ z.pu.alive /\ z.pu.ref >= PuRefs(z) + 1
          /\ z.cu[c].alive /\ z.cu[c].ref >= CuRefs(z, c) + 1
      BY <2>3, <3>1, GoodUnlisted
    <3>4. Good(v, NoThread, n) /\ PuOnly(v, z)
      BY <3>1, <3>3, GoodPuRelease
    <3>5. v.cu[c].alive /\ v.cu[c].ref >= CuRefs(v, c) + 1
      BY <3>3, <3>4 DEF PuOnly, CuRefs
    <3> QED BY <3>2, <3>4, <3>5, GoodCuRelease
  <2> QED BY <1>1, <2>2, <2>3
<1> QED BY <1>2, <1>3


-----------------------------------------------------------------------------
(* The session of a viewer.                                                *)

(* The viewer has a connection, and refers to the front end.               *)
Seated(s, c) ==
  [Attach([End(s, <<"session", c>>) EXCEPT !.cu[c].alive = TRUE], c)
     EXCEPT !.cu[c].valid = TRUE, !.cu[c].ref = 3]

(* x is s after Seated: p and r are the new records of the front end and   *)
(* of the viewer.                                                          *)
SeatedFrom(x, s, c, p, r) ==
  /\ x \in Server /\ x.runq = s.runq /\ x.crashed = s.crashed /\ x.ref = s.ref
  /\ x.pc[<<"session", c>>] = "none"
  /\ \A y \in Threads : y # <<"session", c>> => x.pc[y] = s.pc[y]
  /\ x.pu = p /\ p.alive = s.pu.alive /\ p.id = s.pu.id /\ p.cmd = s.pu.cmd
  /\ p.ref = s.pu.ref + 1 /\ p.valid = s.pu.valid /\ p.vec = s.pu.vec
  /\ p.queue = s.pu.queue /\ p.batch = s.pu.batch
  /\ r \in CuRec /\ x.cu = [s.cu EXCEPT ![c] = r] /\ x.cu[c] = r
  /\ \A d \in Viewers : d # c => x.cu[d] = s.cu[d]
  /\ r.alive /\ r.pu /\ r.ref = 3 /\ r.found = s.cu[c].found
  /\ r.queue = s.cu[c].queue /\ r.batch = s.cu[c].batch

(* Seated, as changes of the two records.                                  *)
LEMMA SeatedIs ==
  ASSUME NEW s \in Server, NEW c \in Viewers, NEW x, x = Seated(s, c)
  PROVE  \E p, r : SeatedFrom(x, s, c, p, r)
<1>1. s.cu \in [Viewers -> CuRec] /\ s.cu[c] \in CuRec /\ s.pu \in PuRec /\ s.pu.ref \in Nat
  BY ServerType, PuType
<1>2. PICK o, e, l : o = <<"session", c>> /\ e = [s EXCEPT !.pc[o] = l] /\ l = "none"
  OBVIOUS
<1>3. o \in Threads /\ l \in Locs
  BY <1>2, ViewerNames DEF Locs
<1>4. PcSet(e, s, o, l)
  BY <1>2, <1>3, SetPc
<1>5. /\ e \in Server /\ e.cu = s.cu /\ e.pu = s.pu /\ e.runq = s.runq
      /\ e.crashed = s.crashed /\ e.ref = s.ref /\ e.pc[o] = l
      /\ \A y \in Threads : y # o => e.pc[y] = s.pc[y]
  BY <1>4 DEF PcSet
<1>6. PICK k, h, b : k = s.pu.ref + 1 /\ h = 3 /\ b = TRUE
  OBVIOUS
<1>7. k \in Nat /\ h \in Nat /\ b \in BOOLEAN
  BY <1>1, <1>6
<1>8. PICK r1, r2, r3, r4, p :
        /\ r1 = [s.cu[c] EXCEPT !.alive = b] /\ r2 = [r1 EXCEPT !.pu = b]
        /\ r3 = [r2 EXCEPT !.valid = b] /\ r4 = [r3 EXCEPT !.ref = h]
        /\ p = [s.pu EXCEPT !.ref = k]
  OBVIOUS
<1>9. r1 \in CuRec /\ r2 \in CuRec /\ r3 \in CuRec /\ r4 \in CuRec
  BY <1>1, <1>7, <1>8 DEF CuRec
<1>10. /\ r4.alive = b /\ r4.pu = b /\ r4.ref = h /\ r4.found = s.cu[c].found
       /\ r4.queue = s.cu[c].queue /\ r4.batch = s.cu[c].batch
  BY <1>1, <1>7, <1>8 DEF CuRec
<1>11. /\ p \in PuRec /\ p.alive = s.pu.alive /\ p.id = s.pu.id /\ p.ref = k
       /\ p.cmd = s.pu.cmd /\ p.valid = s.pu.valid /\ p.queue = s.pu.queue
       /\ p.batch = s.pu.batch /\ p.vec = s.pu.vec
  BY <1>1, <1>7, <1>8 DEF PuRec
<1>12. PICK a1, a2, a3, a4, a5 :
         /\ a1 = [e EXCEPT !.cu[c] = r1] /\ a2 = [a1 EXCEPT !.cu[c] = r2]
         /\ a3 = [a2 EXCEPT !.pu = p] /\ a4 = [a3 EXCEPT !.cu[c] = r3]
         /\ a5 = [a4 EXCEPT !.cu[c] = r4]
  OBVIOUS
<1>13. /\ a1 \in Server /\ a1.cu = [s.cu EXCEPT ![c] = r1] /\ a1.cu[c] = r1
       /\ a1.pu = s.pu /\ a1.pc = e.pc /\ a1.runq = s.runq /\ a1.crashed = s.crashed
       /\ a1.ref = s.ref
  <2>1. CuSet(a1, e, c, r1)
    BY <1>5, <1>9, <1>12, SetCu
  <2> QED BY <1>5, <2>1 DEF CuSet
<1>14. /\ a2 \in Server /\ a2.cu = [a1.cu EXCEPT ![c] = r2] /\ a2.cu[c] = r2
       /\ a2.pu = s.pu /\ a2.pc = e.pc /\ a2.runq = s.runq /\ a2.crashed = s.crashed
       /\ a2.ref = s.ref
  <2>1. CuSet(a2, a1, c, r2)
    BY <1>9, <1>12, <1>13, SetCu
  <2> QED BY <1>13, <2>1 DEF CuSet
<1>15. /\ a3 \in Server /\ a3.cu = a2.cu /\ a3.pu = p /\ a3.pc = e.pc /\ a3.runq = s.runq
       /\ a3.crashed = s.crashed /\ a3.ref = s.ref
  <2>1. PuSet(a3, a2, p)
    BY <1>11, <1>12, <1>14, SetPu
  <2> QED BY <1>14, <2>1 DEF PuSet
<1>16. /\ a4 \in Server /\ a4.cu = [a3.cu EXCEPT ![c] = r3] /\ a4.cu[c] = r3
       /\ a4.pu = p /\ a4.pc = e.pc /\ a4.runq = s.runq /\ a4.crashed = s.crashed
       /\ a4.ref = s.ref
  <2>1. CuSet(a4, a3, c, r3)
    BY <1>9, <1>12, <1>15, SetCu
  <2> QED BY <1>15, <2>1 DEF CuSet
<1>17. /\ a5 \in Server /\ a5.cu = [a4.cu EXCEPT ![c] = r4] /\ a5.cu[c] = r4
       /\ a5.pu = p /\ a5.pc = e.pc /\ a5.runq = s.runq /\ a5.crashed = s.crashed
       /\ a5.ref = s.ref
  <2>1. CuSet(a5, a4, c, r4)
    BY <1>9, <1>12, <1>16, SetCu
  <2> QED BY <1>16, <2>1 DEF CuSet
<1>18. a5.cu = [s.cu EXCEPT ![c] = r4] /\ \A d \in Viewers : d # c => a5.cu[d] = s.cu[d]
  BY <1>1, <1>13, <1>14, <1>15, <1>16, <1>17
<1>19. x = a5
  <2>1. End(s, <<"session", c>>) = e
    BY <1>2 DEF End
  <2>2. [e EXCEPT !.cu[c].alive = TRUE] = a1
    BY <1>5, <1>6, <1>8, <1>12
  <2>3. Attach(a1, c) = a3
    <3>1. Attach(a1, c) = [[a1 EXCEPT !.cu[c].pu = TRUE] EXCEPT !.pu.ref = @ + 1]
      BY DEF Attach
    <3>2. [a1 EXCEPT !.cu[c].pu = TRUE] = a2
      BY <1>6, <1>8, <1>12, <1>13
    <3>3. [a2 EXCEPT !.pu.ref = @ + 1] = a3
      BY <1>6, <1>8, <1>12, <1>14
    <3> QED BY <3>1, <3>2, <3>3
  <2>4. [a3 EXCEPT !.cu[c].valid = TRUE, !.cu[c].ref = 3] = a5
    <3>1. [a3 EXCEPT !.cu[c].valid = TRUE, !.cu[c].ref = 3]
            = [[a3 EXCEPT !.cu[c].valid = TRUE] EXCEPT !.cu[c].ref = 3]
      OBVIOUS
    <3>2. [a3 EXCEPT !.cu[c].valid = TRUE] = a4
      BY <1>6, <1>8, <1>12, <1>14, <1>15
    <3>3. [a4 EXCEPT !.cu[c].ref = 3] = a5
      BY <1>6, <1>8, <1>12, <1>16
    <3> QED BY <3>1, <3>2, <3>3
  <2> QED BY <2>1, <2>2, <2>3, <2>4 DEF Seated
<1>20. r4.alive /\ r4.pu /\ r4.ref = 3 /\ p.ref = s.pu.ref + 1
  BY <1>6, <1>10, <1>11
<1>21. /\ x.pc[<<"session", c>>] = "none"
       /\ \A y \in Threads : y # <<"session", c>> => x.pc[y] = s.pc[y]
  <2>1. x.pc = e.pc
    BY <1>17, <1>19
  <2> QED BY <1>2, <1>5, <2>1
<1>22. SeatedFrom(x, s, c, p, r4)
  BY <1>9, <1>10, <1>11, <1>17, <1>18, <1>19, <1>20, <1>21 DEF SeatedFrom
<1> QED BY <1>22

(* The two threads of a viewer are created.                                *)
Seating(x, c) == st_thread_create(st_thread_create(x, <<"recv", c>>), <<"send", c>>)

(* u is x with the two threads of a viewer behind its run queue.           *)
SeatingFrom(u, x, c) ==
  /\ u \in Server /\ Queueing(u, NoThread)
  /\ \A y : In(y, u.runq) <=> In(y, x.runq) \/ y = <<"recv", c>> \/ y = <<"send", c>>
  /\ Before(x.runq, Recv, Send) => Before(u.runq, Recv, Send)
  /\ u.pc[<<"recv", c>>] = "start" /\ u.pc[<<"send", c>>] = "start"
  /\ \A y \in Threads : y # <<"recv", c>> /\ y # <<"send", c>> => u.pc[y] = x.pc[y]
  /\ u.pu = x.pu /\ u.cu = x.cu /\ u.ref = x.ref /\ u.crashed = x.crashed

(* The threads a viewer gets when its session has been accepted.           *)
LEMMA SeatingIs ==
  ASSUME NEW x \in Server, NEW c \in Viewers, Queueing(x, NoThread),
         x.pc[<<"recv", c>>] = "none", x.pc[<<"send", c>>] = "none",
         NEW u, u = Seating(x, c)
  PROVE  SeatingFrom(u, x, c)
<1>1. PICK a, b, v : a = <<"recv", c>> /\ b = <<"send", c>> /\ v = st_thread_create(x, a)
  OBVIOUS
<1>2. a \in Threads /\ b \in Threads /\ a # b /\ a # NoThread /\ b # NoThread
      /\ Recv # a /\ Recv # b
  BY <1>1, ViewerNames, Names
<1>3. x.pc[a] = "none" /\ x.pc[b] = "none" /\ u = st_thread_create(v, b)
  BY <1>1 DEF Seating
<1>4. Created(v, x, a)
  BY <1>1, <1>2, CreateFacts
<1>5. Queueing(v, NoThread)
  BY <1>1, <1>2, <1>3, CreateQueueing
<1>6. v \in Server /\ v.pc[b] = "none"
  BY <1>2, <1>3, <1>4 DEF Created
<1>7. Created(u, v, b)
  BY <1>2, <1>3, <1>6, CreateFacts
<1>8. Queueing(u, NoThread)
  BY <1>2, <1>3, <1>5, <1>6, CreateQueueing
<1>9. /\ \A y : In(y, v.runq) <=> In(y, x.runq) \/ y = a
      /\ Before(x.runq, Recv, Send) => Before(v.runq, Recv, Send)
  BY <1>2, <1>4 DEF Created, Longer
<1>10. /\ \A y : In(y, u.runq) <=> In(y, v.runq) \/ y = b
       /\ Before(v.runq, Recv, Send) => Before(u.runq, Recv, Send)
  BY <1>2, <1>7 DEF Created, Longer
<1>11. /\ v.pc[a] = "start" /\ \A y \in Threads : y # a => v.pc[y] = x.pc[y]
       /\ v.pu = x.pu /\ v.cu = x.cu /\ v.ref = x.ref /\ v.crashed = x.crashed
  BY <1>4 DEF Created
<1>12. /\ u \in Server /\ u.pc[b] = "start" /\ \A y \in Threads : y # b => u.pc[y] = v.pc[y]
       /\ u.pu = v.pu /\ u.cu = v.cu /\ u.ref = v.ref /\ u.crashed = v.crashed
  BY <1>7 DEF Created
<1>13. u.pc[a] = "start" /\ \A y \in Threads : y # a /\ y # b => u.pc[y] = x.pc[y]
  BY <1>2, <1>11, <1>12
<1> QED BY <1>1, <1>8, <1>9, <1>10, <1>11, <1>12, <1>13 DEF SeatingFrom

(* The viewer and its threads are there; the session still has its own     *)
(* reference.                                                              *)
LEMMA GoodSeating ==
  ASSUME NEW s, NEW c \in Viewers, NEW n, Good(s, <<"session", c>>, n),
         s.pc[<<"session", c>>] # "none", s.pu.cmd,
         NEW x, x = Seated(s, c), NEW u, u = Seating(x, c)
  PROVE  /\ Good(u, NoThread, n)
         /\ u.cu[c].alive /\ u.cu[c].ref >= CuRefs(u, c) + 1
<1>1. /\ s \in Server /\ Locations(s.pc) /\ FrontEnd(s) /\ Video(s) /\ Sessions(s, n)
      /\ Counted(s) /\ Viewer(s, c) /\ Batches(s, <<"session", c>>) /\ s.crashed = "no"
      /\ StartUp(s, <<"session", c>>)
  BY DEF Good
<1>2. PICK o, a, b : o = <<"session", c>> /\ a = <<"recv", c>> /\ b = <<"send", c>>
  OBVIOUS
<1>3. /\ o \in Threads /\ a \in Threads /\ b \in Threads
      /\ o \notin {Ses, Recv, Send, Heart, Open} /\ a \notin {Ses, Recv, Send, Heart, Open}
      /\ b \notin {Ses, Recv, Send, Heart, Open} /\ o # a /\ o # b
      /\ VideoCmd \in Msgs
  BY <1>2, ViewerNames, Names
<1>4. PICK p, r : SeatedFrom(x, s, c, p, r)
  BY <1>1, SeatedIs
<1>5. /\ x \in Server /\ x.runq = s.runq /\ x.crashed = s.crashed /\ x.ref = s.ref
      /\ x.pc[o] = "none" /\ \A y \in Threads : y # o => x.pc[y] = s.pc[y]
  BY <1>2, <1>4 DEF SeatedFrom
<1>6. /\ x.pu = p /\ p.alive = s.pu.alive /\ p.id = s.pu.id /\ p.cmd = s.pu.cmd
      /\ p.ref = s.pu.ref + 1 /\ p.valid = s.pu.valid /\ p.vec = s.pu.vec
      /\ p.queue = s.pu.queue /\ p.batch = s.pu.batch
  BY <1>4 DEF SeatedFrom
<1>7. /\ r \in CuRec /\ x.cu = [s.cu EXCEPT ![c] = r] /\ x.cu[c] = r
      /\ \A d \in Viewers : d # c => x.cu[d] = s.cu[d]
      /\ r.alive /\ r.pu /\ r.ref = 3 /\ r.found = s.cu[c].found
      /\ r.queue = s.cu[c].queue /\ r.batch = s.cu[c].batch
  BY <1>4 DEF SeatedFrom
<1>8. Queueing(x, NoThread) /\ StartUp(x, NoThread)
  <2>1. PICK v, l : v = [s EXCEPT !.pc[o] = l] /\ l = "none"
    OBVIOUS
  <2>2. l \in Locs \ {"start"} /\ PcSet(v, s, o, l)
    <3>1. l \in Locs \ {"start"}
      BY <2>1 DEF Locs
    <3> QED BY <1>1, <1>3, <2>1, <3>1, SetPc
  <2>3. Queueing(v, NoThread) /\ StartUp(v, NoThread)
    <3>1. Good(s, o, n) /\ s.pc[o] # "none"
      BY <1>2
    <3> QED BY <1>3, <2>2, <3>1, Stops
  <2>4. v.runq = x.runq /\ \A y \in Threads : v.pc[y] = x.pc[y]
    BY <1>5, <2>1, <2>2 DEF PcSet
  <2> QED BY <2>3, <2>4, Names DEF Queueing, StartUp, On, Young
<1>9. /\ ~s.cu[c].alive /\ s.pc[<<"open", c>>] = "none" /\ s.pc[a] = "none" /\ s.pc[b] = "none"
      /\ s.cu[c] = [NoCu EXCEPT !.found = s.cu[c].found]
  BY <1>1, <1>2 DEF Viewer
<1>10. ~s.cu[c].pu /\ s.cu[c].batch = <<>>
  BY <1>9 DEF NoCu
<1>11. SeatingFrom(u, x, c)
  <2>1. x.pc[<<"recv", c>>] = "none" /\ x.pc[<<"send", c>>] = "none"
    BY <1>2, <1>3, <1>5, <1>9
  <2> QED BY <1>5, <1>8, <2>1, SeatingIs
<1>12. /\ u \in Server /\ Queueing(u, NoThread)
       /\ \A y : In(y, u.runq) <=> In(y, x.runq) \/ y = a \/ y = b
       /\ Before(x.runq, Recv, Send) => Before(u.runq, Recv, Send)
       /\ u.pc[a] = "start" /\ u.pc[b] = "start"
       /\ \A y \in Threads : y # a /\ y # b => u.pc[y] = x.pc[y]
       /\ u.pu = p /\ u.cu = x.cu /\ u.ref = s.ref /\ u.crashed = s.crashed
  BY <1>2, <1>5, <1>6, <1>11 DEF SeatingFrom
<1>13. u.pc[o] = "none" /\ \A y \in Threads : y # o /\ y # a /\ y # b => u.pc[y] = s.pc[y]
  BY <1>3, <1>5, <1>12
<1>14. /\ u.pc[Ses] = s.pc[Ses] /\ u.pc[Recv] = s.pc[Recv] /\ u.pc[Send] = s.pc[Send]
       /\ u.pc[Heart] = s.pc[Heart] /\ u.pc[Open] = s.pc[Open]
  BY <1>3, <1>13, Names
<1>15. \A d \in Viewers : /\ u.pc[<<"open", d>>] = s.pc[<<"open", d>>]
                          /\ d # c => /\ u.pc[<<"session", d>>] = s.pc[<<"session", d>>]
                                      /\ u.pc[<<"recv", d>>] = s.pc[<<"recv", d>>]
                                      /\ u.pc[<<"send", d>>] = s.pc[<<"send", d>>]
  BY <1>2, <1>13, ViewerNames
<1>16. /\ u.pc[<<"session", c>>] = "none" /\ u.pc[<<"recv", c>>] = "start"
       /\ u.pc[<<"send", c>>] = "start"
  BY <1>2, <1>12, <1>13
<1>17. Locations(u.pc)
  <2>1. \A d \in Viewers : /\ u.pc[<<"session", d>>] \in {"none", "start", "auth"}
                           /\ u.pc[<<"recv", d>>] \in {"none", "start", "read"}
                           /\ u.pc[<<"send", d>>] \in {"none", "start", "wait", "write"}
                           /\ u.pc[<<"open", d>>] \in {"none", "start", "wait"}
    <3> SUFFICES ASSUME NEW d \in Viewers
                 PROVE  /\ u.pc[<<"session", d>>] \in {"none", "start", "auth"}
                        /\ u.pc[<<"recv", d>>] \in {"none", "start", "read"}
                        /\ u.pc[<<"send", d>>] \in {"none", "start", "wait", "write"}
                        /\ u.pc[<<"open", d>>] \in {"none", "start", "wait"}
      OBVIOUS
    <3>1. /\ s.pc[<<"session", d>>] \in {"none", "start", "auth"}
          /\ s.pc[<<"recv", d>>] \in {"none", "start", "read"}
          /\ s.pc[<<"send", d>>] \in {"none", "start", "wait", "write"}
          /\ s.pc[<<"open", d>>] \in {"none", "start", "wait"}
      BY <1>1 DEF Locations
    <3>2. CASE d = c
      BY <1>15, <1>16, <3>1, <3>2
    <3>3. CASE d # c
      BY <1>15, <3>1, <3>3
    <3> QED BY <3>2, <3>3
  <2>2. /\ u.pc[Ses] \in {"none", "start", "auth"} /\ u.pc[Recv] \in {"none", "start", "read"}
        /\ u.pc[Send] \in {"none", "start", "wait", "write"}
        /\ u.pc[Heart] \in {"none", "start", "sleep"} /\ u.pc[Open] \in {"none", "start"}
    BY <1>1, <1>14 DEF Locations
  <2> QED BY <2>1, <2>2 DEF Locations
<1>18. StartUp(u, NoThread)
  <2>1. /\ On(Recv, u, NoThread) <=> On(Recv, x, NoThread)
        /\ On(Send, u, NoThread) <=> On(Send, x, NoThread)
        /\ On(Heart, u, NoThread) <=> On(Heart, x, NoThread)
        /\ In(Send, x.runq) => In(Send, u.runq)
    BY <1>3, <1>12 DEF On
  <2>2. /\ u.pc[Recv] = x.pc[Recv] /\ u.pc[Send] = x.pc[Send]
        /\ u.pc[Heart] = x.pc[Heart] /\ u.pc[Open] = x.pc[Open]
    BY <1>3, <1>12, Names
  <2> QED BY <1>8, <1>12, <2>1, <2>2 DEF StartUp, Young
<1>19. PuRefs(u) = PuRefs(s) + 1 /\ PuRefs(s) \in Nat /\ PuRefs(u) \in Nat
  <2>1. PICK v : v = [s EXCEPT !.cu = u.cu]
    OBVIOUS
  <2>2. v.cu = [s.cu EXCEPT ![c] = r] /\ v.pc = s.pc /\ v.cu = u.cu
    BY <1>1, <1>7, <1>12, <2>1 DEF Server
  <2>3. PuRefs(v) = PuRefs(s) + 1
    BY <1>1, <1>7, <1>10, <2>2, AttachedOne
  <2>4. Attached(u) = Attached(v)
    BY <2>2 DEF Attached
  <2>5. PuRefs(u) = PuRefs(v)
    BY <1>14, <2>2, <2>4 DEF PuRefs
  <2> QED BY <2>3, <2>5, PuRefsNat
<1>20. s.pu.alive
  BY <1>1 DEF FrontEnd, NoPu
<1>21. FrontEnd(u)
  <2>1. s.pu.ref >= PuRefs(s) /\ s.pu.ref \in Nat
    BY <1>1, <1>20, ServerType, PuType DEF FrontEnd
  <2>2. u.pu.ref >= PuRefs(u)
    BY <1>6, <1>12, <1>19, <2>1
  <2> QED BY <1>1, <1>6, <1>12, <1>14, <1>20, <2>2 DEF FrontEnd, Young, NoneServes
<1>22. Video(u)
  <2>1. \A d \in Viewers : u.cu[d].pu => u.pu.cmd
    BY <1>6, <1>12
  <2>2. u.pu.vec = s.pu.vec /\ Video(s)
    BY <1>1, <1>6, <1>12
  <2>3. \A d \in Viewers : u.pc[<<"open", d>>] = s.pc[<<"open", d>>]
    BY <1>15
  <2> QED BY <2>1, <2>2, <2>3 DEF Video
<1>23. CuRefs(u, c) = 2
  <2>1. u.pc[<<"open", c>>] = "none"
    BY <1>9, <1>15
  <2> QED BY <1>16, <2>1 DEF CuRefs, Bit
<1>24. u.cu[c].alive /\ u.cu[c].ref >= CuRefs(u, c) + 1
  BY <1>7, <1>12, <1>23
<1>25. ASSUME NEW d \in Viewers PROVE Viewer(u, d)
  <2>1. CASE d = c
    <3>1. u.pc[<<"open", c>>] = "none"
      BY <1>9, <1>15
    <3>2. u.cu[c].alive /\ u.cu[c].ref >= CuRefs(u, c)
      BY <1>7, <1>12, <1>23
    <3> QED BY <1>16, <2>1, <3>1, <3>2 DEF Viewer
  <2>2. CASE d # c
    <3>1. Viewer(s, d)
      BY DEF Good
    <3>2. u.cu[d] = s.cu[d]
      BY <1>7, <1>12, <2>2
    <3> QED BY <1>15, <2>2, <3>1, <3>2, ViewerSame
  <2> QED BY <2>1, <2>2
<1>26. Batches(u, NoThread)
  <2>1. u.pu.batch = s.pu.batch /\ u.pc[Send] = s.pc[Send] /\ o # Send
    BY <1>3, <1>6, <1>12, <1>14
  <2>2. Batches(s, o)
    BY <1>1, <1>2
  <2>3. ASSUME NEW d \in Viewers PROVE u.pc[<<"send", d>>] = "write" <=> u.cu[d].batch # <<>>
    <3>1. CASE d = c
      BY <1>7, <1>10, <1>12, <1>16, <3>1
    <3>2. CASE d # c
      <4>1. o # <<"send", d>>
        BY <1>2
      <4>2. s.pc[<<"send", d>>] = "write" <=> s.cu[d].batch # <<>>
        BY <2>2, <4>1 DEF Batches
      <4>3. u.cu[d].batch = s.cu[d].batch
        BY <1>7, <1>12, <3>2
      <4>4. u.pc[<<"send", d>>] = s.pc[<<"send", d>>]
        BY <1>15, <3>2
      <4> QED BY <4>2, <4>3, <4>4
    <3> QED BY <3>1, <3>2
  <2> QED BY <2>1, <2>2, <2>3 DEF Batches
<1>27. Sessions(u, n)
  <2>1. \A d \in Viewers : u.pc[<<"session", d>>] = "auth" => s.pc[<<"session", d>>] = "auth"
    BY <1>15, <1>16
  <2>2. \A d \in Viewers : u.cu[d].found = s.cu[d].found
    BY <1>7, <1>12
  <2>3. u.pu.alive = s.pu.alive /\ u.pu.id = s.pu.id /\ u.pu.cmd = s.pu.cmd
    BY <1>6, <1>12
  <2>4. u.pc[Ses] = s.pc[Ses]
    BY <1>14
  <2>5. Sessions(s, n)
    BY <1>1
  <2> QED BY <2>1, <2>2, <2>3, <2>4, <2>5 DEF Sessions
<1>28. Counted(u)
  <2>1. \A m \in Msgs : CuHeld(u, m) = CuHeld(s, m)
    BY <1>1, <1>7, <1>12, CuHeldSame
  <2>2. \A m : PuHeld(u.pu, m) = PuHeld(s.pu, m)
    BY <1>6, <1>12 DEF PuHeld, Queued
  <2>3. \A m : OpenHeld(u.pc, m) = OpenHeld(s.pc, m)
    <3>1. \A d \in Viewers : u.pc[<<"open", d>>] # "none" <=> s.pc[<<"open", d>>] # "none"
      BY <1>15
    <3> QED BY <3>1, OpenHeldSame
  <2>4. \A m \in Msgs : Held(u, m) = Held(s, m)
    BY <2>1, <2>2, <2>3 DEF Held
  <2> QED BY <1>1, <1>3, <1>12, <2>1, <2>4 DEF Counted
<1>29. Good(u, NoThread, n)
  BY <1>1, <1>12, <1>17, <1>18, <1>21, <1>22, <1>25, <1>26, <1>27, <1>28 DEF Good
<1> QED BY <1>24, <1>29

(* The session of a viewer that finds no video ends.                       *)
LEMMA ViewerLeaves ==
  ASSUME NEW s, NEW c \in Viewers, NEW n, Good(s, <<"session", c>>, n),
         s.pc[<<"session", c>>] = "start", NEW u, u = End(s, <<"session", c>>)
  PROVE  Good(u, NoThread, n)
<1>1. /\ s \in Server /\ Locations(s.pc) /\ Sessions(s, n) /\ Viewer(s, c)
      /\ Batches(s, <<"session", c>>)
  BY DEF Good
<1>2. PICK r, l, t : r = "session" /\ l = "none" /\ t = <<r, c>>
  OBVIOUS
<1>3. l \in Locs \ {"start"} /\ t \in Threads /\ t \notin {Ses, Recv, Send, Heart, Open}
      /\ r \in {"session", "recv", "send"}
  BY <1>2, ViewerNames DEF Locs
<1>4. PcSet(u, s, t, l)
  BY <1>1, <1>2, <1>3, SetPc DEF End
<1>5. /\ u.pu = s.pu /\ u.cu = s.cu /\ u.pc[t] = "none"
      /\ \A x \in Threads : x # t => u.pc[x] = s.pc[x]
  BY <1>2, <1>4 DEF PcSet
<1>6. \A d \in Viewers : /\ u.pc[<<"open", d>>] = s.pc[<<"open", d>>]
                         /\ u.pc[<<"recv", d>>] = s.pc[<<"recv", d>>]
                         /\ u.pc[<<"send", d>>] = s.pc[<<"send", d>>]
                         /\ d # c => u.pc[<<"session", d>>] = s.pc[<<"session", d>>]
  BY <1>2, <1>5, ViewerNames
<1>7. u.pc[<<"session", c>>] = "none"
  BY <1>2, <1>5
<1>8. /\ u.pc[Ses] = s.pc[Ses] /\ u.pc[Recv] = s.pc[Recv] /\ u.pc[Send] = s.pc[Send]
      /\ u.pc[Heart] = s.pc[Heart] /\ u.pc[Open] = s.pc[Open]
  BY <1>3, <1>5, Names
<1>9. Locations(u.pc)
  <2>1. \A d \in Viewers : u.pc[<<"session", d>>] \in {"none", "start", "auth"}
    BY <1>1, <1>6, <1>7 DEF Locations
  <2> QED BY <1>1, <1>6, <1>8, <2>1 DEF Locations
<1>10. Viewer(u, c)
  <2>1. CuRefs(u, c) = CuRefs(s, c)
    BY <1>6 DEF CuRefs
  <2> QED BY <1>1, <1>5, <1>6, <1>7, <2>1 DEF Viewer
<1>11. Sessions(u, n)
  <2>1. \A d \in Viewers : u.pc[<<"session", d>>] = "auth" => s.pc[<<"session", d>>] = "auth"
    BY <1>6, <1>7
  <2> QED BY <1>1, <1>5, <1>8, <2>1 DEF Sessions
<1>12. u.pc[<<"send", c>>] = "write" <=> u.cu[c].batch # <<>>
  <2>1. <<"session", c>> # <<"send", c>>
    OBVIOUS
  <2> QED BY <1>1, <1>5, <1>6, <2>1 DEF Batches
<1>13. Good(s, <<r, c>>, n) /\ s.pc[<<r, c>>] # "none" /\ PcSet(u, s, <<r, c>>, l)
  BY <1>2, <1>4
<1> QED BY <1>3, <1>9, <1>10, <1>11, <1>12, <1>13, ViewerStops

(* The session of a viewer remembers the front end that it has found, and  *)
(* its answer is being written.                                            *)
LEMMA ViewerAsks ==
  ASSUME NEW s, NEW c \in Viewers, NEW n, Good(s, <<"session", c>>, n),
         s.pc[<<"session", c>>] = "start", s.pu.alive, s.pu.cmd,
         NEW u, u = At([s EXCEPT !.cu[c].found = s.pu.id], <<"session", c>>, "auth")
  PROVE  Good(u, NoThread, n)
<1>1. /\ s \in Server /\ Locations(s.pc) /\ Sessions(s, n) /\ Viewer(s, c) /\ FrontEnd(s)
      /\ Batches(s, <<"session", c>>) /\ Counted(s)
      /\ s.cu \in [Viewers -> CuRec] /\ s.cu[c] \in CuRec /\ s.pu.id \in Nat
  BY ServerType, PuType DEF Good
<1>2. PICK r, l, t, i : r = "session" /\ l = "auth" /\ t = <<r, c>> /\ i = s.pu.id
  OBVIOUS
<1>3. l \in Locs \ {"start"} /\ t \in Threads /\ t \notin {Ses, Recv, Send, Heart, Open}
      /\ r \in {"session", "recv", "send"} /\ t # <<"send", c>>
  BY <1>2, ViewerNames DEF Locs
<1>4. PICK a, q : a = [s EXCEPT !.cu[c].found = i] /\ q = [s.cu[c] EXCEPT !.found = i]
  OBVIOUS
<1>5. /\ q \in CuRec /\ q.alive = s.cu[c].alive /\ q.ref = s.cu[c].ref /\ q.pu = s.cu[c].pu
      /\ q.queue = s.cu[c].queue /\ q.batch = s.cu[c].batch /\ q.found = i
  BY <1>1, <1>2, <1>4 DEF CuRec
<1>6. CuSet(a, s, c, q)
  <2>1. a = [s EXCEPT !.cu[c] = q]
    BY <1>1, <1>4
  <2> QED BY <1>1, <1>5, <2>1, SetCu
<1>7. /\ a \in Server /\ a.pu = s.pu /\ a.pc = s.pc /\ a.crashed = s.crashed
      /\ a.runq = s.runq /\ a.ref = s.ref /\ a.cu = [s.cu EXCEPT ![c] = q] /\ a.cu[c] = q
      /\ \A d \in Viewers : d # c => a.cu[d] = s.cu[d]
  BY <1>6 DEF CuSet
<1>8. /\ ~s.cu[c].alive /\ s.cu[c] = [NoCu EXCEPT !.found = s.cu[c].found]
      /\ s.pc[<<"open", c>>] = "none" /\ s.pc[<<"recv", c>>] = "none"
      /\ s.pc[<<"send", c>>] = "none"
  BY <1>1 DEF Viewer
<1>9. q = [NoCu EXCEPT !.found = i]
  BY <1>4, <1>8 DEF NoCu
<1>10. Viewer(a, c)
  BY <1>5, <1>7, <1>8, <1>9 DEF Viewer
<1>11. FrontEnd(a)
  <2>1. PuRefs(a) = PuRefs(s)
    BY <1>1, <1>5, <1>7, AttachedOne
  <2> QED BY <1>1, <1>7, <2>1 DEF FrontEnd
<1>12. Counted(a)
  <2>1. \A m \in Msgs : CuHeld(a, m) = CuHeld(s, m)
    BY <1>1, <1>5, <1>7, CuHeldSame
  <2>2. \A m \in Msgs : Held(a, m) = Held(s, m)
    BY <1>7, <2>1 DEF Held
  <2>3. VideoCmd \in Msgs
    BY Names
  <2> QED BY <1>1, <1>7, <2>1, <2>2, <2>3 DEF Counted
<1>13. Good(a, t, n)
  <2>1. Good(s, t, n)
    BY <1>2
  <2>2. q.pu => s.pu.cmd
    OBVIOUS
  <2>3. s.pc[<<"session", c>>] = "auth" => q.found = s.cu[c].found
    OBVIOUS
  <2>4. a.pc[<<"send", c>>] = "write" <=> q.batch # <<>>
    BY <1>5, <1>7, <1>8 DEF NoCu
  <2> QED BY <1>5, <1>7, <1>10, <1>11, <1>12, <2>1, <2>2, <2>3, <2>4, CuChange
<1>14. PcSet(u, a, t, l)
  <2>1. u = [a EXCEPT !.pc[t] = l]
    BY <1>2, <1>4 DEF At
  <2> QED BY <1>3, <1>7, <2>1, SetPc
<1>15. /\ u.pu = s.pu /\ u.cu = a.cu /\ u.pc[t] = "auth"
       /\ \A x \in Threads : x # t => u.pc[x] = s.pc[x]
  BY <1>2, <1>7, <1>14 DEF PcSet
<1>16. \A d \in Viewers : /\ u.pc[<<"open", d>>] = s.pc[<<"open", d>>]
                          /\ u.pc[<<"recv", d>>] = s.pc[<<"recv", d>>]
                          /\ u.pc[<<"send", d>>] = s.pc[<<"send", d>>]
                          /\ d # c => u.pc[<<"session", d>>] = s.pc[<<"session", d>>]
  BY <1>2, <1>15, ViewerNames
<1>17. u.pc[<<"session", c>>] = "auth"
  BY <1>2, <1>15
<1>18. /\ u.pc[Ses] = s.pc[Ses] /\ u.pc[Recv] = s.pc[Recv] /\ u.pc[Send] = s.pc[Send]
       /\ u.pc[Heart] = s.pc[Heart] /\ u.pc[Open] = s.pc[Open]
  BY <1>3, <1>15, Names
<1>19. Locations(u.pc)
  <2>1. \A d \in Viewers : u.pc[<<"session", d>>] \in {"none", "start", "auth"}
    BY <1>1, <1>16, <1>17 DEF Locations
  <2>2. \A d \in Viewers : /\ u.pc[<<"recv", d>>] \in {"none", "start", "read"}
                           /\ u.pc[<<"send", d>>] \in {"none", "start", "wait", "write"}
                           /\ u.pc[<<"open", d>>] \in {"none", "start", "wait"}
    BY <1>1, <1>16 DEF Locations
  <2>3. /\ u.pc[Ses] \in {"none", "start", "auth"} /\ u.pc[Recv] \in {"none", "start", "read"}
        /\ u.pc[Send] \in {"none", "start", "wait", "write"}
        /\ u.pc[Heart] \in {"none", "start", "sleep"} /\ u.pc[Open] \in {"none", "start"}
    BY <1>1, <1>18 DEF Locations
  <2> QED BY <2>1, <2>2, <2>3 DEF Locations
<1>20. Viewer(u, c)
  <2>1. CuRefs(u, c) = CuRefs(s, c)
    BY <1>16 DEF CuRefs
  <2>2. u.cu[c] = q
    BY <1>7, <1>15
  <2> QED BY <1>5, <1>8, <1>9, <1>16, <2>1, <2>2 DEF Viewer
<1>21. Sessions(u, n)
  <2>1. s.pu.id \in 1..n /\ (s.pc[Ses] = "start" => s.pu.id < n)
    BY <1>1 DEF Sessions
  <2>2. u.cu[c].found = s.pu.id
    BY <1>2, <1>5, <1>7, <1>15
  <2>3. ASSUME NEW d \in Viewers, u.pc[<<"session", d>>] = "auth"
        PROVE  /\ u.cu[d].found \in 1..n /\ (u.cu[d].found = u.pu.id => u.pu.cmd)
               /\ (u.pc[Ses] = "start" => u.cu[d].found < n)
    <3>1. CASE d = c
      BY <1>15, <1>18, <2>1, <2>2, <3>1
    <3>2. CASE d # c
      <4>1. u.cu[d] = s.cu[d]
        BY <1>7, <1>15, <3>2
      <4>2. s.pc[<<"session", d>>] = "auth"
        BY <1>16, <2>3, <3>2
      <4> QED BY <1>1, <1>15, <1>18, <4>1, <4>2 DEF Sessions
    <3> QED BY <3>1, <3>2
  <2>4. (u.pu.alive => u.pu.id \in 1..n) /\ (u.pc[Ses] = "start" => n >= 1 /\ u.pu.id < n)
    BY <1>1, <1>15, <1>18, <2>1 DEF Sessions
  <2> QED BY <2>3, <2>4 DEF Sessions
<1>22. u.pc[<<"send", c>>] = "write" <=> u.cu[c].batch # <<>>
  <2>1. q.batch = <<>>
    BY <1>9 DEF NoCu
  <2>2. u.cu[c] = q
    BY <1>7, <1>15
  <2> QED BY <1>8, <1>16, <2>1, <2>2
<1>23. Good(a, <<r, c>>, n) /\ a.pc[<<r, c>>] # "none" /\ PcSet(u, a, <<r, c>>, l)
  BY <1>2, <1>7, <1>13, <1>14
<1> QED BY <1>3, <1>19, <1>20, <1>21, <1>22, <1>23, ViewerStops

(* The session of a viewer runs.                                           *)
LEMMA GoodViewerSession ==
  ASSUME NEW s, NEW c \in Viewers, NEW n, Good(s, <<"session", c>>, n),
         s.pc[<<"session", c>>] # "none", NEW fail \in BOOLEAN,
         NEW u, u = ViewerSession(s, c, fail)
  PROVE  \/ Good(u, NoThread, n)
         \/ u \in Server /\ u.crashed = "session"
<1>1. /\ s \in Server /\ s.pc[<<"session", c>>] \in {"start", "auth"} /\ Viewer(s, c)
      /\ Sessions(s, n)
  BY DEF Good, Locations
<1>2. CASE s.pc[<<"session", c>>] = "start" /\ (~s.pu.alive \/ ~s.pu.cmd \/ fail)
  <2>1. u = End(s, <<"session", c>>)
    BY <1>2 DEF ViewerSession
  <2> QED BY <1>2, <2>1, ViewerLeaves
<1>3. CASE s.pc[<<"session", c>>] = "start" /\ ~(~s.pu.alive \/ ~s.pu.cmd \/ fail)
  <2>1. u = At([s EXCEPT !.cu[c].found = s.pu.id], <<"session", c>>, "auth")
    BY <1>3 DEF ViewerSession
  <2> QED BY <1>3, <2>1, ViewerAsks
<1>4. CASE s.pc[<<"session", c>>] = "auth" /\ s.pu.id # s.cu[c].found
  <2>1. PICK k : k = "session"
    OBVIOUS
  <2>2. u = [s EXCEPT !.crashed = k]
    BY <1>4, <2>1 DEF ViewerSession, Crash
  <2>3. u \in Server /\ u.crashed = k
    BY <1>1, <2>1, <2>2 DEF Server
  <2> QED BY <2>1, <2>3
<1>5. CASE s.pc[<<"session", c>>] = "auth" /\ s.pu.id = s.cu[c].found
  <2>1. PICK x, v : x = Seated(s, c) /\ v = Seating(x, c)
    OBVIOUS
  <2>2. u = cu_release(v, c)
    BY <1>5, <2>1 DEF ViewerSession, Seated, Seating
  <2>3. s.pu.cmd
    BY <1>1, <1>5 DEF Sessions
  <2>4. Good(v, NoThread, n) /\ v.cu[c].alive /\ v.cu[c].ref >= CuRefs(v, c) + 1
    BY <1>5, <2>1, <2>3, GoodSeating
  <2> QED BY <2>2, <2>4, GoodCuRelease
<1> QED BY <1>1, <1>2, <1>3, <1>4, <1>5


-----------------------------------------------------------------------------
(* The steps of the server.                                                *)

(* A thread has run, or has touched a proxy that was freed.                *)
Ran(u, n) ==
  /\ u \in Server /\ u.crashed # "count"
  /\ u.crashed = "no" => Good(u, NoThread, n)

(* The threads that have not started are sessions.                         *)
Ready(s) == \A t \in Threads : s.pc[t] = "start" => t[1] = "session"

(* With an empty run queue no thread is left to start.                     *)
LEMMA NobodyStarts ==
  ASSUME NEW s, NEW n, Good(s, NoThread, n), s.runq = <<>>
  PROVE  Ready(s)
<1>1. Queueing(s, NoThread)
  BY DEF Good
<1>2. \A t \in Threads : ~In(t, s.runq) /\ t # NoThread
  <2>1. Len(s.runq) = 0
    <3>1. s \in Server /\ s.runq \in Seq(Threads)
      BY ServerType DEF Good
    <3> QED BY <3>1, EmptySeq
  <2> QED BY <2>1, Names DEF In
<1> QED BY <1>1, <1>2 DEF Queueing, Ready

(* One more connection or heartbeat of a viewer.                           *)
LEMMA OneMore ==
  ASSUME NEW s, NEW t, NEW n \in Nat, Good(s, t, n)
  PROVE  Good(s, t, n + 1)
<1>1. Sessions(s, n) /\ s.pu.id \in Nat /\ \A c \in Viewers : s.cu[c].found \in Nat
  BY ServerType, PuType, CuType DEF Good
<1>2. /\ s.pu.alive => s.pu.id \in 1..(n + 1)
      /\ s.pc[Ses] = "start" => n + 1 >= 1 /\ (s.pu.alive => s.pu.id < n + 1)
  BY <1>1 DEF Sessions
<1>3. ASSUME NEW c \in Viewers, s.pc[<<"session", c>>] = "auth"
      PROVE  /\ s.cu[c].found \in 1..(n + 1)
             /\ s.cu[c].found = s.pu.id => s.pu.cmd
             /\ s.pc[Ses] = "start" => s.cu[c].found < n + 1
  BY <1>1, <1>3 DEF Sessions
<1>4. Sessions(s, n + 1)
  BY <1>2, <1>3 DEF Sessions
<1> QED BY <1>4 DEF Good

(* The idle thread makes a waiting thread runnable.                        *)
LEMMA GoodWake ==
  ASSUME NEW s, NEW n, Good(s, NoThread, n), Ready(s), NEW t \in Threads,
         t \notin ToSet(s.runq), s.pc[t] # "none",
         NEW u, u = [s EXCEPT !.runq = Append(@, t)]
  PROVE  Good(u, NoThread, n) /\ Ready(u)
<1>1. /\ s \in Server /\ s.runq \in Seq(Threads) /\ Queueing(s, NoThread) /\ StartUp(s, NoThread)
      /\ Batches(s, NoThread) /\ Steady(s, n)
  BY GoodParts, ServerType
<1>2. PICK q : q = Append(s.runq, t)
  OBVIOUS
<1>3. q \in Seq(Threads) /\ Longer(q, s.runq, t) /\ ~In(t, s.runq)
  BY <1>1, <1>2, AppendFacts, InToSet
<1>4. u.runq = q /\ RunqOnly(u, s)
  BY <1>1, <1>2, <1>3 DEF RunqOnly, Server
<1>5. /\ u \in Server /\ u.pc = s.pc /\ u.pu = s.pu /\ u.cu = s.cu
  BY <1>4 DEF RunqOnly
<1>6. Queueing(u, NoThread)
  <2>1. Distinct(q) /\ \A x : In(x, q) <=> In(x, s.runq) \/ x = t
    BY <1>1, <1>3 DEF Longer, Queueing
  <2>2. NoThread # t
    BY Names
  <2> QED BY <1>1, <1>4, <1>5, <2>1, <2>2 DEF Queueing
<1>7. StartUp(u, NoThread)
  <2>1. u.pc[Send] # "start" /\ u.pc[Heart] # "start" /\ u.pc[Open] # "start"
    <3>1. /\ Send \in Threads /\ Heart \in Threads /\ Open \in Threads
          /\ Send[1] # "session" /\ Heart[1] # "session" /\ Open[1] # "session"
      BY Names DEF Send, Heart, Open, T
    <3> QED BY <1>5, <3>1 DEF Ready
  <2> QED BY <2>1 DEF StartUp, Young
<1>8. Batches(u, NoThread)
  BY <1>1, <1>5 DEF Batches
<1>9. Steady(u, n)
  BY <1>1, <1>4, SteadyRunq
<1>10. Good(u, NoThread, n)
  BY <1>5, <1>6, <1>7, <1>8, <1>9, GoodParts
<1> QED BY <1>5, <1>10 DEF Ready

(* A connection gets a thread of its own.                                  *)
LEMMA GoodArrive ==
  ASSUME NEW s, NEW n \in Nat, Good(s, NoThread, n), Ready(s), NEW t \in Threads,
         t[1] = "session", s.pc[t] = "none",
         t[2] \in Viewers => ~s.cu[t[2]].alive /\ s.pc[<<"open", t[2]>>] = "none",
         NEW u, u = st_thread_create(s, t)
  PROVE  Good(u, NoThread, n + 1) /\ Ready(u)
<1>1. /\ s \in Server /\ Queueing(s, NoThread) /\ Locations(s.pc) /\ FrontEnd(s) /\ Video(s)
      /\ Batches(s, NoThread) /\ Counted(s) /\ s.crashed = "no" /\ Sessions(s, n + 1)
      /\ Sessions(s, n)
  BY OneMore DEF Good
<1>2. t # NoThread
  BY Names
<1>3. Created(u, s, t)
  BY <1>1, CreateFacts
<1>4. /\ u \in Server /\ u.pc[t] = "start" /\ \A y \in Threads : y # t => u.pc[y] = s.pc[y]
      /\ u.pu = s.pu /\ u.cu = s.cu /\ u.ref = s.ref /\ u.crashed = s.crashed
  BY <1>3 DEF Created
<1>5. Queueing(u, NoThread)
  BY <1>1, <1>2, CreateQueueing
<1>6. Ready(u)
  BY <1>4 DEF Ready
<1>7. /\ t # Recv /\ t # Send /\ t # Heart /\ t # Open
      /\ \A c \in Viewers : t # <<"recv", c>> /\ t # <<"send", c>> /\ t # <<"open", c>>
  BY DEF Recv, Send, Heart, Open, T
<1>8. t = Ses \/ \E c \in Viewers : t = <<"session", c>>
  BY DEF Threads, DeviceThreads, T, Ses
<1>9. /\ u.pc[Recv] = s.pc[Recv] /\ u.pc[Send] = s.pc[Send]
      /\ u.pc[Heart] = s.pc[Heart] /\ u.pc[Open] = s.pc[Open]
      /\ (u.pc[Ses] = s.pc[Ses] \/ (u.pc[Ses] = "start" /\ s.pc[Ses] = "none"))
  <2>1. /\ Ses \in Threads /\ Recv \in Threads /\ Send \in Threads /\ Heart \in Threads
        /\ Open \in Threads
    BY Names
  <2>2. u.pc[Ses] = s.pc[Ses] \/ (u.pc[Ses] = "start" /\ s.pc[Ses] = "none")
    <3>1. CASE t = Ses
      BY <1>4, <3>1
    <3>2. CASE t # Ses
      BY <1>4, <2>1, <3>2
    <3> QED BY <3>1, <3>2
  <2> QED BY <1>4, <1>7, <2>1, <2>2
<1>10. \A d \in Viewers : /\ u.pc[<<"open", d>>] = s.pc[<<"open", d>>]
                          /\ u.pc[<<"recv", d>>] = s.pc[<<"recv", d>>]
                          /\ u.pc[<<"send", d>>] = s.pc[<<"send", d>>]
                          /\ \/ u.pc[<<"session", d>>] = s.pc[<<"session", d>>]
                             \/ u.pc[<<"session", d>>] = "start" /\ t = <<"session", d>>
  BY <1>4, <1>7, ViewerNames
<1>11. Locations(u.pc)
  <2>1. u.pc[Ses] \in {"none", "start", "auth"}
    BY <1>1, <1>9 DEF Locations
  <2>2. \A d \in Viewers : u.pc[<<"session", d>>] \in {"none", "start", "auth"}
    BY <1>1, <1>10 DEF Locations
  <2> QED BY <1>1, <1>9, <1>10, <2>1, <2>2 DEF Locations
<1>12. StartUp(u, NoThread)
  <2>1. s.pc[Send] # "start" /\ s.pc[Heart] # "start" /\ s.pc[Open] # "start"
    <3>1. /\ Send \in Threads /\ Heart \in Threads /\ Open \in Threads
          /\ Send[1] # "session" /\ Heart[1] # "session" /\ Open[1] # "session"
      BY Names DEF Send, Heart, Open, T
    <3> QED BY <3>1 DEF Ready
  <2> QED BY <1>9, <2>1 DEF StartUp, Young
<1>13. FrontEnd(u)
  <2>1. Attached(u) = Attached(s)
    BY <1>4 DEF Attached
  <2>2. Bit(u.pc[Ses] = "auth") = Bit(s.pc[Ses] = "auth") /\ (u.pc[Ses] = "auth" <=> s.pc[Ses] = "auth")
    BY <1>9 DEF Bit
  <2>3. PuRefs(u) = PuRefs(s)
    BY <1>9, <2>1, <2>2 DEF PuRefs
  <2> QED BY <1>1, <1>4, <1>9, <2>2, <2>3 DEF FrontEnd, Young, NoneServes
<1>14. Video(u)
  <2>1. \A d \in Viewers : u.pc[<<"open", d>>] = s.pc[<<"open", d>>]
    BY <1>10
  <2>2. Video(s)
    BY <1>1
  <2> QED BY <1>4, <2>1, <2>2 DEF Video
<1>15. ASSUME NEW d \in Viewers PROVE Viewer(u, d)
  <2>1. Viewer(s, d)
    BY DEF Good
  <2>2. CuRefs(u, d) = CuRefs(s, d)
    BY <1>10 DEF CuRefs
  <2>3. u.pc[<<"session", d>>] = "start" /\ t = <<"session", d>>
          => ~s.cu[d].alive /\ s.pc[<<"open", d>>] = "none"
    OBVIOUS
  <2> QED BY <1>4, <1>10, <2>1, <2>2, <2>3 DEF Viewer
<1>16. Batches(u, NoThread)
  <2>1. u.pc[Send] = s.pc[Send] /\ u.pu = s.pu /\ u.cu = s.cu
    BY <1>4, <1>9
  <2>2. \A d \in Viewers : u.pc[<<"send", d>>] = s.pc[<<"send", d>>]
    BY <1>10
  <2>3. Batches(s, NoThread)
    BY <1>1
  <2> QED BY <2>1, <2>2, <2>3 DEF Batches
<1>17. Sessions(u, n + 1)
  <2>1. u.pc[Ses] = "start" => (s.pu.alive => s.pu.id < n + 1)
    BY <1>1 DEF Sessions
  <2>2. ASSUME NEW d \in Viewers, u.pc[<<"session", d>>] = "auth"
        PROVE  /\ u.cu[d].found \in 1..(n + 1) /\ (u.cu[d].found = u.pu.id => u.pu.cmd)
               /\ u.cu[d].found < n + 1
    <3>1. s.pc[<<"session", d>>] = "auth"
      BY <1>10, <2>2
    <3> QED BY <1>1, <1>4, <3>1 DEF Sessions
  <2>3. u.pu.alive => u.pu.id \in 1..(n + 1)
    BY <1>1, <1>4 DEF Sessions
  <2> QED BY <1>4, <2>1, <2>2, <2>3 DEF Sessions
<1>18. Counted(u)
  <2>1. HeldAs(u, s)
    BY <1>4, <1>10 DEF HeldAs
  <2> QED BY <1>1, <2>1, CountedSame
<1>19. Good(u, NoThread, n + 1)
  BY <1>1, <1>4, <1>5, <1>11, <1>12, <1>13, <1>14, <1>15, <1>16, <1>17, <1>18 DEF Good
<1> QED BY <1>6, <1>19

(* No thread of the front end breaks the invariant.                        *)
LEMMA DeviceKeeps ==
  NvsInv /\ RunDevice => NvsInv'
<1> SUFFICES ASSUME NvsInv, RunDevice PROVE NvsInv'
  OBVIOUS
<1>1. w.crashed = "no" /\ w.runq # <<>>
  BY DEF RunDevice, Run
<1>2. Good(w, NoThread, inputs) /\ frames \in 0..MaxFrames /\ inputs \in Nat /\ frames \in Nat
  BY <1>1, NvsAssumption DEF NvsInv
<1>3. PICK t, s : t = Head(w.runq) /\ s = Rest
  OBVIOUS
<1>4. Good(s, t, inputs) /\ RunqOnly(s, w) /\ s.pc[t] # "none"
  BY <1>1, <1>2, <1>3, Pop DEF Rest
<1>5. s.pc = w.pc
  BY <1>4 DEF RunqOnly
<1>6. PICK fail \in BOOLEAN, kind \in {"none", "frame"} :
        \/ /\ kind = "frame" => w.pc[T("recv")] = "read" /\ frames < MaxFrames
           /\ Run(T("recv"), handle_recv(Rest, kind, fail))
           /\ frames' = frames + (IF kind = "frame" THEN 1 ELSE 0)
        \/ /\ kind = "none" /\ UNCHANGED frames
           /\ \/ Run(T("send"), pu_handle_send(Rest, fail))
              \/ Run(T("session"), DeviceSession(Rest, fail))
              \/ ~fail /\ Run(T("heart"), heart_thread(Rest))
              \/ ~fail /\ Run(T("open"), handle_open_video(Rest))
  BY DEF RunDevice
<1>7. inputs' = inputs
  BY DEF RunDevice
<1>8. CASE /\ kind = "frame" => w.pc[T("recv")] = "read" /\ frames < MaxFrames
           /\ Run(T("recv"), handle_recv(Rest, kind, fail))
           /\ frames' = frames + (IF kind = "frame" THEN 1 ELSE 0)
  <2>1. t = Recv /\ w' = handle_recv(s, kind, fail) /\ idle' = (w'.runq = <<>>)
    BY <1>3, <1>8 DEF Run, Recv
  <2>2. Good(w', NoThread, inputs)
    BY <1>2, <1>4, <1>8, <2>1, GoodRecvThread
  <2>3. frames' \in 0..MaxFrames
    BY <1>2, <1>8, NvsAssumption
  <2> QED BY <1>2, <1>7, <2>1, <2>2, <2>3, NobodyStarts DEF NvsInv, Good, Ready
<1>9. CASE /\ kind = "none" /\ UNCHANGED frames
           /\ \/ Run(T("send"), pu_handle_send(Rest, fail))
              \/ Run(T("session"), DeviceSession(Rest, fail))
              \/ ~fail /\ Run(T("heart"), heart_thread(Rest))
              \/ ~fail /\ Run(T("open"), handle_open_video(Rest))
  <2>1. CASE Run(T("send"), pu_handle_send(Rest, fail))
    <3>1. t = Send /\ w' = pu_handle_send(s, fail) /\ idle' = (w'.runq = <<>>)
      BY <1>3, <2>1 DEF Run, Send
    <3>2. s.pc[Send] = "write" <=> s.pu.batch # <<>>
      <4>1. Batches(w, NoThread) /\ NoThread # Send
        BY <1>2, Names DEF Good
      <4> QED BY <1>4, <4>1 DEF Batches, RunqOnly
    <3>3. Good(w', NoThread, inputs)
      BY <1>4, <3>1, <3>2, GoodPuSendThread
    <3> QED BY <1>2, <1>7, <1>9, <3>1, <3>3, NobodyStarts DEF NvsInv, Good, Ready
  <2>2. CASE Run(T("session"), DeviceSession(Rest, fail))
    <3>1. t = Ses /\ w' = DeviceSession(s, fail) /\ idle' = (w'.runq = <<>>)
      BY <1>3, <2>2 DEF Run, Ses
    <3>2. Good(w', NoThread, inputs)
      BY <1>2, <1>4, <3>1, GoodDeviceSession
    <3> QED BY <1>2, <1>7, <1>9, <3>1, <3>2, NobodyStarts DEF NvsInv, Good, Ready
  <2>3. CASE Run(T("heart"), heart_thread(Rest))
    <3>1. t = Heart /\ w' = heart_thread(s) /\ idle' = (w'.runq = <<>>)
      BY <1>3, <2>3 DEF Run, Heart
    <3>2. Good(w', NoThread, inputs)
      BY <1>4, <3>1, GoodHeartThread
    <3> QED BY <1>2, <1>7, <1>9, <3>1, <3>2, NobodyStarts DEF NvsInv, Good, Ready
  <2>4. CASE Run(T("open"), handle_open_video(Rest))
    <3>1. t = Open /\ w' = handle_open_video(s) /\ idle' = (w'.runq = <<>>)
      BY <1>3, <2>4 DEF Run, Open
    <3>2. Good(w', NoThread, inputs)
      BY <1>4, <3>1, OpenCommand
    <3> QED BY <1>2, <1>7, <1>9, <3>1, <3>2, NobodyStarts DEF NvsInv, Good, Ready
  <2> QED BY <1>9, <2>1, <2>2, <2>3, <2>4
<1> QED BY <1>6, <1>8, <1>9

(* No thread of a viewer breaks the invariant.                             *)
LEMMA ViewerKeeps ==
  ASSUME NEW c \in Viewers
  PROVE  NvsInv /\ RunViewer(c) => NvsInv'
<1> SUFFICES ASSUME NvsInv, RunViewer(c) PROVE NvsInv'
  OBVIOUS
<1>1. w.crashed = "no" /\ w.runq # <<>>
  BY DEF RunViewer, Run
<1>2. Good(w, NoThread, inputs) /\ frames \in 0..MaxFrames /\ inputs \in Nat
  BY <1>1 DEF NvsInv
<1>3. PICK t, s : t = Head(w.runq) /\ s = Rest
  OBVIOUS
<1>4. Good(s, t, inputs) /\ RunqOnly(s, w) /\ s.pc[t] # "none"
  BY <1>1, <1>2, <1>3, Pop DEF Rest
<1>5. s.pc = w.pc /\ s.ref = w.ref
  BY <1>4 DEF RunqOnly
<1>6. PICK fail \in BOOLEAN, kind \in {"none", "beat", "open", "other"} :
        \/ /\ kind = "none" <=> w.pc[<<"recv", c>>] = "start"
           /\ kind = "open" => w.ref[<<"open", c>>] = 0
           /\ kind = "beat" => inputs < MaxInputs
           /\ Run(<<"recv", c>>, cu_handle_recv(Rest, c, kind, fail))
           /\ inputs' = inputs + (IF kind = "beat" THEN 1 ELSE 0)
        \/ /\ kind = "none" /\ UNCHANGED inputs
           /\ \/ Run(<<"send", c>>, cu_handle_send(Rest, c, fail))
              \/ Run(<<"session", c>>, ViewerSession(Rest, c, fail))
              \/ ~fail /\ Run(<<"open", c>>, open_real_video(Rest, c))
  BY DEF RunViewer
<1>7. frames' = frames
  BY DEF RunViewer
<1>8. ASSUME Ran(w', inputs'), idle' = (w'.runq = <<>>), inputs' \in Nat
      PROVE  NvsInv'
  BY <1>2, <1>7, <1>8, NobodyStarts DEF NvsInv, Ran, Ready
<1>9. CASE /\ kind = "none" <=> w.pc[<<"recv", c>>] = "start"
           /\ kind = "open" => w.ref[<<"open", c>>] = 0
           /\ kind = "beat" => inputs < MaxInputs
           /\ Run(<<"recv", c>>, cu_handle_recv(Rest, c, kind, fail))
           /\ inputs' = inputs + (IF kind = "beat" THEN 1 ELSE 0)
  <2>1. /\ t = <<"recv", c>> /\ w' = cu_handle_recv(s, c, kind, fail)
        /\ idle' = (w'.runq = <<>>)
    BY <1>3, <1>9 DEF Run
  <2>2. Good(s, <<"recv", c>>, inputs) /\ s.pc[<<"recv", c>>] # "none"
    BY <1>4, <2>1
  <2>3. kind = "none" <=> s.pc[<<"recv", c>>] = "start"
    BY <1>5, <1>9
  <2>4. kind = "open" => s.ref[<<"open", c>>] = 0
    BY <1>5, <1>9
  <2>5. Good(w', NoThread, inputs)
    BY <2>1, <2>2, <2>3, <2>4, GoodCuRecvThread
  <2>6. inputs' = inputs \/ inputs' = inputs + 1
    BY <1>2, <1>9
  <2>7. Good(w', NoThread, inputs') /\ inputs' \in Nat
    BY <1>2, <2>5, <2>6, OneMore
  <2>8. Ran(w', inputs')
    BY <2>7 DEF Ran, Good
  <2> QED BY <1>8, <2>1, <2>7, <2>8
<1>10. CASE /\ kind = "none" /\ UNCHANGED inputs
            /\ \/ Run(<<"send", c>>, cu_handle_send(Rest, c, fail))
               \/ Run(<<"session", c>>, ViewerSession(Rest, c, fail))
               \/ ~fail /\ Run(<<"open", c>>, open_real_video(Rest, c))
  <2>1. CASE Run(<<"send", c>>, cu_handle_send(Rest, c, fail))
    <3>1. t = <<"send", c>> /\ w' = cu_handle_send(s, c, fail) /\ idle' = (w'.runq = <<>>)
      BY <1>3, <2>1 DEF Run
    <3>2. s.pc[<<"send", c>>] = "write" <=> s.cu[c].batch # <<>>
      <4>1. Batches(w, NoThread) /\ NoThread # <<"send", c>>
        BY <1>2, Names DEF Good
      <4>2. w.pc[<<"send", c>>] = "write" <=> w.cu[c].batch # <<>>
        BY <4>1 DEF Batches
      <4> QED BY <1>4, <4>2 DEF RunqOnly
    <3>3. Good(s, <<"send", c>>, inputs) /\ s.pc[<<"send", c>>] # "none"
      BY <1>4, <3>1
    <3>4. Good(w', NoThread, inputs)
      BY <3>1, <3>2, <3>3, GoodCuSendThread
    <3>5. Ran(w', inputs') /\ inputs' \in Nat
      BY <1>2, <1>10, <3>4 DEF Ran, Good
    <3> QED BY <1>8, <3>1, <3>5
  <2>2. CASE Run(<<"session", c>>, ViewerSession(Rest, c, fail))
    <3>1. t = <<"session", c>> /\ w' = ViewerSession(s, c, fail) /\ idle' = (w'.runq = <<>>)
      BY <1>3, <2>2 DEF Run
    <3>2. Good(s, <<"session", c>>, inputs) /\ s.pc[<<"session", c>>] # "none"
      BY <1>4, <3>1
    <3>3. \/ Good(w', NoThread, inputs)
          \/ w' \in Server /\ w'.crashed = "session"
      BY <3>1, <3>2, GoodViewerSession
    <3>4. Ran(w', inputs') /\ inputs' \in Nat
      BY <1>2, <1>10, <3>3 DEF Ran, Good
    <3> QED BY <1>8, <3>1, <3>4
  <2>3. CASE Run(<<"open", c>>, open_real_video(Rest, c))
    <3>1. t = <<"open", c>> /\ w' = open_real_video(s, c) /\ idle' = (w'.runq = <<>>)
      BY <1>3, <2>3 DEF Run
    <3>2. Good(s, <<"open", c>>, inputs) /\ s.pc[<<"open", c>>] # "none"
      BY <1>4, <3>1
    <3>3. \/ Good(w', NoThread, inputs)
          \/ w' \in Server /\ w'.crashed = "open"
      BY <3>1, <3>2, GoodOpenThread
    <3>4. Ran(w', inputs') /\ inputs' \in Nat
      BY <1>2, <1>10, <3>3 DEF Ran, Good
    <3> QED BY <1>8, <3>1, <3>4
  <2> QED BY <1>10, <2>1, <2>2, <2>3
<1> QED BY <1>6, <1>9, <1>10

(* The idle thread breaks nothing.                                         *)
LEMMA WakeKeeps ==
  ASSUME NEW t \in Threads
  PROVE  NvsInv /\ Wake(t) => NvsInv'
<1> SUFFICES ASSUME NvsInv, Wake(t) PROVE NvsInv'
  OBVIOUS
<1>1. idle /\ w.crashed = "no" /\ t \notin ToSet(w.runq) /\ w.pc[t] # "none"
  BY DEF Wake, NvsIdle
<1>2. Good(w, NoThread, inputs) /\ Ready(w)
  BY <1>1 DEF NvsInv, Ready
<1>3. w' = [w EXCEPT !.runq = Append(@, t)] /\ UNCHANGED <<idle, frames, inputs>>
  BY DEF Wake
<1>4. Good(w', NoThread, inputs) /\ Ready(w')
  BY <1>1, <1>2, <1>3, GoodWake
<1> QED BY <1>3, <1>4 DEF NvsInv, Good, Ready

(* A connection breaks nothing.                                            *)
LEMMA ArriveKeeps ==
  ASSUME NEW t \in Threads
  PROVE  NvsInv /\ Arrive(t) => NvsInv'
<1> SUFFICES ASSUME NvsInv, Arrive(t) PROVE NvsInv'
  OBVIOUS
<1>1. /\ idle /\ w.crashed = "no" /\ t[1] = "session" /\ w.pc[t] = "none"
      /\ t[2] \in Viewers => ~w.cu[t[2]].alive /\ w.pc[<<"open", t[2]>>] = "none"
  BY DEF Arrive, NvsIdle
<1>2. Good(w, NoThread, inputs) /\ Ready(w) /\ inputs \in Nat
  BY <1>1 DEF NvsInv, Ready
<1>3. w' = st_thread_create(w, t) /\ inputs' = inputs + 1 /\ UNCHANGED <<idle, frames>>
  BY DEF Arrive
<1>4. Good(w', NoThread, inputs + 1) /\ Ready(w')
  BY <1>1, <1>2, <1>3, GoodArrive
<1>5. inputs' \in Nat
  BY <1>2, <1>3
<1> QED BY <1>3, <1>4, <1>5 DEF NvsInv, Good, Ready

(* The server starts with nobody connected.                                *)
LEMMA NvsStarts ==
  NvsInit => NvsInv
<1> SUFFICES ASSUME NvsInit PROVE NvsInv
  OBVIOUS
<1>1. PICK q, f, g, r, l, k :
        /\ q = <<>> /\ f = [t \in Threads |-> l] /\ g = [c \in Viewers |-> NoCu]
        /\ r = [m \in Msgs |-> 0] /\ l = "none" /\ k = "no"
  OBVIOUS
<1>2. w = [runq |-> q, pc |-> f, pu |-> NoPu, cu |-> g, ref |-> r, crashed |-> k]
      /\ idle = TRUE /\ frames = 0 /\ inputs = 0
  BY <1>1 DEF NvsInit
<1>3. PICK b : b = FALSE
  OBVIOUS
<1>4. NoPu \in PuRec
  <2>1. PICK n : n = 0
    OBVIOUS
  <2>2. NoPu = [alive |-> b, id |-> n, valid |-> b, ref |-> n, cmd |-> b,
                vec |-> q, queue |-> q, batch |-> q, ticks |-> n]
    BY <1>1, <1>3, <2>1 DEF NoPu
  <2>3. b \in BOOLEAN /\ n \in Nat /\ q \in Seq(Viewers) /\ q \in Seq(Msgs)
    BY <1>1, <1>3, <2>1, EmptySeq
  <2> QED BY <2>2, <2>3 DEF PuRec
<1>5. NoCu \in CuRec
  <2>1. PICK n : n = 0
    OBVIOUS
  <2>2. NoCu = [alive |-> b, valid |-> b, ref |-> n, pu |-> b,
                wrap |-> b, queue |-> q, batch |-> q, found |-> n]
    BY <1>1, <1>3, <2>1 DEF NoCu
  <2>3. b \in BOOLEAN /\ n \in Nat /\ q \in Seq(Msgs)
    BY <1>1, <1>3, <2>1, EmptySeq
  <2> QED BY <2>2, <2>3 DEF CuRec
<1>6. w \in Server
  <2>1. q \in Seq(Threads) /\ f \in [Threads -> Locs] /\ g \in [Viewers -> CuRec]
        /\ r \in [Msgs -> Nat] /\ k \in {"no", "count", "open", "session"}
    BY <1>1, <1>5, EmptySeq DEF Locs
  <2> QED BY <1>2, <1>4, <2>1 DEF Server
<1>7. /\ w.runq = <<>> /\ w.pu = NoPu /\ w.crashed = "no"
      /\ \A t \in Threads : w.pc[t] = "none"
      /\ \A c \in Viewers : w.cu[c] = NoCu
      /\ \A m \in Msgs : w.ref[m] = 0
  BY <1>1, <1>2
<1>8. /\ ~NoPu.alive /\ ~NoPu.cmd /\ NoPu.queue = <<>> /\ NoPu.batch = <<>> /\ NoPu.vec = <<>>
      /\ ~NoCu.alive /\ ~NoCu.pu /\ NoCu.queue = <<>> /\ NoCu.batch = <<>>
  BY DEF NoPu, NoCu
<1>9. \A x : ~In(x, <<>>)
  <2>1. Len(<<>>) = 0
    OBVIOUS
  <2> QED BY <2>1 DEF In
<1>10. Distinct(<<>>)
  <2>1. Len(<<>>) = 0
    OBVIOUS
  <2> QED BY <2>1 DEF Distinct
<1>11. Queueing(w, NoThread)
  BY <1>7, <1>9, <1>10 DEF Queueing
<1>12. /\ w.pc[Ses] = "none" /\ w.pc[Recv] = "none" /\ w.pc[Send] = "none"
       /\ w.pc[Heart] = "none" /\ w.pc[Open] = "none"
  BY <1>7, Names
<1>13. \A c \in Viewers : /\ w.pc[<<"session", c>>] = "none" /\ w.pc[<<"recv", c>>] = "none"
                          /\ w.pc[<<"send", c>>] = "none" /\ w.pc[<<"open", c>>] = "none"
  BY <1>7, ViewerNames
<1>14. Locations(w.pc)
  BY <1>12, <1>13 DEF Locations
<1>15. StartUp(w, NoThread)
  BY <1>12 DEF StartUp, Young
<1>16. FrontEnd(w)
  BY <1>7, <1>8, <1>12 DEF FrontEnd, NoneServes, Young
<1>17. Video(w)
  BY <1>7, <1>8, <1>9, <1>10, <1>13 DEF Video
<1>18. ASSUME NEW c \in Viewers PROVE Viewer(w, c)
  <2>1. w.cu[c] = [NoCu EXCEPT !.found = w.cu[c].found]
    BY <1>7 DEF NoCu
  <2> QED BY <1>7, <1>8, <1>13, <2>1 DEF Viewer
<1>19. Batches(w, NoThread)
  BY <1>7, <1>8, <1>12, <1>13 DEF Batches
<1>20. Sessions(w, 0)
  BY <1>7, <1>8, <1>12, <1>13 DEF Sessions
<1>21. ASSUME NEW m \in Msgs PROVE CuHeld(w, m) = 0 /\ Held(w, m) = 0
  <2>1. Copies(<<>>, m) = 0
    BY EmptySeq, CopiesFacts
  <2>2. Queued(NoPu, m) = 0 /\ Queued(NoCu, m) = 0
    BY <1>8, <2>1 DEF Queued
  <2>3. PuHeld(w.pu, m) = 0
    BY <1>7, <1>8, <2>2 DEF PuHeld
  <2>4. CuHeld(w, m) = 0
    <3>1. PICK F : F = [c \in Viewers |-> Queued(w.cu[c], m)]
      OBVIOUS
    <3>2. \A c \in Viewers : F[c] = 0
      BY <1>7, <2>2, <3>1
    <3>3. UNION {{c} \X (1..F[c]) : c \in Viewers} = {}
      BY <3>2
    <3>4. Total(F) = 0
      BY <3>3, FS_EmptySet DEF Total
    <3> QED BY <3>1, <3>4 DEF CuHeld
  <2>5. OpenHeld(w.pc, m) = 0
    <3>1. ASSUME m \in {"open"} \X Viewers PROVE w.pc[m] = "none"
      <4>1. PICK c \in Viewers : m = <<"open", c>>
        BY <3>1
      <4> QED BY <1>13, <4>1
    <3> QED BY <3>1 DEF OpenHeld, Bit
  <2> QED BY <2>3, <2>4, <2>5 DEF Held
<1>22. Counted(w)
  <2>1. VideoCmd \in Msgs
    BY Names
  <2> QED BY <1>7, <1>21, <2>1 DEF Counted
<1>23. Good(w, NoThread, 0)
  BY <1>6, <1>7, <1>11, <1>14, <1>15, <1>16, <1>17, <1>18, <1>19, <1>20, <1>22 DEF Good
<1>24. frames \in 0..MaxFrames /\ idle \in BOOLEAN /\ inputs \in Nat
  BY <1>2, NvsAssumption
<1> QED BY <1>2, <1>6, <1>7, <1>23, <1>24 DEF NvsInv

(* Whatever connects, sends, beats or fails, and in whatever order the     *)
(* threads run, every thread finds the proxy that it serves, and the       *)
(* references of every message and of every proxy are enough for what      *)
(* refers to them.                                                         *)
THEOREM NvsInductive ==
  NvsSpec => []NvsInv
<1>1. NvsInit => NvsInv
  BY NvsStarts
<1>2. NvsInv /\ [NvsNext]_nvsvars => NvsInv'
  <2> SUFFICES ASSUME NvsInv, [NvsNext]_nvsvars PROVE NvsInv'
    OBVIOUS
  <2>1. CASE RunDevice
    BY <2>1, DeviceKeeps
  <2>2. CASE \E c \in Viewers : RunViewer(c)
    BY <2>2, ViewerKeeps
  <2>3. CASE \E t \in Threads : Wake(t)
    BY <2>3, WakeKeeps
  <2>4. CASE \E t \in Threads : Arrive(t)
    BY <2>4, ArriveKeeps
  <2>5. CASE UNCHANGED nvsvars
    BY <2>5 DEF nvsvars, NvsInv
  <2> QED BY <2>1, <2>2, <2>3, <2>4, <2>5 DEF NvsNext
<1> QED BY <1>1, <1>2, PTL DEF NvsSpec

(* No message is freed while something still refers to it: for any viewers *)
(* and any number of frames, connections and heartbeats.                   *)
THEOREM MessagesStayAlive ==
  NvsSpec => []MessageAlive
<1>1. NvsInv => MessageAlive
  <2> SUFFICES ASSUME NvsInv, w.crashed = "no", NEW m \in Msgs
               PROVE  w.ref[m] >=
                        Queued(w.pu, m) + Total([c \in Viewers |-> Queued(w.cu[c], m)])
                        + (IF m = VideoCmd /\ w.pu.cmd THEN 1 + Len(w.pu.vec) ELSE 0)
                        + (IF m \in {"open"} \X Viewers /\ w.pc[m] = "wait" THEN 1 ELSE 0)
    BY DEF MessageAlive
  <2>1. w \in Server /\ Counted(w)
    BY DEF NvsInv, Good
  <2>2. PICK x, y, z, v, h :
          /\ x = Queued(w.pu, m) /\ y = Total([c \in Viewers |-> Queued(w.cu[c], m)])
          /\ z = (IF m = VideoCmd /\ w.pu.cmd THEN 1 + Len(w.pu.vec) ELSE 0)
          /\ v = (IF m \in {"open"} \X Viewers /\ w.pc[m] = "wait" THEN 1 ELSE 0)
          /\ h = OpenHeld(w.pc, m)
    OBVIOUS
  <2>3. PuHeld(w.pu, m) = x + z /\ CuHeld(w, m) = y /\ v <= h /\ v \in Nat
    <3>1. PuHeld(w.pu, m) = x + z
      BY <2>2 DEF PuHeld
    <3>2. CuHeld(w, m) = y
      BY <2>2 DEF CuHeld
    <3>3. v <= h /\ v \in Nat
      <4>1. CASE m \in {"open"} \X Viewers /\ w.pc[m] = "wait"
        BY <2>2, <4>1 DEF OpenHeld, Bit
      <4>2. CASE ~(m \in {"open"} \X Viewers /\ w.pc[m] = "wait")
        BY <2>2, <4>2 DEF OpenHeld, Bit
      <4> QED BY <4>1, <4>2
    <3> QED BY <3>1, <3>2, <3>3
  <2>4. /\ y \in Nat /\ h \in Nat /\ w.ref[m] \in Nat
        /\ Held(w, m) = (x + z) + y + h
    BY <2>1, <2>2, <2>3, HeldNat
  <2>5. x \in Nat /\ z \in Nat
    <3>1. w.pu.vec \in Seq(Viewers) /\ Len(w.pu.vec) \in Nat
      BY <2>1, ServerType, PuType, LenProperties
    <3> QED BY <2>1, <2>2, <3>1, RefCovers
  <2>6. w.ref[m] >= Held(w, m)
    BY <2>1 DEF Counted
  <2>7. w.ref[m] >= x + y + z + v
    BY <2>3, <2>4, <2>5, <2>6
  <2> QED BY <2>2, <2>7
<1> QED BY <1>1, NvsInductive, PTL

(* No proxy that a reference is counted for is freed, and no count falls   *)
(* below zero.                                                             *)
THEOREM ProxiesStayAlive ==
  NvsSpec => []ProxyAlive
<1>1. NvsInv => ProxyAlive
  <2> SUFFICES ASSUME NvsInv PROVE ProxyAlive
    OBVIOUS
  <2>1. w.crashed # "count"
    BY DEF NvsInv
  <2>2. ASSUME w.crashed = "no", NEW t \in DeviceThreads \ {T("session")}, w.pc[t] # "none"
        PROVE  w.pu.alive
    <3>1. FrontEnd(w)
      BY <2>2 DEF NvsInv, Good
    <3>2. t \in {Recv, Send, Heart, Open}
      BY DEF DeviceThreads, Recv, Send, Heart, Open, T
    <3> QED BY <2>2, <3>1, <3>2 DEF FrontEnd, NoneServes
  <2>3. ASSUME w.crashed = "no", NEW c \in Viewers
        PROVE  /\ \/ w.pc[<<"recv", c>>] # "none" \/ w.pc[<<"send", c>>] # "none"
                  \/ w.pc[<<"open", c>>] = "wait" \/ c \in ToSet(w.pu.vec)
                  => w.cu[c].alive
               /\ w.cu[c].pu => w.pu.alive
    <3>1. w \in Server /\ FrontEnd(w) /\ Video(w) /\ Viewer(w, c)
      BY <2>3 DEF NvsInv, Good
    <3>2. c \in ToSet(w.pu.vec) => w.pc[<<"open", c>>] = "wait"
      <4>1. w.pu.vec \in Seq(Viewers)
        BY <3>1, ServerType, PuType
      <4> QED BY <3>1, <4>1, InToSet DEF Video
    <3>3. ~w.cu[c].alive => /\ w.pc[<<"recv", c>>] = "none" /\ w.pc[<<"send", c>>] = "none"
                            /\ w.pc[<<"open", c>>] # "wait"
      BY <3>1 DEF Viewer
    <3>4. w.cu[c].pu => w.pu.alive
      BY <3>1 DEF Video, FrontEnd, NoPu
    <3> QED BY <3>2, <3>3, <3>4
  <2> QED BY <2>1, <2>2, <2>3 DEF ProxyAlive
<1> QED BY <1>1, NvsInductive, PTL

=============================================================================
