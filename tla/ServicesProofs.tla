--------------------------- MODULE ServicesProofs ---------------------------
(***************************************************************************)
(* Proofs about the two sample services that carry data between others,   *)
(* and about the database client.  The gateway pumps every stream through  *)
(* unmodified (StreamsKept), for any number of connections and sizes of    *)
(* buffers; a lookup of the resolver reports the truth (ReportTrue) while  *)
(* the 16-bit ids of the queries have not wrapped around; and the database *)
(* client keeps its connection sound (ConnectionSound), for any number of  *)
(* coroutines, calls and failures.                                         *)
(***************************************************************************)
EXTENDS DbService, Gateway, Resolver, SequenceTheorems, FiniteSetTheorems, TLAPS

-----------------------------------------------------------------------------
(* Sequences of bytes.                                                     *)

Bytes == Seq(Nat)

(* What is cut in two is all there.                                        *)
LEMMA CutFacts ==
  ASSUME NEW b \in Bytes, NEW n \in 0..Len(b)
  PROVE  /\ SubSeq(b, 1, n) \in Bytes /\ SubSeq(b, n + 1, Len(b)) \in Bytes
         /\ SubSeq(b, 1, n) \o SubSeq(b, n + 1, Len(b)) = b
<1>1. Len(b) \in Nat /\ b \in Seq(Nat)
  BY DEF Bytes
<1>2. \A i \in 1..n : b[i] \in Nat
  BY <1>1
<1>3. \A i \in (n + 1)..Len(b) : b[i] \in Nat
  BY <1>1
<1>4. SubSeq(b, 1, n) \in Seq(Nat)
  BY <1>1, <1>2, SubSeqProperties
<1>5. SubSeq(b, n + 1, Len(b)) \in Seq(Nat)
  BY <1>1, <1>3, SubSeqProperties
<1>6. 1 \in 1..(Len(b) + 1) /\ n \in (1 - 1)..Len(b) /\ Len(b) \in n..Len(b)
  BY <1>1
<1>7. SubSeq(b, 1, n) \o SubSeq(b, n + 1, Len(b)) = SubSeq(b, 1, Len(b))
  BY <1>1, <1>6, ConcatAdjacentSubSeq
<1>8. SubSeq(b, 1, Len(b)) = b
  BY <1>1, SubSeqFull
<1> QED BY <1>4, <1>5, <1>7, <1>8 DEF Bytes

(* Bytes move from the head of one part of a stream to the end of the part *)
(* before it.                                                              *)
LEMMA Moved ==
  ASSUME NEW a \in Bytes, NEW x \in Bytes, NEW y \in Bytes
  PROVE  /\ (a \o x) \o y = a \o (x \o y)
         /\ a \o x \in Bytes /\ x \o y \in Bytes /\ a \o (x \o y) \in Bytes
<1>1. a \in Seq(Nat) /\ x \in Seq(Nat) /\ y \in Seq(Nat)
  BY DEF Bytes
<1>2. a \o x \in Seq(Nat) /\ x \o y \in Seq(Nat)
  BY <1>1, ConcatProperties, Zenon
<1>3. a \o (x \o y) \in Seq(Nat)
  BY <1>1, <1>2, ConcatProperties, Zenon
<1>4. (a \o x) \o y = a \o (x \o y)
  BY <1>1, ConcatAssociative
<1> QED BY <1>2, <1>3, <1>4 DEF Bytes

(* Concatenation is associative.                                           *)
LEMMA Assoc == \A a, x, y \in Bytes : (a \o x) \o y = a \o (x \o y)
BY Moved

(* The same when the bytes that move are cut off.                          *)
LEMMA MovedCut ==
  \A w, b \in Bytes : \A m \in 0..Len(b) :
    (w \o SubSeq(b, 1, m)) \o SubSeq(b, m + 1, Len(b)) = w \o b
<1> SUFFICES ASSUME NEW w \in Bytes, NEW b \in Bytes, NEW m \in 0..Len(b)
             PROVE  (w \o SubSeq(b, 1, m)) \o SubSeq(b, m + 1, Len(b)) = w \o b
  OBVIOUS
<1> DEFINE u == SubSeq(b, 1, m)
           v == SubSeq(b, m + 1, Len(b))
<1>1. u \in Bytes /\ v \in Bytes /\ u \o v = b
  BY CutFacts
<1> HIDE DEF u, v
<1>2. (w \o u) \o v = w \o (u \o v)
  BY <1>1, Assoc
<1>3. (w \o u) \o v = w \o b
  BY <1>1, <1>2
<1> QED BY <1>3 DEF u, v

(* The first element of the second part becomes the last of the first.     *)
LEMMA MovedOne ==
  ASSUME NEW a \in Bytes, NEW x \in Bytes, x # <<>>
  PROVE  /\ Append(a, Head(x)) \in Bytes /\ Tail(x) \in Bytes
         /\ Append(a, Head(x)) \o Tail(x) = a \o x
<1> DEFINE h == Head(x)
           t == Tail(x)
<1>1. h \in Nat /\ t \in Seq(Nat) /\ a \in Seq(Nat) /\ x \in Seq(Nat)
  BY HeadTailProperties DEF Bytes
<1>2. x = <<h>> \o t
  <2>1. /\ Len(t) = Len(x) - 1 /\ Len(x) \in Nat /\ Len(x) > 0
        /\ \A i \in 1..Len(t) : t[i] = x[i + 1]
    BY <1>1, HeadTailProperties
  <2>2. h = x[1]
    BY <1>1
  <2> DEFINE p == <<h>>
  <2>3. p \in Seq(Nat) /\ Len(p) = 1 /\ p[1] = h
    BY <1>1
  <2> HIDE DEF h, t, p
  <2> DEFINE q == p \o t
  <2>4. /\ q \in Seq(Nat) /\ Len(q) = 1 + Len(t)
        /\ \A i \in 1..(1 + Len(t)) : q[i] = IF i <= 1 THEN p[i] ELSE t[i - 1]
    <3>1. /\ q \in Seq(Nat) /\ Len(q) = Len(p) + Len(t)
          /\ \A i \in 1..(Len(p) + Len(t)) : q[i] = IF i <= Len(p) THEN p[i] ELSE t[i - Len(p)]
      <4>1. p \in Seq(Nat) /\ t \in Seq(Nat)
        BY <1>1, <2>3
      <4> QED BY <4>1, ConcatProperties, Zenon
    <3> HIDE DEF q
    <3> QED BY <2>3, <3>1
  <2> HIDE DEF q
  <2>5. Len(q) = Len(x)
    BY <2>1, <2>4
  <2>6. ASSUME NEW i \in 1..Len(q) PROVE q[i] = x[i]
    <3>1. CASE i = 1
      BY <2>1, <2>2, <2>3, <2>4, <2>5, <3>1
    <3>2. CASE i # 1
      <4>1. i - 1 \in 1..Len(t) /\ (i - 1) + 1 = i /\ i \in 1..(1 + Len(t)) /\ ~(i <= 1)
        BY <2>1, <2>4, <3>2
      <4>2. q[i] = t[i - 1] /\ t[i - 1] = x[(i - 1) + 1]
        BY <2>1, <2>4, <4>1
      <4> QED BY <4>1, <4>2
    <3> QED BY <3>1, <3>2
  <2>7. q = x
    BY <1>1, <2>4, <2>5, <2>6, SeqEqual
  <2> QED BY <2>7 DEF q, p
<1> HIDE DEF h, t
<1>3. Append(a, h) = a \o <<h>> /\ Append(a, h) \in Seq(Nat)
  BY <1>1, AppendIsConcat, AppendProperties
<1>4. <<h>> \in Seq(Nat)
  BY <1>1
<1>5. (a \o <<h>>) \o t = a \o (<<h>> \o t)
  BY <1>1, <1>4, ConcatAssociative
<1> QED BY <1>1, <1>2, <1>3, <1>5 DEF h, t, Bytes

AllSent(n) == [i \in 1..n |-> i]

(* One more byte is sent.                                                  *)
LEMMA SentOne ==
  ASSUME NEW a \in Bytes, NEW x \in Bytes, NEW n \in Nat, a \o x = AllSent(n)
  PROVE  a \o Append(x, n + 1) = AllSent(n + 1)
<1> DEFINE e == n + 1
<1>1. e \in Nat /\ a \in Seq(Nat) /\ x \in Seq(Nat) /\ a \o x \in Seq(Nat)
  <2>1. e \in Nat /\ a \in Seq(Nat) /\ x \in Seq(Nat)
    BY DEF Bytes
  <2> QED BY <2>1, ConcatProperties, Zenon
<1>2. <<e>> \in Seq(Nat)
  BY <1>1
<1> HIDE DEF e
<1>3. Append(x, e) = x \o <<e>>
  BY <1>1, AppendIsConcat
<1>4. (a \o x) \o <<e>> = a \o (x \o <<e>>)
  BY <1>2, Moved DEF Bytes
<1>5. (a \o x) \o <<e>> = Append(a \o x, e)
  BY <1>1, AppendIsConcat
<1>6. Append(AllSent(n), e) = AllSent(n + 1)
  <2> DEFINE f == AllSent(n)
             g == Append(f, e)
             r == AllSent(n + 1)
  <2>1. f \in Seq(Nat) /\ Len(f) = n /\ \A i \in 1..n : f[i] = i
    BY DEF AllSent
  <2>2. r \in Seq(Nat) /\ Len(r) = n + 1 /\ \A i \in 1..(n + 1) : r[i] = i
    BY DEF AllSent
  <2> HIDE DEF f
  <2>3. /\ g \in Seq(Nat) /\ Len(g) = n + 1 /\ \A i \in 1..n : g[i] = f[i]
        /\ g[n + 1] = e
    BY <1>1, <2>1, AppendProperties
  <2> HIDE DEF g, r
  <2>4. \A i \in 1..Len(g) : g[i] = r[i]
    BY <2>1, <2>2, <2>3 DEF e
  <2>5. g = r
    BY <2>2, <2>3, <2>4, SeqEqual
  <2> QED BY <2>5 DEF g, r, f
<1> QED BY <1>3, <1>4, <1>5, <1>6 DEF e

(* A part of all that is sent is a prefix of it, and stays one.            *)
LEMMA PrefixFacts ==
  ASSUME NEW a \in Bytes, NEW n \in Nat
  PROVE  /\ \A x \in Bytes : a \o x = AllSent(n) => IsPrefix(a, AllSent(n))
         /\ IsPrefix(a, AllSent(n)) <=> (Len(a) <= n /\ \A i \in 1..Len(a) : a[i] = i)
<1>1. a \in Seq(Nat) /\ Len(a) \in Nat /\ AllSent(n) \in Seq(Nat) /\ Len(AllSent(n)) = n
      /\ \A i \in 1..n : AllSent(n)[i] = i
  BY DEF Bytes, AllSent
<1> DEFINE r == AllSent(n)
           m == Len(a)
           p == SubSeq(a, 1, m)
           q == SubSeq(r, 1, m)
<1>2. p = a
  BY <1>1, SubSeqFull
<1>3. IsPrefix(a, r) <=> m <= n /\ a = q
  BY <1>1, <1>2 DEF IsPrefix
<1> HIDE DEF r, p
<1>4. ASSUME m <= n
      PROVE  q \in Seq(Nat) /\ Len(q) = m /\ \A i \in 1..m : q[i] = i
  <2>1. \A i \in 1..m : r[i] \in Nat /\ r[i] = i
    BY <1>1, <1>4 DEF r
  <2>2. 1 \in Int /\ m \in Int
    BY <1>1
  <2> HIDE DEF m
  <2>3. /\ q \in Seq(Nat) /\ Len(q) = (IF 1 <= m THEN m - 1 + 1 ELSE 0)
        /\ \A i \in 1..(m - 1 + 1) : q[i] = r[1 + i - 1]
    BY <2>1, <2>2, SubSeqProperties
  <2>4. m \in Nat /\ Len(q) = m
    BY <1>1, <2>3 DEF m
  <2>5. ASSUME NEW i \in 1..m PROVE q[i] = i
    <3>1. i \in 1..(m - 1 + 1) /\ 1 + i - 1 = i
      BY <2>4
    <3> QED BY <2>1, <2>3, <3>1
  <2> QED BY <2>3, <2>4, <2>5
<1> HIDE DEF q
<1>5. m <= n => (a = q <=> \A i \in 1..m : a[i] = i)
  <2> SUFFICES ASSUME m <= n PROVE a = q <=> \A i \in 1..m : a[i] = i
    OBVIOUS
  <2>1. a = q => \A i \in 1..m : a[i] = i
    BY <1>4
  <2>2. ASSUME \A i \in 1..m : a[i] = i PROVE a = q
    BY <1>1, <1>4, <2>2, SeqEqual
  <2> QED BY <2>1, <2>2
<1>6. IsPrefix(a, r) <=> (m <= n /\ \A i \in 1..m : a[i] = i)
  BY <1>3, <1>5
<1>7. ASSUME NEW x \in Bytes, a \o x = r PROVE IsPrefix(a, r)
  <2>1. /\ Len(a \o x) = m + Len(x) /\ Len(x) \in Nat
        /\ \A i \in 1..(m + Len(x)) : (a \o x)[i] = IF i <= m THEN a[i] ELSE x[i - m]
    BY <1>1, ConcatProperties DEF Bytes
  <2>2. m <= n /\ m + Len(x) = n
    BY <1>1, <1>7, <2>1 DEF r
  <2>3. ASSUME NEW i \in 1..m PROVE a[i] = i
    <3>1. i \in 1..(m + Len(x)) /\ i <= m /\ i \in 1..n
      BY <1>1, <2>1, <2>2
    <3> QED BY <1>1, <1>7, <2>1, <3>1 DEF r
  <2> QED BY <1>6, <2>2, <2>3
<1> QED BY <1>6, <1>7 DEF r

-----------------------------------------------------------------------------
(* The gateway.                                                            *)

(* A stream of which n bytes were sent, in its four parts; pc is where the *)
(* session stands.                                                         *)
Whole(pc, got, out, held, in, n) ==
    IF pc = "done" THEN IsPrefix(got \o out, AllSent(n))
                   ELSE got \o out \o held \o in = AllSent(n)

(* The ways in which the parts of a stream change.                         *)
LEMMA WholeFacts ==
  ASSUME NEW pc, NEW g \in Bytes, NEW o \in Bytes, NEW h \in Bytes, NEW i \in Bytes, NEW n \in Nat,
         Whole(pc, g, o, h, i, n)
  PROVE  /\ \A x : Whole("done", g, o, x, i, n)
         /\ pc # "done" => \A q : q # "done" => Whole(q, g, o, h, i, n)
         /\ h = <<>> /\ pc # "done" => \A m \in 0..Len(i) : \A q :
              q # "done" => Whole(q, g, o, SubSeq(i, 1, m), SubSeq(i, m + 1, Len(i)), n)
         /\ pc # "done" => \A m \in 0..Len(h) : \A q :
              q # "done" => Whole(q, g, o \o SubSeq(h, 1, m), SubSeq(h, m + 1, Len(h)), i, n)
         /\ Whole(pc, g, o, h, Append(i, n + 1), n + 1)
         /\ o # <<>> => Whole(pc, Append(g, Head(o)), Tail(o), h, i, n)
<1> DEFINE w == g \o o
<1>1. w \in Bytes
  BY Moved, Zenon
<1> HIDE DEF w
<1>2. w \in Bytes /\ w \o h \in Bytes /\ h \o i \in Bytes /\ (w \o h) \o i = w \o (h \o i)
  BY <1>1, Moved, Zenon
<1>3. IsPrefix(w, AllSent(n))
  <2>1. CASE pc = "done"
    BY <2>1 DEF Whole, w
  <2>2. CASE pc # "done"
    <3>1. w \o (h \o i) = AllSent(n)
      BY <1>2, <2>2 DEF Whole, w
    <3> QED BY <1>2, <3>1, PrefixFacts
  <2> QED BY <2>1, <2>2
<1>4. pc # "done" => (w \o h) \o i = AllSent(n)
  BY DEF Whole, w
<1>5. \A x : Whole("done", g, o, x, i, n)
  BY <1>3 DEF Whole, w
<1>6. pc # "done" => \A q : q # "done" => Whole(q, g, o, h, i, n)
  BY DEF Whole
<1>7. ASSUME h = <<>>, pc # "done", NEW m \in 0..Len(i), NEW q, q # "done"
      PROVE  Whole(q, g, o, SubSeq(i, 1, m), SubSeq(i, m + 1, Len(i)), n)
  <2>1. w \o h = w
    BY <1>2, <1>7, ConcatEmptySeq DEF Bytes
  <2>2. (w \o SubSeq(i, 1, m)) \o SubSeq(i, m + 1, Len(i)) = AllSent(n)
    <3>1. (w \o SubSeq(i, 1, m)) \o SubSeq(i, m + 1, Len(i)) = w \o i
      BY <1>2, MovedCut
    <3> QED BY <1>4, <1>7, <2>1, <3>1
  <2> QED BY <1>7, <2>2 DEF Whole, w
<1>8. ASSUME pc # "done", NEW m \in 0..Len(h), NEW q, q # "done"
      PROVE  Whole(q, g, o \o SubSeq(h, 1, m), SubSeq(h, m + 1, Len(h)), i, n)
  <2>1. \A u \in Bytes : g \o (o \o u) = w \o u
    BY Assoc DEF w
  <2>2. SubSeq(h, 1, m) \in Bytes
    BY CutFacts
  <2>3. (w \o SubSeq(h, 1, m)) \o SubSeq(h, m + 1, Len(h)) = w \o h
    BY <1>2, MovedCut
  <2>4. ((g \o (o \o SubSeq(h, 1, m))) \o SubSeq(h, m + 1, Len(h))) \o i = AllSent(n)
    BY <1>4, <1>8, <2>1, <2>2, <2>3
  <2> QED BY <1>8, <2>4 DEF Whole
<1>9. Whole(pc, g, o, h, Append(i, n + 1), n + 1)
  <2>1. CASE pc = "done"
    <3>1. IsPrefix(w, AllSent(n + 1))
      <4>1. Len(w) <= n /\ \A j \in 1..Len(w) : w[j] = j
        BY <1>2, <1>3, PrefixFacts
      <4>2. Len(w) <= n + 1 /\ n + 1 \in Nat
        BY <1>2, <4>1 DEF Bytes
      <4> QED BY <1>2, <4>1, <4>2, PrefixFacts
    <3> QED BY <2>1, <3>1 DEF Whole, w
  <2>2. CASE pc # "done"
    <3>1. (w \o h) \o Append(i, n + 1) = AllSent(n + 1)
      BY <1>2, <1>4, <2>2, SentOne
    <3> QED BY <2>2, <3>1 DEF Whole, w
  <2> QED BY <2>1, <2>2
<1>10. o # <<>> => Whole(pc, Append(g, Head(o)), Tail(o), h, i, n)
  <2> SUFFICES ASSUME o # <<>> PROVE Whole(pc, Append(g, Head(o)), Tail(o), h, i, n)
    OBVIOUS
  <2>1. Append(g, Head(o)) \o Tail(o) = g \o o
    BY MovedOne
  <2> DEFINE x == Append(g, Head(o))
             y == Tail(o)
  <2>2. x \o y = g \o o
    BY <2>1
  <2> HIDE DEF x, y
  <2>3. Whole(pc, x, y, h, i, n)
    BY <2>2 DEF Whole
  <2> QED BY <2>3 DEF x, y
<1> QED BY <1>5, <1>6, <1>7, <1>8, <1>9, <1>10

Sessions == [pc : {"none", "connect", "poll", "read", "write", "done"}, proc : Nat,
             open : SUBSET Sides, todo : SUBSET Sides, buf : Bytes]
Streams == [sent : Nat, in : Bytes, out : Bytes, got : Bytes, eof : BOOLEAN, gone : BOOLEAN]

GwType ==
    /\ gw \in [stage : {"main", "fork", "exit"}, left : Nat, procs : SUBSET Nat]
    /\ ses \in [Conns -> Sessions]
    /\ net \in [Conns -> [Sides -> Streams]]

Dir(s) == IF "cli" \in s.todo THEN "cli" ELSE "rmt"
Held(s, d) == IF s.pc = "write" /\ Dir(s) = d THEN s.buf ELSE <<>>
KeptBy(s, n, d) == Whole(s.pc, n.got, n.out, Held(s, d), n.in, n.sent)

GwInv == GwType /\ \A c \in Conns, d \in Sides : KeptBy(ses[c], net[c][d], d)

(* The parts of a stream are sequences of bytes.                           *)
LEMMA Parts ==
  ASSUME NEW s \in Sessions, NEW n \in Streams, NEW d
  PROVE  /\ n.got \in Bytes /\ n.out \in Bytes /\ n.in \in Bytes /\ n.sent \in Nat
         /\ Held(s, d) \in Bytes /\ s.buf \in Bytes
<1>1. <<>> \in Bytes
  BY DEF Bytes
<1> QED BY <1>1 DEF Sessions, Streams, Held

(* A session that ends, or moves on with nothing in buf for d, keeps the   *)
(* stream.                                                                 *)
LEMMA Moves ==
  ASSUME NEW s \in Sessions, NEW n \in Streams, NEW d \in Sides, KeptBy(s, n, d),
         NEW t \in Sessions,
         t.pc = "done" \/ (s.pc # "done" /\ Held(s, d) = Held(t, d))
  PROVE  KeptBy(t, n, d)
<1> DEFINE h == Held(s, d)
           k == Held(t, d)
<1> HIDE DEF h, k
<1>1. /\ n.got \in Bytes /\ n.out \in Bytes /\ n.in \in Bytes /\ n.sent \in Nat
      /\ h \in Bytes /\ Whole(s.pc, n.got, n.out, h, n.in, n.sent)
  BY Parts DEF KeptBy, h
<1>2. /\ Whole("done", n.got, n.out, k, n.in, n.sent)
      /\ s.pc # "done" => \A q : q # "done" => Whole(q, n.got, n.out, h, n.in, n.sent)
  BY <1>1, WholeFacts
<1>3. Whole(t.pc, n.got, n.out, k, n.in, n.sent)
  BY <1>2 DEF h, k
<1> QED BY <1>3 DEF KeptBy, k

(* Only the session of c changes.                                          *)
LEMMA SesStep ==
  ASSUME GwInv, NEW c \in Conns, NEW t \in Sessions,
         ses' = [ses EXCEPT ![c] = t], UNCHANGED <<gw, net>>,
         t.pc = "done" \/ (ses[c].pc # "done" /\ \A d \in Sides : Held(ses[c], d) = Held(t, d))
  PROVE  GwInv'
<1>1. /\ GwType /\ ses' \in [Conns -> Sessions]
      /\ \A x \in Conns : ses'[x] = IF x = c THEN t ELSE ses[x]
  BY DEF GwInv, GwType
<1>2. GwType'
  BY <1>1 DEF GwType
<1>3. \A x \in Conns, d \in Sides : ses[x] \in Sessions /\ net[x][d] \in Streams
  BY <1>1 DEF GwType
<1>4. ASSUME NEW x \in Conns, NEW d \in Sides PROVE KeptBy(ses'[x], net'[x][d], d)
  <2>1. CASE x = c
    <3>1. KeptBy(ses[c], net[c][d], d)
      BY DEF GwInv
    <3>2. KeptBy(t, net[c][d], d)
      BY <1>3, <3>1, Moves
    <3> QED BY <1>1, <2>1, <3>2
  <2>2. CASE x # c
    BY <1>1, <2>2 DEF GwInv
  <2> QED BY <2>1, <2>2
<1> QED BY <1>2, <1>4 DEF GwInv, KeptBy, Held, Dir

(* The session of c and one of its streams change.                         *)
LEMMA PumpStep ==
  ASSUME GwInv, NEW c \in Conns, NEW d \in Sides, NEW t \in Sessions, NEW m \in Streams,
         ses' = [ses EXCEPT ![c] = t], net' = [net EXCEPT ![c][d] = m], UNCHANGED gw,
         KeptBy(t, m, d),
         t = ses[c] \/ (/\ t.pc # "done" /\ ses[c].pc # "done"
                        /\ \A e \in Sides \ {d} : Held(ses[c], e) = Held(t, e))
  PROVE  GwInv'
<1>1. /\ GwType /\ \A x \in Conns : net[x] \in [Sides -> Streams]
      /\ ses' \in [Conns -> Sessions]
      /\ \A x \in Conns : ses[x] \in Sessions /\ ses'[x] = IF x = c THEN t ELSE ses[x]
  BY DEF GwInv, GwType
<1> DEFINE k == [net[c] EXCEPT ![d] = m]
<1>2. k \in [Sides -> Streams] /\ \A e \in Sides : k[e] = IF e = d THEN m ELSE net[c][e]
  BY <1>1
<1>3. net' = [net EXCEPT ![c] = k]
  OBVIOUS
<1> HIDE DEF k
<1>4. /\ net' \in [Conns -> [Sides -> Streams]]
      /\ \A x \in Conns : net'[x] = IF x = c THEN k ELSE net[x]
  BY <1>1, <1>2, <1>3 DEF GwType
<1>5. GwType'
  BY <1>1, <1>4 DEF GwType
<1>6. ASSUME NEW x \in Conns, NEW e \in Sides PROVE KeptBy(ses'[x], net'[x][e], e)
  <2>1. CASE x = c /\ e = d
    BY <1>1, <1>2, <1>4, <2>1
  <2>2. CASE x = c /\ e # d
    <3>1. net'[x][e] = net[c][e] /\ ses'[x] = t /\ net[c][e] \in Streams
      BY <1>1, <1>2, <1>4, <2>2
    <3>2. KeptBy(ses[c], net[c][e], e)
      BY DEF GwInv
    <3>3. KeptBy(t, net[c][e], e)
      BY <1>1, <2>2, <3>1, <3>2, Moves
    <3> QED BY <3>1, <3>3
  <2>3. CASE x # c
    <3>1. net'[x][e] = net[x][e] /\ ses'[x] = ses[x]
      BY <1>1, <1>4, <2>3
    <3> QED BY <3>1 DEF GwInv
  <2> QED BY <2>1, <2>2, <2>3
<1> QED BY <1>5, <1>6 DEF GwInv, KeptBy, Held, Dir

(* A session that ends has closed its sockets.                             *)
LEMMA ShutFacts == ASSUME NEW s \in Sessions PROVE Shut(s) \in Sessions /\ Shut(s).pc = "done"
<1>1. <<>> \in Bytes
  BY DEF Bytes
<1> QED BY <1>1 DEF Sessions, Shut

(* The program's processes.                                                *)
LEMMA MainStep ==
  ASSUME GwInv, NEW port \in PortArgs, NEW short \in BOOLEAN, NEW one \in BOOLEAN,
         NEW n \in NumProcs, gw_main(port, short, n, one)
  PROVE  GwInv'
<1> DEFINE mx == Max({n, 1})
<1>1. mx \in Nat
  <2>1. n \in Int
    BY GatewayAssumption
  <2>2. mx = CHOOSE x \in {n, 1} : \A y \in {n, 1} : x >= y
    BY DEF Max
  <2>3. \E x \in {n, 1} : \A y \in {n, 1} : x >= y
    BY <2>1
  <2> HIDE DEF mx
  <2>4. mx \in {n, 1} /\ \A y \in {n, 1} : mx >= y
    BY <2>2, <2>3
  <2> QED BY <2>1, <2>4
<1> HIDE DEF mx
<1>2. /\ ses' = ses /\ net' = net
      /\ \/ gw' = [gw EXCEPT !.stage = "exit"]
         \/ gw' = [gw EXCEPT !.stage = "exit", !.procs = {1}]
         \/ gw' = [gw EXCEPT !.stage = "fork", !.left = mx]
  BY DEF gw_main, mx
<1>3. gw' \in [stage : {"main", "fork", "exit"}, left : Nat, procs : SUBSET Nat]
  <2>1. gw \in [stage : {"main", "fork", "exit"}, left : Nat, procs : SUBSET Nat]
    BY DEF GwInv, GwType
  <2>2. {1} \in SUBSET Nat
    OBVIOUS
  <2> QED BY <1>1, <1>2, <2>1, <2>2
<1> QED BY <1>2, <1>3 DEF GwInv, GwType, KeptBy, Held, Dir

(* The parent forks.                                                       *)
LEMMA ForkStep == ASSUME GwInv, set_concurrency PROVE GwInv'
<1> DEFINE l == gw.left - 1
           ps == gw.procs \cup {gw.left}
<1>1. /\ ses' = ses /\ net' = net
      /\ \/ gw.left > 0 /\ gw' = [gw EXCEPT !.left = l, !.procs = ps]
         \/ gw' = [gw EXCEPT !.stage = "exit"]
  BY DEF set_concurrency
<1>2. gw.left \in Nat /\ gw.procs \subseteq Nat
  BY DEF GwInv, GwType
<1>3. ps \subseteq Nat /\ (gw.left > 0 => l \in Nat)
  BY <1>2
<1> HIDE DEF l, ps
<1>4. gw' \in [stage : {"main", "fork", "exit"}, left : Nat, procs : SUBSET Nat]
  BY <1>1, <1>3 DEF GwInv, GwType
<1> QED BY <1>1, <1>4 DEF GwInv, GwType, KeptBy, Held, Dir

(* A process accepts a connection, or ends.                                *)
LEMMA AcceptStep == ASSUME GwInv, NEW p \in gw.procs, Accept(p) PROVE GwInv'
<1>1. GwType /\ p \in Nat /\ gw.procs \subseteq Nat /\ \A x \in Conns : ses[x] \in Sessions
  BY DEF GwInv, GwType
<1>2. CASE \E c \in Conns :
             /\ ses[c].pc = "none" /\ UNCHANGED <<gw, net>>
             /\ ses' = [ses EXCEPT ![c] = [NoSession EXCEPT !.pc = "connect", !.proc = p, !.open = {"cli"}]]
  <2>1. PICK c \in Conns :
             /\ ses[c].pc = "none" /\ UNCHANGED <<gw, net>>
             /\ ses' = [ses EXCEPT ![c] = [NoSession EXCEPT !.pc = "connect", !.proc = p, !.open = {"cli"}]]
    BY <1>2
  <2> DEFINE t == [NoSession EXCEPT !.pc = "connect", !.proc = p, !.open = {"cli"}]
  <2>2. t \in Sessions /\ t.pc = "connect"
    <3>1. <<>> \in Bytes /\ {"cli"} \in SUBSET Sides /\ {} \in SUBSET Sides
      BY DEF Bytes, Sides
    <3> QED BY <1>1, <3>1 DEF NoSession, Sessions
  <2> HIDE DEF t
  <2>3. \A d \in Sides : Held(ses[c], d) = Held(t, d)
    BY <2>1, <2>2 DEF Held
  <2>4. ses' = [ses EXCEPT ![c] = t]
    BY <2>1 DEF t
  <2> QED BY <2>1, <2>2, <2>3, <2>4, SesStep
<1>3. CASE /\ gw' = [gw EXCEPT !.procs = gw.procs \ {p}] /\ UNCHANGED net
           /\ ses' = [c \in Conns |-> IF ses[c].proc = p
                                      THEN [Shut(ses[c]) EXCEPT !.open = {}] ELSE ses[c]]
  <2>1. gw' \in [stage : {"main", "fork", "exit"}, left : Nat, procs : SUBSET Nat]
    <3> DEFINE ps == gw.procs \ {p}
    <3>1. ps \in SUBSET Nat /\ gw' = [gw EXCEPT !.procs = ps]
      BY <1>1, <1>3
    <3> HIDE DEF ps
    <3> QED BY <1>1, <3>1 DEF GwType
  <2>2. ASSUME NEW c \in Conns
        PROVE  /\ [Shut(ses[c]) EXCEPT !.open = {}] \in Sessions
               /\ [Shut(ses[c]) EXCEPT !.open = {}].pc = "done"
    <3>1. Shut(ses[c]) \in Sessions /\ Shut(ses[c]).pc = "done" /\ {} \in SUBSET Sides
      BY <1>1, ShutFacts
    <3> QED BY <3>1 DEF Sessions
  <2>3. ses' \in [Conns -> Sessions]
    BY <1>1, <1>3, <2>2
  <2>4. GwType'
    BY <1>1, <1>3, <2>1, <2>3 DEF GwType
  <2>5. ASSUME NEW c \in Conns, NEW d \in Sides PROVE KeptBy(ses'[c], net'[c][d], d)
    <3>1. KeptBy(ses[c], net[c][d], d) /\ net'[c][d] = net[c][d] /\ net[c][d] \in Streams
      BY <1>1, <1>3 DEF GwInv, GwType
    <3>2. ses'[c] = ses[c] \/ (ses'[c] \in Sessions /\ ses'[c].pc = "done")
      BY <1>3, <2>2
    <3> QED BY <1>1, <3>1, <3>2, Moves
  <2> QED BY <2>4, <2>5 DEF GwInv, KeptBy, Held, Dir
<1> QED BY <1>2, <1>3 DEF Accept

-----------------------------------------------------------------------------
(* handle_request.                                                         *)

(* ConnectRemote and Poll: nothing is in buf before or after.              *)
LEMMA WaitStep ==
  ASSUME GwInv, NEW c \in Conns, ConnectRemote(c) \/ Poll(c)
  PROVE  GwInv'
<1>1. ses[c] \in Sessions /\ ses[c].pc \in {"connect", "poll"} /\ UNCHANGED <<gw, net>>
  BY DEF GwInv, GwType, ConnectRemote, Poll, Step
<1>2. PICK t \in Sessions : ses' = [ses EXCEPT ![c] = t] /\ t.pc \in {"poll", "read", "done"}
  <2>1. Shut(ses[c]) \in Sessions /\ Shut(ses[c]).pc = "done"
    BY <1>1, ShutFacts
  <2>2. CASE ConnectRemote(c)
    <3>1. /\ [ses[c] EXCEPT !.pc = "poll", !.open = Sides] \in Sessions
          /\ [ses[c] EXCEPT !.pc = "poll", !.open = Sides].pc = "poll"
      BY <1>1 DEF Sessions
    <3> QED BY <2>1, <2>2, <3>1 DEF ConnectRemote, Step
  <2>3. CASE Poll(c)
    <3>1. ASSUME NEW ready \in SUBSET Sides
          PROVE  /\ [ses[c] EXCEPT !.pc = "read", !.todo = ready] \in Sessions
                 /\ [ses[c] EXCEPT !.pc = "read", !.todo = ready].pc = "read"
      BY <1>1 DEF Sessions
    <3>2. Readable(c) \subseteq Sides
      BY DEF Readable
    <3> QED BY <2>1, <2>3, <3>1, <3>2 DEF Poll, Step
  <2> QED BY <2>2, <2>3
<1>3. \A d \in Sides : Held(ses[c], d) = Held(t, d)
  BY <1>1, <1>2 DEF Held
<1> QED BY <1>1, <1>2, <1>3, SesStep

(* The smaller of two numbers.                                             *)
LEMMA MinFacts ==
  ASSUME NEW a \in Int, NEW b \in Int
  PROVE  /\ Min({a, b}) \in Int /\ Min({a, b}) <= a /\ Min({a, b}) <= b
         /\ Min({a, b}) \in {a, b}
<1> DEFINE m == Min({a, b})
<1>1. m = CHOOSE x \in {a, b} : \A y \in {a, b} : x <= y
  BY DEF Min
<1>2. \E x \in {a, b} : \A y \in {a, b} : x <= y
  OBVIOUS
<1> HIDE DEF m
<1>3. m \in {a, b} /\ \A y \in {a, b} : m <= y
  BY <1>1, <1>2
<1> QED BY <1>3 DEF m

(* The first half of pass(): what is taken from in is in buf.              *)
LEMMA ReadStep == ASSUME GwInv, NEW c \in Conns, Read(c) PROVE GwInv'
<1> DEFINE d == From(c)
           i == net[c][d].in
           n == Min({Len(i), IoBufSize})
           x == SubSeq(i, 1, n)
           y == SubSeq(i, n + 1, Len(i))
           s == ses[c]
           t == [s EXCEPT !.pc = "write", !.buf = x]
           m == [net[c][d] EXCEPT !.in = y]
<1>1. /\ s \in Sessions /\ s.pc = "read" /\ d \in Sides /\ d = Dir(s)
      /\ net[c][d] \in Streams /\ i \in Bytes /\ Len(i) \in Nat
  BY DEF GwInv, GwType, Read, From, Dir, Sides, Streams, Bytes
<1>2. n <= Len(i) /\ n \in Int
  <2>1. Len(i) \in Int /\ IoBufSize \in Int
    BY <1>1, GatewayAssumption
  <2> HIDE DEF i
  <2> QED BY <2>1, MinFacts, Zenon
<1>3. CASE UNCHANGED net /\ Step(c, Shut(ses[c]))
  BY <1>1, <1>3, ShutFacts, SesStep DEF Step
<1>4. CASE /\ n > 0 /\ net' = [net EXCEPT ![c][d].in = SubSeq(@, n + 1, Len(@))]
           /\ Step(c, [ses[c] EXCEPT !.pc = "write", !.buf = SubSeq(net[c][d].in, 1, n)])
  <2>1. x \in Bytes /\ y \in Bytes /\ n \in 0..Len(i)
    <3>1. n \in 0..Len(i)
      BY <1>1, <1>2, <1>4
    <3> HIDE DEF n, i
    <3> QED BY <1>1, <3>1, CutFacts
  <2>2. net' = [net EXCEPT ![c][d] = m] /\ ses' = [ses EXCEPT ![c] = t] /\ gw' = gw
    BY <1>4 DEF Step
  <2> HIDE DEF x, y
  <2>3. /\ t \in Sessions /\ t.pc = "write" /\ t.buf = x /\ t.todo = s.todo
        /\ m \in Streams /\ m.in = y /\ m.got = net[c][d].got /\ m.out = net[c][d].out
        /\ m.sent = net[c][d].sent
    BY <1>1, <2>1 DEF Sessions, Streams
  <2> HIDE DEF t, m, n, i
  <2>4. Held(t, d) = x /\ \A e \in Sides \ {d} : Held(t, e) = <<>>
    BY <1>1, <2>3 DEF Held, Dir
  <2>5. \A e \in Sides : Held(s, e) = <<>>
    BY <1>1 DEF Held
  <2>6. KeptBy(s, net[c][d], d)
    BY <1>1 DEF GwInv
  <2>7. Whole("read", net[c][d].got, net[c][d].out, <<>>, i, net[c][d].sent)
    BY <1>1, <2>5, <2>6 DEF KeptBy, i
  <2>8. Whole("write", net[c][d].got, net[c][d].out, x, y, net[c][d].sent)
    <3>1. /\ net[c][d].got \in Bytes /\ net[c][d].out \in Bytes /\ net[c][d].sent \in Nat /\ <<>> \in Bytes
      BY <1>1 DEF Streams, Bytes
    <3>2. "read" # "done" /\ "write" # "done"
      OBVIOUS
    <3> DEFINE g == net[c][d].got
               o == net[c][d].out
               k == net[c][d].sent
    <3> HIDE DEF g, o, k
    <3>3. g \in Bytes /\ o \in Bytes /\ k \in Nat /\ <<>> \in Bytes /\ Whole("read", g, o, <<>>, i, k)
      BY <2>7, <3>1 DEF g, o, k
    <3>4. \A j \in 0..Len(i) : \A q : q # "done" => Whole(q, g, o, SubSeq(i, 1, j), SubSeq(i, j + 1, Len(i)), k)
      BY <1>1, <3>2, <3>3, WholeFacts
    <3>5. Whole("write", g, o, x, y, k)
      BY <2>1, <3>2, <3>4 DEF x, y
    <3> QED BY <3>5 DEF g, o, k
  <2>9. KeptBy(t, m, d)
    BY <2>3, <2>4, <2>8 DEF KeptBy
  <2> QED BY <1>1, <2>2, <2>3, <2>4, <2>5, <2>9, PumpStep
<1> QED BY <1>3, <1>4 DEF Read

(* The second half: what is taken from buf is in out.                      *)
LEMMA WriteStep == ASSUME GwInv, NEW c \in Conns, Write(c) PROVE GwInv'
<1> DEFINE d == From(c)
           s == ses[c]
           b == s.buf
           o == net[c][d].out
           n == Min({SockBuf - Len(o), Len(b)})
           x == SubSeq(b, 1, n)
           y == SubSeq(b, n + 1, Len(b))
           left == s.todo \ {d}
           t == IF y # <<>> THEN [s EXCEPT !.buf = y]
                ELSE [s EXCEPT !.buf = <<>>, !.todo = left,
                               !.pc = IF left = {} THEN "poll" ELSE "read"]
           z == o \o x
           m == [net[c][d] EXCEPT !.out = z]
<1>1. /\ s \in Sessions /\ s.pc = "write" /\ d \in Sides /\ d = Dir(s)
      /\ net[c][d] \in Streams /\ b \in Bytes /\ Len(b) \in Nat /\ o \in Bytes /\ Len(o) \in Nat
  BY DEF GwInv, GwType, Write, From, Dir, Sides, Streams, Sessions, Bytes
<1>2. n <= Len(b) /\ n \in Int
  <2> DEFINE r == SockBuf - Len(o)
             k == Len(o)
  <2> HIDE DEF b, o
  <2>1. Len(b) \in Int /\ r \in Int
    <3>1. k \in Nat /\ SockBuf \in Nat
      BY <1>1, GatewayAssumption
    <3> HIDE DEF k
    <3>2. SockBuf - k \in Int
      BY <3>1
    <3> QED BY <1>1, <3>2 DEF k
  <2> HIDE DEF r
  <2>2. Min({r, Len(b)}) <= Len(b) /\ Min({r, Len(b)}) \in Int
    BY <2>1, MinFacts, Zenon
  <2> QED BY <2>2 DEF r
<1>3. CASE UNCHANGED net /\ Step(c, Shut(ses[c]))
  BY <1>1, <1>3, ShutFacts, SesStep DEF Step
<1>4. CASE /\ n > 0 /\ net' = [net EXCEPT ![c][d].out = @ \o SubSeq(ses[c].buf, 1, n)]
           /\ Wrote(c, d, SubSeq(ses[c].buf, n + 1, Len(ses[c].buf)))
  <2>1. x \in Bytes /\ y \in Bytes /\ n \in 0..Len(b)
    <3>1. n \in 0..Len(b)
      BY <1>1, <1>2, <1>4
    <3> HIDE DEF n, b
    <3> QED BY <1>1, <3>1, CutFacts
  <2>2. net' = [net EXCEPT ![c][d] = m] /\ ses' = [ses EXCEPT ![c] = t] /\ gw' = gw
    BY <1>4 DEF Step, Wrote
  <2> HIDE DEF n, b, o, x, y
  <2>3. z \in Bytes
    BY <1>1, <2>1, Moved, Zenon
  <2> HIDE DEF z
  <2>4. /\ m \in Streams /\ m.in = net[c][d].in /\ m.got = net[c][d].got /\ m.out = z
        /\ m.sent = net[c][d].sent
    BY <1>1, <2>3 DEF Streams
  <2>5. /\ t \in Sessions /\ t.pc \in {"write", "poll", "read"}
        /\ t.pc = "write" => t.todo = s.todo /\ t.buf = y
        /\ t.pc # "write" => y = <<>>
    <3>1. CASE y # <<>>
      <4>1. t = [s EXCEPT !.buf = y]
        BY <3>1
      <4> HIDE DEF t
      <4> QED BY <1>1, <2>1, <3>1, <4>1 DEF Sessions
    <3>2. CASE y = <<>>
      <4> DEFINE q == IF left = {} THEN "poll" ELSE "read"
      <4>1. t = [s EXCEPT !.buf = <<>>, !.todo = left, !.pc = q]
        BY <3>2
      <4>2. q \in {"poll", "read"} /\ left \in SUBSET Sides /\ <<>> \in Bytes
        BY <1>1 DEF Sessions, Bytes
      <4> HIDE DEF t, q, left
      <4> QED BY <1>1, <3>2, <4>1, <4>2 DEF Sessions
    <3> QED BY <3>1, <3>2
  <2> HIDE DEF t, m, d, s
  <2>6. Held(t, d) = y /\ \A e \in Sides \ {d} : Held(t, e) = <<>>
    BY <1>1, <2>5 DEF Held, Dir
  <2>7. Held(s, d) = b /\ \A e \in Sides \ {d} : Held(s, e) = <<>>
    BY <1>1 DEF Held, b
  <2>8. KeptBy(s, net[c][d], d)
    BY <1>1 DEF GwInv, s
  <2> DEFINE g == net[c][d].got
             i == net[c][d].in
             k == net[c][d].sent
  <2>9. g \in Bytes /\ i \in Bytes /\ k \in Nat
    BY <1>1 DEF Streams
  <2>10. Whole("write", g, o, b, i, k)
    BY <1>1, <2>7, <2>8 DEF KeptBy, o
  <2> HIDE DEF g, i, k
  <2>11. \A j \in 0..Len(b) : \A q : q # "done" =>
           Whole(q, g, o \o SubSeq(b, 1, j), SubSeq(b, j + 1, Len(b)), i, k)
    <3>1. "write" # "done"
      OBVIOUS
    <3> QED BY <1>1, <2>9, <2>10, <3>1, WholeFacts
  <2>12. Whole(t.pc, g, z, y, i, k)
    BY <2>1, <2>5, <2>11 DEF x, y, z
  <2>13. KeptBy(t, m, d)
    BY <2>4, <2>6, <2>12 DEF KeptBy, g, i, k
  <2>14. t.pc # "done" /\ s.pc # "done" /\ \A e \in Sides \ {d} : Held(s, e) = Held(t, e)
    BY <1>1, <2>5, <2>6, <2>7
  <2> QED BY <1>1, <2>2, <2>4, <2>5, <2>13, <2>14, PumpStep DEF s
<1> QED BY <1>3, <1>4 DEF Write

-----------------------------------------------------------------------------
(* The peers change one stream.                                            *)
LEMMA PeerStep ==
  ASSUME GwInv, NEW c \in Conns, NEW d \in Sides,
         PeerSend(c, d) \/ PeerLeave(c, d) \/ PeerReceive(c, d)
  PROVE  GwInv'
<1> DEFINE n == net[c][d]
           g == n.got
           o == n.out
           i == n.in
           k == n.sent
           h == Held(ses[c], d)
<1>1. /\ ses[c] \in Sessions /\ n \in Streams /\ g \in Bytes /\ o \in Bytes /\ i \in Bytes
      /\ k \in Nat /\ h \in Bytes /\ ses \in [Conns -> Sessions]
  BY Parts DEF GwInv, GwType
<1>2. Whole(ses[c].pc, g, o, h, i, k)
  BY DEF GwInv, KeptBy
<1> HIDE DEF g, o, i, k, h
<1>3. /\ Whole(ses[c].pc, g, o, h, Append(i, k + 1), k + 1)
      /\ o # <<>> => Whole(ses[c].pc, Append(g, Head(o)), Tail(o), h, i, k)
  BY <1>1, <1>2, WholeFacts
<1>4. ASSUME NEW m \in Streams, Peer(c, d, m), KeptBy(ses[c], m, d) PROVE GwInv'
  <2>1. net' = [net EXCEPT ![c][d] = m] /\ UNCHANGED <<gw, ses>>
    BY <1>4 DEF Peer
  <2>2. ses' = [ses EXCEPT ![c] = ses[c]]
    BY <1>1, <2>1
  <2> QED BY <1>1, <1>4, <2>1, <2>2, PumpStep
<1>5. CASE PeerSend(c, d)
  <2> DEFINE i1 == Append(i, k + 1)
             k1 == k + 1
             m == [n EXCEPT !.sent = k1, !.in = i1]
  <2>1. Peer(c, d, m)
    BY <1>5 DEF PeerSend, i, k
  <2>2. i1 \in Bytes /\ k1 \in Nat
    BY <1>1, AppendProperties DEF Bytes
  <2>3. Whole(ses[c].pc, g, o, h, i1, k1)
    BY <1>3
  <2> HIDE DEF i1, k1
  <2>4. m \in Streams /\ m.in = i1 /\ m.sent = k1 /\ m.got = n.got /\ m.out = n.out
    BY <1>1, <2>2 DEF Streams
  <2> HIDE DEF m
  <2>5. KeptBy(ses[c], m, d)
    BY <2>3, <2>4 DEF KeptBy, g, o, h
  <2> QED BY <1>4, <2>1, <2>4, <2>5
<1>6. CASE PeerLeave(c, d)
  <2>1. PICK gone \in BOOLEAN : Peer(c, d, [n EXCEPT !.eof = TRUE, !.gone = gone])
    BY <1>6 DEF PeerLeave
  <2> DEFINE m == [n EXCEPT !.eof = TRUE, !.gone = gone]
  <2>2. m \in Streams /\ m.in = n.in /\ m.sent = n.sent /\ m.got = n.got /\ m.out = n.out
    BY <1>1 DEF Streams
  <2>3. Peer(c, d, m)
    BY <2>1
  <2> HIDE DEF m
  <2>4. KeptBy(ses[c], m, d)
    BY <1>2, <2>2 DEF KeptBy, g, o, h, i, k
  <2> QED BY <1>4, <2>2, <2>3, <2>4
<1>7. CASE PeerReceive(c, d)
  <2> DEFINE o1 == Tail(o)
             g1 == Append(g, Head(o))
             m == [n EXCEPT !.out = o1, !.got = g1]
  <2>1. Peer(c, d, m) /\ o # <<>>
    BY <1>7 DEF PeerReceive, o, g
  <2>2. o1 \in Bytes /\ g1 \in Bytes
    BY <1>1, <2>1, MovedOne
  <2>3. Whole(ses[c].pc, g1, o1, h, i, k)
    BY <1>3, <2>1
  <2> HIDE DEF o1, g1
  <2>4. m \in Streams /\ m.in = n.in /\ m.sent = n.sent /\ m.got = g1 /\ m.out = o1
    BY <1>1, <2>2 DEF Streams
  <2> HIDE DEF m
  <2>5. KeptBy(ses[c], m, d)
    BY <2>3, <2>4 DEF KeptBy, i, k, h
  <2> QED BY <1>4, <2>1, <2>4, <2>5
<1> QED BY <1>5, <1>6, <1>7

-----------------------------------------------------------------------------
(* Every stream is empty and whole at first.                               *)
LEMMA GwInitInv == GwInit => GwInv
<1> SUFFICES ASSUME GwInit PROVE GwInv
  OBVIOUS
<1>1. <<>> \in Bytes /\ 0 \in Nat /\ {} \in SUBSET Sides /\ {} \in SUBSET Nat
  BY DEF Bytes
<1>2. NoSession \in Sessions /\ NoStream \in Streams /\ NoSession.pc = "none"
  BY <1>1 DEF NoSession, NoStream, Sessions, Streams
<1>3. GwType
  BY <1>1, <1>2 DEF GwInit, GwType
<1>4. ASSUME NEW d \in Sides PROVE KeptBy(NoSession, NoStream, d)
  <2>1. Held(NoSession, d) = <<>>
    BY <1>2 DEF Held
  <2>2. <<>> \o <<>> \o <<>> \o <<>> = <<>>
    <3>1. <<>> \o <<>> = <<>>
      BY <1>1, ConcatEmptySeq DEF Bytes
    <3> QED BY <3>1
  <2>3. AllSent(0) = <<>>
    <3>1. AllSent(0) \in Seq(Nat) /\ Len(AllSent(0)) = 0
      BY DEF AllSent
    <3> QED BY <3>1
  <2>4. /\ NoStream.got = <<>> /\ NoStream.out = <<>> /\ NoStream.in = <<>> /\ NoStream.sent = 0
    BY DEF NoStream
  <2> QED BY <1>2, <2>1, <2>2, <2>3, <2>4 DEF KeptBy, Whole
<1>5. \A c \in Conns, d \in Sides : ses[c] = NoSession /\ net[c][d] = NoStream
  BY DEF GwInit
<1> QED BY <1>3, <1>4, <1>5 DEF GwInv

(* The gateway keeps every stream whole, in its four parts.                *)
THEOREM GwInductive == GwSpec => []GwInv
<1>1. GwInv /\ [GwNext]_gwvars => GwInv'
  <2> SUFFICES ASSUME GwInv, [GwNext]_gwvars PROVE GwInv'
    OBVIOUS
  <2>1. CASE UNCHANGED gwvars
    BY <2>1 DEF gwvars, GwInv, GwType, KeptBy, Held, Dir
  <2>2. CASE GwNext
    BY <2>2, MainStep, ForkStep, AcceptStep, WaitStep, ReadStep, WriteStep, PeerStep
       DEF GwNext, handle_request
  <2> QED BY <2>1, <2>2
<1> QED BY <1>1, GwInitInv, PTL DEF GwSpec

(* pass() and handle_request pump the data through without modification:   *)
(* StreamsKept holds whatever pieces st_read and st_write handle, however  *)
(* the directions and sessions interleave and whenever a session ends.     *)
THEOREM StreamsStayWhole == GwSpec => []StreamsKept
<1>1. GwInv => StreamsKept
  BY DEF GwInv, StreamsKept, KeptBy, Whole, Held, Dir, From, AllSent
<1> QED BY <1>1, GwInductive, PTL

-----------------------------------------------------------------------------
(* The resolver.                                                           *)

Slots == Hosts \X ((1..(Len(Domains) + 1)) \X (1..NsCount))

(* There are fewer queries to make, one for every name server and          *)
(* candidate name of every lookup, than ids: the ids do not wrap around.   *)
IdsSuffice ==
    /\ IsFiniteSet(Hosts)
    /\ Cardinality(Hosts) * ((Len(Domains) + 1) * NsCount) < 65536

Names == {"as is"} \cup ToSet(Domains)
Errors == {"none", "INTERNAL", "INTERRUPTED", "TRY_AGAIN", "HOST_NOT_FOUND", "NO_DATA", "NO_RECOVERY"}
Queries == [id : Nat, name : Names]
Answers == [id : Nat, name : Names, rcode : Rcodes]
Lookups == [pc : {"none", "start", "exit", "send", "wait", "done"}, k : Nat, i : Nat,
            id : Nat, asked : SUBSET Queries, last : SUBSET Answers, open : BOOLEAN,
            addr : Names \cup {"none"}, said : Errors]

ResType ==
    /\ look \in [Hosts -> Lookups]
    /\ replies \in [Hosts -> SUBSET Answers]
    /\ lastid \in Nat

(* Lookup l of h stands at a candidate and a name server that exist.       *)
PosOk(h, l) ==
    /\ l.pc = "start" => l.k = 1 /\ l.i = 0
    /\ l.pc \in {"send", "wait"} => l.k \in 1..Len(Candidates(h)) /\ l.i \in 1..NsCount

(* No query or answer has an id not given out yet, and those with the id   *)
(* the lookup waits for are about the candidate it asks for.               *)
KnownBy(h, l, rs, max) ==
    /\ l.pc = "wait" => l.id <= max
    /\ \A q \in l.asked \cup rs :
         q.id <= max /\ (l.pc = "wait" /\ q.id = l.id => q.name = Candidates(h)[l.k])

(* The error e was told in an answer to the last query of lookup l.        *)
Told(h, l, e) ==
    \E r \in l.last : /\ r.id = l.id /\ r.name = Candidates(h)[l.k]
                      /\ r.rcode \in DOMAIN Error /\ Error[r.rcode] = e

ServerErrors == {"HOST_NOT_FOUND", "NO_DATA", "NO_RECOVERY"}

ReportBy(h, l) ==
    l.pc = "done" =>
      /\ l.addr # "none" =>
           \E r \in l.last : r.id = l.id /\ r.name = Candidates(h)[l.k] /\ r.name = l.addr
      /\ l.said \in ServerErrors => l.k = Len(Candidates(h)) /\ Told(h, l, l.said)

(* The candidate x[1] and name server x[2] are behind lookup l.            *)
PastOf(l) ==
    {x \in Nat \X Nat :
        /\ l.pc \in {"send", "wait", "done"}
        /\ x[1] < l.k \/ (x[1] = l.k /\ (x[2] < l.i \/ (x[2] = l.i /\ l.pc # "send")))}

Used == {y \in Slots : y[2] \in PastOf(look[y[1]])}

LookupOk(h, l, rs, max) == PosOk(h, l) /\ KnownBy(h, l, rs, max) /\ ReportBy(h, l)

ResInv ==
    /\ ResType
    /\ lastid <= Cardinality(Used)
    /\ \A h \in Hosts : LookupOk(h, look[h], replies[h], lastid)

(* There is at least the name as it is among the candidates.               *)
LEMMA CandFacts ==
  ASSUME NEW h \in Hosts
  PROVE  /\ Candidates(h) \in Seq(Names) /\ Len(Candidates(h)) \in 1..(Len(Domains) + 1)
         /\ \A k \in 1..Len(Candidates(h)) : Candidates(h)[k] \in Names
<1> DEFINE asis == <<"as is">>
           first == h.dots >= Ndots
           search == \/ h.dots = 0 /\ "DEFNAMES" \in Options
                     \/ h.dots > 0 /\ ~h.trailing /\ "DNSRCH" \in Options
           domains == IF ~search THEN <<>>
                      ELSE IF "DNSRCH" \in Options \/ Domains = <<>> THEN Domains
                      ELSE SubSeq(Domains, 1, 1)
           a == IF first THEN asis ELSE <<>>
           b == IF first THEN <<>> ELSE asis
           c == a \o domains
<1>1. Candidates(h) = c \o b
  BY DEF Candidates
<1>2. Domains \in Seq(Names) /\ Len(Domains) \in Nat
  <2>1. Domains \in Seq(ToSet(Domains)) /\ ToSet(Domains) \subseteq Names
    BY ResolverAssumption DEF Names
  <2> QED BY <2>1, SeqMonotonic
<1> HIDE DEF search, first
<1>3. domains \in Seq(Names) /\ Len(domains) \in Nat /\ Len(domains) <= Len(Domains)
  <2>1. CASE domains = <<>>
    <3> HIDE DEF domains
    <3>1. <<>> \in Seq(Names) /\ Len(<<>>) = 0
      BY EmptySeq
    <3> QED BY <1>2, <2>1, <3>1
  <2>2. CASE domains = Domains
    <3> HIDE DEF domains
    <3> QED BY <1>2, <2>2
  <2>3. CASE Domains # <<>> /\ domains = SubSeq(Domains, 1, 1)
    <3>1. Len(Domains) >= 1 /\ \A i \in 1..1 : Domains[i] \in Names
      BY <1>2, <2>3
    <3> DEFINE d == SubSeq(Domains, 1, 1)
    <3>2. d \in Seq(Names) /\ Len(d) = 1
      BY <3>1, SubSeqProperties
    <3> HIDE DEF d
    <3>3. domains = d
      BY <2>3 DEF d
    <3> HIDE DEF domains
    <3> QED BY <1>2, <3>1, <3>2, <3>3
  <2> QED BY <2>1, <2>2, <2>3
<1>4. a \in Seq(Names) /\ b \in Seq(Names) /\ Len(a) + Len(b) = 1 /\ Len(a) \in Nat /\ Len(b) \in Nat
  <2>1. asis \in Seq(Names) /\ Len(asis) = 1 /\ <<>> \in Seq(Names) /\ Len(<<>>) = 0
    <3> DEFINE S == Names
               x == "as is"
    <3>3. x \in S
      BY DEF Names
    <3> HIDE DEF S, x
    <3>1. x \in S /\ <<>> \in Seq(S) /\ Len(<<>>) = 0
      BY <3>3, EmptySeq
    <3>2. <<x>> \in Seq(S) /\ Len(<<x>>) = 1
      BY <3>1
    <3> QED BY <3>1, <3>2 DEF S, x
  <2>2. CASE first
    <3>1. a = asis /\ b = <<>>
      BY <2>2
    <3> HIDE DEF a, b, asis
    <3> QED BY <2>1, <3>1
  <2>3. CASE ~first
    <3>1. a = <<>> /\ b = asis
      BY <2>3
    <3> HIDE DEF a, b, asis
    <3> QED BY <2>1, <3>1
  <2> QED BY <2>2, <2>3
<1> HIDE DEF a, b, domains
<1>5. c \in Seq(Names) /\ Len(c) = Len(a) + Len(domains)
  BY <1>3, <1>4, ConcatProperties
<1> HIDE DEF c
<1> DEFINE e == c \o b
<1>6. e \in Seq(Names) /\ Len(e) = Len(c) + Len(b)
  BY <1>4, <1>5, ConcatProperties
<1> HIDE DEF e
<1>7. Len(e) \in 1..(Len(Domains) + 1) /\ \A k \in 1..Len(e) : e[k] \in Names
  BY <1>2, <1>3, <1>4, <1>5, <1>6
<1> QED BY <1>1, <1>6, <1>7 DEF e

(* The slots are fewer than the ids.                                       *)
LEMMA SlotFacts ==
  ASSUME IdsSuffice
  PROVE  IsFiniteSet(Slots) /\ Cardinality(Slots) \in Nat /\ Cardinality(Slots) < 65536
<1> DEFINE C == 1..(Len(Domains) + 1)
           N == 1..NsCount
           D == Len(Domains) + 1
<1>1. D \in Nat /\ D >= 1 /\ NsCount \in Nat /\ NsCount >= 1
  BY ResolverAssumption
<1>2. IsFiniteSet(C) /\ Cardinality(C) = D /\ IsFiniteSet(N) /\ Cardinality(N) = NsCount
  <2> HIDE DEF D
  <2>1. 1 \in Int /\ D \in Int /\ NsCount \in Int /\ ~(1 > D) /\ ~(1 > NsCount)
        /\ D - 1 + 1 = D /\ NsCount - 1 + 1 = NsCount
    BY <1>1
  <2>2. IsFiniteSet(1..D) /\ Cardinality(1..D) = D
    BY <2>1, FS_Interval
  <2>3. IsFiniteSet(1..NsCount) /\ Cardinality(1..NsCount) = NsCount
    BY <2>1, FS_Interval
  <2> QED BY <2>2, <2>3 DEF D
<1>3. IsFiniteSet(C \X N) /\ Cardinality(C \X N) = D * NsCount
  <2> HIDE DEF C, N, D
  <2> QED BY <1>2, FS_Product
<1>4. IsFiniteSet(Hosts \X (C \X N)) /\ Cardinality(Hosts \X (C \X N)) = Cardinality(Hosts) * (D * NsCount)
  <2> DEFINE P == C \X N
  <2>1. IsFiniteSet(P) /\ Cardinality(P) = D * NsCount /\ IsFiniteSet(Hosts)
    BY <1>3 DEF IdsSuffice
  <2> HIDE DEF P, D
  <2>2. IsFiniteSet(Hosts \X P) /\ Cardinality(Hosts \X P) = Cardinality(Hosts) * (D * NsCount)
    BY <2>1, FS_Product
  <2> QED BY <2>2 DEF P
<1>5. Cardinality(Slots) \in Nat
  BY <1>4, FS_CardinalityType DEF Slots
<1> QED BY <1>4, <1>5 DEF Slots, IdsSuffice

(* Used grows with what is behind the lookups, and by a query.             *)
LEMMA UsedFacts ==
  ASSUME IdsSuffice, NEW U, U \in SUBSET Slots
  PROVE  /\ IsFiniteSet(U) /\ Cardinality(U) \in Nat /\ Cardinality(U) < 65536
         /\ \A V \in SUBSET U : Cardinality(V) \in Nat /\ Cardinality(V) <= Cardinality(U)
         /\ \A V \in SUBSET U, y \in U : y \notin V => Cardinality(V) + 1 <= Cardinality(U)
<1>1. IsFiniteSet(Slots) /\ Cardinality(Slots) \in Nat /\ Cardinality(Slots) < 65536
  BY SlotFacts
<1>2. IsFiniteSet(U) /\ Cardinality(U) \in Nat /\ Cardinality(U) < 65536
  <2>1. IsFiniteSet(U) /\ Cardinality(U) <= Cardinality(Slots)
    BY <1>1, FS_Subset
  <2>2. Cardinality(U) \in Nat
    BY <2>1, FS_CardinalityType
  <2> QED BY <1>1, <2>1, <2>2
<1>3. ASSUME NEW V \in SUBSET U
      PROVE  IsFiniteSet(V) /\ Cardinality(V) \in Nat /\ Cardinality(V) <= Cardinality(U)
  <2>1. IsFiniteSet(V) /\ Cardinality(V) <= Cardinality(U)
    BY <1>2, FS_Subset
  <2> QED BY <2>1, FS_CardinalityType
<1>4. ASSUME NEW V \in SUBSET U, NEW y \in U, y \notin V
      PROVE  Cardinality(V) + 1 <= Cardinality(U)
  <2>1. Cardinality(V \cup {y}) = Cardinality(V) + 1
    BY <1>3, <1>4, FS_AddElement
  <2>2. V \cup {y} \in SUBSET U
    OBVIOUS
  <2> QED BY <1>3, <2>1, <2>2
<1> QED BY <1>2, <1>3, <1>4

(* One lookup goes on as n; nothing is asked.                              *)
LEMMA LookStep ==
  ASSUME IdsSuffice, ResInv, NEW h \in Hosts, NEW n \in Lookups,
         look' = [look EXCEPT ![h] = n], lastid' = lastid,
         replies' \in [Hosts -> SUBSET Answers], \A x \in Hosts : replies'[x] \subseteq replies[x],
         n.asked \subseteq look[h].asked, PosOk(h, n), ReportBy(h, n),
         n.pc = "wait" => look[h].pc = "wait" /\ n.id = look[h].id /\ n.k = look[h].k,
         PastOf(look[h]) \subseteq PastOf(n)
  PROVE  ResInv'
<1>1. /\ look' \in [Hosts -> Lookups] /\ look \in [Hosts -> Lookups] /\ lastid \in Nat
      /\ \A x \in Hosts : look'[x] = IF x = h THEN n ELSE look[x]
  BY DEF ResInv, ResType
<1>2. ResType'
  BY <1>1 DEF ResType
<1>3. lastid' <= Cardinality(Used)'
  <2> DEFINE U == {y \in Slots : y[2] \in PastOf(look'[y[1]])}
  <2>1. Used' = U
    BY DEF Used, PastOf, Slots
  <2>2. Used \in SUBSET U
    <3>1. \A y \in Slots : y[1] \in Hosts
      BY DEF Slots
    <3>2. \A y \in Slots : PastOf(look[y[1]]) \subseteq PastOf(look'[y[1]])
      BY <1>1, <3>1
    <3> QED BY <3>2 DEF Used
  <2>3. U \in SUBSET Slots
    OBVIOUS
  <2> HIDE DEF U
  <2>4. /\ Cardinality(U) \in Nat /\ Cardinality(Used) \in Nat /\ Cardinality(Used) <= Cardinality(U)
    BY <2>2, <2>3, UsedFacts
  <2>5. lastid <= Cardinality(Used)
    BY DEF ResInv
  <2> QED BY <1>1, <2>1, <2>4, <2>5
<1>4. ASSUME NEW x \in Hosts PROVE LookupOk(x, look'[x], replies'[x], lastid')
  <2>1. LookupOk(x, look[x], replies[x], lastid)
    BY DEF ResInv
  <2>2. CASE x # h
    <3>1. look'[x] = look[x]
      BY <1>1, <2>2
    <3> QED BY <2>1, <3>1 DEF LookupOk, KnownBy
  <2>3. CASE x = h
    <3>1. look'[x] = n
      BY <1>1, <2>3
    <3>2. KnownBy(h, n, replies'[h], lastid)
      BY <2>1, <2>3 DEF LookupOk, KnownBy
    <3> QED BY <2>3, <3>1, <3>2 DEF LookupOk
  <2> QED BY <2>2, <2>3
<1> QED BY <1>2, <1>3, <1>4 DEF ResInv, LookupOk, PosOk, KnownBy, ReportBy, Told

(* A query of lookup l, of host h, has failed with error e: the next name  *)
(* server, the next candidate or the end.                                  *)
LEMMA AdvanceFacts ==
  ASSUME NEW h \in Hosts, NEW l \in Lookups, l.pc \in {"send", "wait"}, PosOk(h, l),
         NEW e \in Errors, e \in ServerErrors => Told(h, l, e), NEW n,
         \/ n = do_resolve(l, "none", e)  /\ e \notin ServerErrors
         \/ n = IF l.i < NsCount THEN [l EXCEPT !.pc = "send", !.i = l.i + 1]
                ELSE IF l.k < Len(Candidates(h)) THEN [l EXCEPT !.pc = "send", !.i = 1, !.k = l.k + 1]
                ELSE do_resolve(l, "none", e)
  PROVE  /\ n \in Lookups /\ n.pc # "wait" /\ n.asked \subseteq l.asked
         /\ PosOk(h, n) /\ ReportBy(h, n) /\ PastOf(l) \subseteq PastOf(n)
<1> DEFINE C == Len(Candidates(h))
<1>1. /\ l.i \in 1..NsCount /\ l.k \in 1..C /\ C \in Nat /\ NsCount \in Nat /\ NsCount >= 1
      /\ l.i \in Nat /\ l.k \in Nat
  BY CandFacts, ResolverAssumption DEF PosOk
<1> HIDE DEF C
<1>2. CASE n = [l EXCEPT !.pc = "send", !.i = l.i + 1] /\ l.i < NsCount
  <2> DEFINE a == l.i + 1
  <2>1. a \in Nat /\ a \in 1..NsCount /\ n = [l EXCEPT !.pc = "send", !.i = a]
    BY <1>1, <1>2
  <2> HIDE DEF a
  <2>2. n \in Lookups /\ n.pc = "send" /\ n.i = a /\ n.k = l.k /\ n.asked = l.asked
    BY <2>1 DEF Lookups
  <2>3. PastOf(l) \subseteq PastOf(n)
    BY <1>1, <2>2 DEF PastOf, a
  <2> QED BY <1>1, <2>1, <2>2, <2>3 DEF PosOk, ReportBy, C
<1>3. CASE n = [l EXCEPT !.pc = "send", !.i = 1, !.k = l.k + 1] /\ l.k < C /\ ~(l.i < NsCount)
  <2> DEFINE a == l.k + 1
  <2>1. a \in Nat /\ a \in 1..C /\ n = [l EXCEPT !.pc = "send", !.i = 1, !.k = a]
    BY <1>1, <1>3
  <2> HIDE DEF a
  <2>2. n \in Lookups /\ n.pc = "send" /\ n.i = 1 /\ n.k = a /\ n.asked = l.asked
    BY <2>1 DEF Lookups
  <2>3. PastOf(l) \subseteq PastOf(n)
    BY <1>1, <2>2 DEF PastOf, a
  <2>4. 1 \in 1..NsCount
    BY <1>1
  <2> QED BY <2>1, <2>2, <2>3, <2>4 DEF PosOk, ReportBy, C
<1>4. CASE n = do_resolve(l, "none", e) /\ (e \in ServerErrors => ~(l.k < C))
  <2>1. n = [l EXCEPT !.pc = "done", !.open = FALSE, !.asked = {}, !.addr = "none", !.said = e]
    BY <1>4 DEF do_resolve
  <2>2. {} \in SUBSET Queries /\ "none" \in Names \cup {"none"}
    OBVIOUS
  <2>3. /\ n \in Lookups /\ n.pc = "done" /\ n.i = l.i /\ n.k = l.k /\ n.asked = {}
        /\ n.addr = "none" /\ n.said = e /\ n.last = l.last /\ n.id = l.id
    BY <2>1, <2>2 DEF Lookups
  <2>4. PastOf(l) \subseteq PastOf(n)
    BY <1>1, <2>3 DEF PastOf
  <2>5. e \in ServerErrors => l.k = C /\ Told(h, n, e)
    BY <1>1, <1>4, <2>3 DEF Told
  <2> QED BY <2>3, <2>4, <2>5 DEF PosOk, ReportBy, C
<1> QED BY <1>2, <1>3, <1>4 DEF C

(* Fails: a query of a lookup has failed.                                  *)
LEMMA FailsStep ==
  ASSUME IdsSuffice, ResInv, NEW h \in Hosts, NEW l \in Lookups, NEW e \in Errors,
         Fails(h, l, e), lastid' = lastid,
         replies' \in [Hosts -> SUBSET Answers], \A x \in Hosts : replies'[x] \subseteq replies[x],
         l.pc = look[h].pc, l.k = look[h].k, l.i = look[h].i, l.id = look[h].id,
         l.asked = look[h].asked, look[h].pc \in {"send", "wait"},
         e \in ServerErrors => Told(h, l, e)
  PROVE  ResInv'
<1> DEFINE n == IF e = "INTERRUPTED" THEN do_resolve(l, "none", e)
                ELSE IF l.i < NsCount THEN [l EXCEPT !.pc = "send", !.i = l.i + 1]
                ELSE IF l.k < Len(Candidates(h)) THEN [l EXCEPT !.pc = "send", !.i = 1, !.k = l.k + 1]
                ELSE do_resolve(l, "none", e)
<1>1. look' = [look EXCEPT ![h] = n]
  BY DEF Fails, Set, Advance
<1>2. "INTERRUPTED" \notin ServerErrors
  BY DEF ServerErrors
<1>3. PosOk(h, l)
  BY DEF ResInv, LookupOk, PosOk
<1>4. /\ n \in Lookups /\ n.pc # "wait" /\ n.asked \subseteq l.asked
      /\ PosOk(h, n) /\ ReportBy(h, n) /\ PastOf(l) \subseteq PastOf(n)
  <2> DEFINE m == n
  <2>1. \/ m = do_resolve(l, "none", e)  /\ e \notin ServerErrors
        \/ m = IF l.i < NsCount THEN [l EXCEPT !.pc = "send", !.i = l.i + 1]
               ELSE IF l.k < Len(Candidates(h)) THEN [l EXCEPT !.pc = "send", !.i = 1, !.k = l.k + 1]
               ELSE do_resolve(l, "none", e)
    BY <1>2
  <2> HIDE DEF m
  <2>2. /\ m \in Lookups /\ m.pc # "wait" /\ m.asked \subseteq l.asked
        /\ PosOk(h, m) /\ ReportBy(h, m) /\ PastOf(l) \subseteq PastOf(m)
    BY <1>3, <2>1, AdvanceFacts
  <2> QED BY <2>2 DEF m
<1>5. PastOf(look[h]) = PastOf(l)
  BY DEF PastOf
<1> HIDE DEF n
<1> QED BY <1>1, <1>4, <1>5, LookStep

-----------------------------------------------------------------------------
(* main creates the threads, or exits.                                     *)
LEMMA CreateStep == ASSUME IdsSuffice, ResInv, CreateThreads PROVE ResInv'
<1>1. PICK pc \in {"start", "exit"} : look' = [h \in Hosts |-> [NoLookup EXCEPT !.pc = pc]]
  BY DEF CreateThreads
<1>2. UNCHANGED <<replies, lastid>> /\ \A h \in Hosts : look[h].pc = "none"
  BY DEF CreateThreads
<1> DEFINE n == [NoLookup EXCEPT !.pc = pc]
<1>3. n \in Lookups /\ n.pc = pc /\ n.k = 1 /\ n.i = 0 /\ n.asked = {}
  <2>1. {} \in SUBSET Queries /\ {} \in SUBSET Answers /\ "none" \in Errors
    BY DEF Errors
  <2> QED BY <2>1 DEF NoLookup, Lookups
<1> HIDE DEF n
<1>4. look' \in [Hosts -> Lookups] /\ \A h \in Hosts : look'[h] = n
  BY <1>1, <1>3 DEF n
<1>5. ResType'
  BY <1>2, <1>4 DEF ResInv, ResType
<1>6. lastid' <= Cardinality(Used)'
  <2>1. Used = {}
    BY <1>2 DEF Used, Slots, PastOf
  <2>2. Used' = {}
    BY <1>3, <1>4 DEF Used, Slots, PastOf
  <2> QED BY <1>2, <2>1, <2>2 DEF ResInv
<1>7. ASSUME NEW h \in Hosts PROVE LookupOk(h, look'[h], replies'[h], lastid')
  <2>1. KnownBy(h, look[h], replies[h], lastid)
    BY DEF ResInv, LookupOk
  <2> QED BY <1>2, <1>3, <1>4, <2>1 DEF LookupOk, PosOk, KnownBy, ReportBy
<1> QED BY <1>5, <1>6, <1>7 DEF ResInv, LookupOk, PosOk, KnownBy, ReportBy, Told

(* dns_getaddr begins.                                                     *)
LEMMA BeginStep == ASSUME IdsSuffice, ResInv, NEW h \in Hosts, Begin(h) PROVE ResInv'
<1>1. /\ UNCHANGED <<replies, lastid>> /\ look[h].pc = "start" /\ look[h] \in Lookups
      /\ replies \in [Hosts -> SUBSET Answers]
  BY DEF Begin, ResInv, ResType
<1>2. look[h].k = 1 /\ look[h].i = 0
  BY <1>1 DEF ResInv, LookupOk, PosOk
<1>3. PastOf(look[h]) = {}
  BY <1>1 DEF PastOf
<1>4. CASE look' = [look EXCEPT ![h] = [look[h] EXCEPT !.pc = "send", !.i = 1, !.open = TRUE]]
  <2> DEFINE n == [look[h] EXCEPT !.pc = "send", !.i = 1, !.open = TRUE]
  <2>1. n \in Lookups /\ n.pc = "send" /\ n.k = 1 /\ n.i = 1 /\ n.asked = look[h].asked
    BY <1>1, <1>2 DEF Lookups
  <2> HIDE DEF n
  <2>2. PosOk(h, n) /\ ReportBy(h, n)
    <3>1. 1 \in 1..Len(Candidates(h)) /\ 1 \in 1..NsCount
      BY CandFacts, ResolverAssumption
    <3> QED BY <2>1, <3>1 DEF PosOk, ReportBy
  <2>3. look' = [look EXCEPT ![h] = n]
    BY <1>4 DEF n
  <2> QED BY <1>1, <1>3, <2>1, <2>2, <2>3, LookStep
<1>5. CASE look' = [look EXCEPT ![h] = do_resolve(look[h], "none", "INTERNAL")]
  <2> DEFINE n == do_resolve(look[h], "none", "INTERNAL")
  <2>1. n \in Lookups /\ n.pc = "done" /\ n.asked = {} /\ n.addr = "none" /\ n.said = "INTERNAL"
    <3>1. {} \in SUBSET Queries /\ "INTERNAL" \in Errors
      BY DEF Errors
    <3> QED BY <1>1, <3>1 DEF Lookups, do_resolve
  <2> HIDE DEF n
  <2>2. PosOk(h, n) /\ ReportBy(h, n)
    BY <2>1 DEF PosOk, ReportBy, ServerErrors
  <2>3. look' = [look EXCEPT ![h] = n]
    BY <1>5 DEF n
  <2> QED BY <1>1, <1>3, <2>1, <2>2, <2>3, LookStep
<1> QED BY <1>4, <1>5 DEF Begin, Set

(* res_mkquery and the sending of the query: its id is new.                *)
LEMMA QueryStep == ASSUME IdsSuffice, ResInv, NEW h \in Hosts, Query(h) PROVE ResInv'
<1> DEFINE l == look[h]
           nm == Candidates(h)[l.k]
<1>1. /\ replies' = replies /\ l.pc = "send" /\ l \in Lookups /\ lastid \in Nat
      /\ replies \in [Hosts -> SUBSET Answers] /\ look \in [Hosts -> Lookups]
      /\ l.k \in 1..Len(Candidates(h)) /\ l.i \in 1..NsCount
  BY DEF Query, ResInv, ResType, LookupOk, PosOk
<1>2. CASE lastid' = lastid /\ \E e \in {"INTERNAL", "INTERRUPTED"} : Fails(h, look[h], e)
  <2>1. PICK e \in {"INTERNAL", "INTERRUPTED"} : Fails(h, look[h], e)
    BY <1>2
  <2>2. e \in Errors /\ e \notin ServerErrors
    BY DEF Errors, ServerErrors
  <2> QED BY <1>1, <1>2, <2>1, <2>2, FailsStep
<1>3. CASE /\ lastid' = (lastid + 1) % 65536
           /\ look' = [look EXCEPT ![h] = [l EXCEPT !.pc = "wait", !.id = lastid',
                         !.asked = @ \cup {[id |-> lastid', name |-> nm]}]]
  <2> DEFINE q == [id |-> lastid', name |-> nm]
             as == l.asked \cup {q}
             n == [l EXCEPT !.pc = "wait", !.id = lastid', !.asked = as]
             U == {y \in Slots : y[2] \in PastOf(look'[y[1]])}
             z == <<h, <<l.k, l.i>>>>
  <2>1. lastid' \in Nat /\ look' = [look EXCEPT ![h] = n]
    <3>1. lastid' \in Nat
      BY <1>1, <1>3
    <3> QED BY <1>3, <3>1
  <2>2. q \in Queries /\ q.id = lastid' /\ q.name = nm /\ as \in SUBSET Queries
    <3>1. nm \in Names /\ l.asked \in SUBSET Queries
      BY <1>1, CandFacts DEF Lookups
    <3>2. q \in Queries /\ q.id = lastid' /\ q.name = nm
      BY <2>1, <3>1 DEF Queries
    <3> HIDE DEF q
    <3> QED BY <3>1, <3>2
  <2> HIDE DEF as
  <2>3. /\ n \in Lookups /\ n.pc = "wait" /\ n.id = lastid' /\ n.asked = as /\ n.k = l.k /\ n.i = l.i
        /\ n.last = l.last
    BY <1>1, <2>1, <2>2 DEF Lookups
  <2> HIDE DEF n, q
  <2>4. look' \in [Hosts -> Lookups] /\ \A x \in Hosts : look'[x] = IF x = h THEN n ELSE look[x]
    BY <1>1, <2>1, <2>3
  <2>5. Used \in SUBSET U
    <3>1. PastOf(l) \subseteq PastOf(n)
      BY <1>1, <2>3 DEF PastOf
    <3>2. \A y \in Slots : y[1] \in Hosts
      BY DEF Slots
    <3>3. \A y \in Slots : PastOf(look[y[1]]) \subseteq PastOf(look'[y[1]])
      BY <2>4, <3>1, <3>2
    <3> QED BY <3>3 DEF Used
  <2>6. z \in U /\ z \notin Used
    <3>1. l.k \in Nat /\ l.i \in Nat /\ l.k \in 1..(Len(Domains) + 1) /\ Len(Domains) \in Nat
      BY <1>1, CandFacts, ResolverAssumption
    <3>2. z \in Slots /\ z[1] = h /\ z[2] = <<l.k, l.i>>
      BY <1>1, <3>1 DEF Slots
    <3>3. <<l.k, l.i>> \in PastOf(n)
      BY <2>3, <3>1 DEF PastOf
    <3>4. <<l.k, l.i>> \notin PastOf(l)
      BY <1>1, <3>1 DEF PastOf
    <3> QED BY <2>4, <3>2, <3>3, <3>4 DEF Used
  <2>7. U \in SUBSET Slots /\ Used' = U
    BY DEF Used, PastOf, Slots
  <2> HIDE DEF U, z
  <2>8. /\ Cardinality(U) \in Nat /\ Cardinality(U) < 65536 /\ Cardinality(Used) \in Nat
        /\ Cardinality(Used) + 1 <= Cardinality(U)
    BY <2>5, <2>6, <2>7, UsedFacts
  <2>9. lastid' = lastid + 1 /\ lastid' <= Cardinality(U)
    <3>1. lastid <= Cardinality(Used)
      BY DEF ResInv
    <3>2. lastid + 1 <= Cardinality(U) /\ lastid + 1 < 65536
      BY <1>1, <2>8, <3>1
    <3>3. (lastid + 1) % 65536 = lastid + 1
      BY <1>1, <3>2
    <3> QED BY <1>3, <3>2, <3>3
  <2>10. ASSUME NEW x \in Hosts PROVE LookupOk(x, look'[x], replies'[x], lastid')
    <3>1. LookupOk(x, look[x], replies[x], lastid)
      BY DEF ResInv
    <3>2. /\ \A r \in replies[x] : r.id \in Nat
          /\ \A r \in look[x].asked : r.id \in Nat
          /\ look[x].id \in Nat
      BY <1>1 DEF Lookups, Queries, Answers
    <3>3. CASE x # h
      <4>1. look'[x] = look[x]
        BY <2>4, <3>3
      <4>2. KnownBy(x, look[x], replies[x], lastid')
        BY <1>1, <2>9, <3>1, <3>2 DEF LookupOk, KnownBy
      <4> QED BY <1>1, <3>1, <4>1, <4>2 DEF LookupOk
    <3>4. CASE x = h
      <4>1. PosOk(h, n) /\ ReportBy(h, n)
        BY <1>1, <2>3 DEF PosOk, ReportBy
      <4>2. \A r \in l.asked \cup replies[h] : r.id <= lastid /\ r.id \in Nat
        BY <3>1, <3>2, <3>4 DEF LookupOk, KnownBy
      <4>3. \A r \in l.asked \cup replies[h] : r.id <= lastid' /\ r.id # lastid'
        BY <1>1, <2>9, <4>2
      <4>4. lastid' <= lastid'
        BY <2>1
      <4>5. KnownBy(h, n, replies[h], lastid')
        BY <2>2, <2>3, <4>3, <4>4 DEF KnownBy, as
      <4> QED BY <1>1, <2>4, <3>4, <4>1, <4>5 DEF LookupOk
    <3> QED BY <3>3, <3>4
  <2>11. ResType'
    BY <1>1, <2>1, <2>4 DEF ResType
  <2> QED BY <2>7, <2>9, <2>10, <2>11 DEF ResInv, LookupOk, PosOk, KnownBy, ReportBy, Told
<1> QED BY <1>2, <1>3 DEF Query, Set

(* A wait ends at its time limit, or by an interrupt.                      *)
LEMMA TimeoutStep ==
  ASSUME IdsSuffice, ResInv, NEW h \in Hosts, Timeout(h) \/ st_thread_interrupt(h)
  PROVE  ResInv'
<1>1. /\ UNCHANGED <<replies, lastid>> /\ look[h].pc = "wait" /\ look[h] \in Lookups
      /\ replies \in [Hosts -> SUBSET Answers]
      /\ \E e \in {"INTERNAL", "INTERRUPTED"} : Fails(h, look[h], e)
  BY DEF Timeout, st_thread_interrupt, ResInv, ResType
<1>2. PICK e \in {"INTERNAL", "INTERRUPTED"} : Fails(h, look[h], e)
  BY <1>1
<1>3. e \in Errors /\ e \notin ServerErrors
  BY DEF Errors, ServerErrors
<1> QED BY <1>1, <1>2, <1>3, FailsStep

(* An answer arrives: only one to the last query ends the wait.            *)
LEMMA ReceiveStep ==
  ASSUME IdsSuffice, ResInv, NEW h \in Hosts, NEW r \in replies[h], Receive(h, r)
  PROVE  ResInv'
<1> DEFINE lt == {r}
           l == [look[h] EXCEPT !.last = lt]
<1>1. /\ look[h].pc = "wait" /\ look[h] \in Lookups /\ lastid' = lastid
      /\ replies \in [Hosts -> SUBSET Answers] /\ r \in Answers
      /\ replies' = [replies EXCEPT ![h] = @ \ {r}]
      /\ IF ~Matches(h, r) THEN Set(h, l) /\ UNCHANGED h_errno
         ELSE IF r.rcode \in DOMAIN Error THEN Fails(h, l, Error[r.rcode])
         ELSE parse_answer(h, l, r)
  BY DEF Receive, ResInv, ResType
<1>2. replies' \in [Hosts -> SUBSET Answers] /\ \A x \in Hosts : replies'[x] \subseteq replies[x]
  BY <1>1
<1>3. lt \in SUBSET Answers /\ r \in lt
  BY <1>1
<1> HIDE DEF lt
<1>4. /\ l \in Lookups /\ l.pc = "wait" /\ l.k = look[h].k /\ l.i = look[h].i /\ l.id = look[h].id
      /\ l.asked = look[h].asked /\ l.last = lt
  BY <1>1, <1>3 DEF Lookups
<1> HIDE DEF l
<1>5. PastOf(look[h]) = PastOf(l)
  BY <1>1, <1>4 DEF PastOf
<1>6. PosOk(h, look[h]) /\ KnownBy(h, look[h], replies[h], lastid)
  BY DEF ResInv, LookupOk
<1>7. CASE ~Matches(h, r)
  <2>1. look' = [look EXCEPT ![h] = l]
    BY <1>1, <1>7 DEF Set
  <2>2. PosOk(h, l) /\ ReportBy(h, l)
    BY <1>1, <1>4, <1>6 DEF PosOk, ReportBy
  <2> QED BY <1>1, <1>2, <1>4, <1>5, <2>1, <2>2, LookStep
<1>8. CASE Matches(h, r)
  <2>1. r.id = l.id /\ r.name = Candidates(h)[l.k]
    BY <1>1, <1>4, <1>6, <1>8 DEF Matches, KnownBy
  <2>2. CASE r.rcode \in DOMAIN Error
    <3>1. Fails(h, l, Error[r.rcode])
      BY <1>1, <1>8, <2>2
    <3> DEFINE e == Error[r.rcode]
    <3>2. e \in Errors
      BY <2>2 DEF Error, Errors
    <3>3. Told(h, l, e)
      BY <1>3, <1>4, <2>1, <2>2 DEF Told
    <3>4. Fails(h, l, e)
      BY <3>1
    <3> HIDE DEF e
    <3> QED BY <1>1, <1>2, <1>4, <3>2, <3>3, <3>4, FailsStep
  <2>3. CASE r.rcode \notin DOMAIN Error
    <3>1. parse_answer(h, l, r)
      BY <1>1, <1>8, <2>3
    <3>2. CASE r.rcode = "alias"
      <4>1. Fails(h, l, "TRY_AGAIN")
        BY <3>1, <3>2 DEF parse_answer
      <4>2. "TRY_AGAIN" \in Errors /\ "TRY_AGAIN" \notin ServerErrors
        BY DEF Errors, ServerErrors
      <4> QED BY <1>1, <1>2, <1>4, <4>1, <4>2, FailsStep
    <3>3. CASE r.rcode # "alias"
      <4> DEFINE n == do_resolve(l, r.name, "none")
      <4>1. look' = [look EXCEPT ![h] = n]
        BY <3>1, <3>3 DEF parse_answer, Set
      <4>2. /\ n \in Lookups /\ n.pc = "done" /\ n.asked = {} /\ n.addr = r.name /\ n.said = "none"
            /\ n.last = l.last /\ n.id = l.id /\ n.k = l.k /\ n.i = l.i
        <5>1. {} \in SUBSET Queries /\ "none" \in Errors /\ r.name \in Names \cup {"none"}
          BY <1>1 DEF Errors, Answers
        <5> QED BY <1>4, <5>1 DEF Lookups, do_resolve
      <4> HIDE DEF n
      <4>3. PosOk(h, n) /\ ReportBy(h, n)
        BY <1>3, <1>4, <2>1, <4>2 DEF PosOk, ReportBy, ServerErrors
      <4>4. PastOf(l) \subseteq PastOf(n)
        BY <1>4, <4>2 DEF PastOf
      <4> QED BY <1>1, <1>2, <1>5, <4>1, <4>2, <4>3, <4>4, LookStep
    <3> QED BY <3>2, <3>3
  <2> QED BY <2>2, <2>3
<1> QED BY <1>7, <1>8

(* A name server answers.                                                  *)
LEMMA ReplyStep ==
  ASSUME ResInv, NEW h \in Hosts, NEW q \in look[h].asked, NEW rcode \in Rcodes, Reply(h, q, rcode)
  PROVE  ResInv'
<1> DEFINE r == [id |-> q.id, name |-> q.name, rcode |-> rcode]
           rs == replies[h] \cup {r}
<1>1. /\ UNCHANGED <<look, lastid>> /\ replies' = [replies EXCEPT ![h] = rs] /\ ResType
  BY DEF Reply, ResInv
<1>2. r \in Answers /\ r.id = q.id /\ r.name = q.name
  <2>1. q \in Queries
    BY <1>1 DEF ResType, Lookups
  <2> QED BY <2>1 DEF Queries, Answers
<1>3. rs \in SUBSET Answers
  BY <1>1, <1>2 DEF ResType
<1> HIDE DEF r
<1>4. ResType' /\ \A x \in Hosts : replies'[x] = IF x = h THEN rs ELSE replies[x]
  <2> HIDE DEF rs
  <2> QED BY <1>1, <1>3 DEF ResType
<1>5. Used' = Used
  BY <1>1 DEF Used, Slots, PastOf
<1>6. ASSUME NEW x \in Hosts PROVE LookupOk(x, look'[x], replies'[x], lastid')
  <2>1. LookupOk(x, look[x], replies[x], lastid)
    BY DEF ResInv
  <2>2. CASE x # h
    BY <1>1, <1>4, <2>1, <2>2
  <2>3. CASE x = h
    <3>1. KnownBy(h, look[h], rs, lastid)
      BY <1>2, <2>1, <2>3 DEF LookupOk, KnownBy
    <3> QED BY <1>1, <1>4, <2>1, <2>3, <3>1 DEF LookupOk
  <2> QED BY <2>2, <2>3
<1> QED BY <1>1, <1>4, <1>5, <1>6 DEF ResInv, LookupOk, PosOk, KnownBy, ReportBy, Told

(* Nothing is asked at first.                                              *)
LEMMA ResInitInv == IdsSuffice /\ ResInit => ResInv
<1> SUFFICES ASSUME IdsSuffice, ResInit PROVE ResInv
  OBVIOUS
<1>1. NoLookup \in Lookups /\ NoLookup.pc = "none" /\ NoLookup.asked = {}
  <2>1. {} \in SUBSET Queries /\ {} \in SUBSET Answers /\ "none" \in Errors
    BY DEF Errors
  <2> QED BY <2>1 DEF NoLookup, Lookups
<1>2. ResType /\ \A h \in Hosts : look[h] = NoLookup /\ replies[h] = {}
  BY <1>1 DEF ResInit, ResType
<1>3. lastid <= Cardinality(Used)
  <2>1. Used \in SUBSET Slots /\ lastid = 0
    BY DEF Used, ResInit
  <2>2. Cardinality(Used) \in Nat
    BY <2>1, UsedFacts
  <2> QED BY <2>1, <2>2
<1> QED BY <1>1, <1>2, <1>3 DEF ResInv, LookupOk, PosOk, KnownBy, ReportBy

(* Ids are given out once and tell the answers of a lookup's queries       *)
(* apart, as long as there are fewer queries than ids.                     *)
THEOREM ResInductive == ASSUME IdsSuffice PROVE ResSpec => []ResInv
<1>1. ResInv /\ [ResNext]_resvars => ResInv'
  <2> SUFFICES ASSUME ResInv, [ResNext]_resvars PROVE ResInv'
    OBVIOUS
  <2>1. CASE UNCHANGED resvars
    BY <2>1 DEF resvars, ResInv, ResType, Used, Slots, PastOf, LookupOk, PosOk, KnownBy, ReportBy, Told
  <2>2. CASE ResNext
    BY <2>2, CreateStep, BeginStep, QueryStep, TimeoutStep, ReceiveStep, ReplyStep
       DEF ResNext, dns_getaddr
  <2> QED BY <2>1, <2>2
<1>2. ResInit => ResInv
  BY ResInitInv
<1> QED BY <1>1, <1>2, PTL DEF ResSpec

(* A lookup reports the truth (ReportTrue), whatever datagrams are lost,   *)
(* late or doubled and however the lookups interleave, as long as there    *)
(* are fewer queries to make than 16-bit ids.                              *)
THEOREM ReportsStayTrue == ASSUME IdsSuffice PROVE ResSpec => []ReportTrue
<1>1. ResInv => ReportTrue
  <2> SUFFICES ASSUME ResInv, NEW h \in Hosts, look[h].pc = "done"
               PROVE  /\ look[h].addr # "none" =>
                           \E r \in look[h].last : /\ r.id = look[h].id
                                                   /\ r.name = Candidates(h)[look[h].k]
                                                   /\ r.name = look[h].addr
                      /\ look[h].said \in ServerErrors =>
                           \E r \in {x \in look[h].last : x.id = look[h].id /\ x.name = Last(Candidates(h))} :
                             r.rcode \in DOMAIN Error /\ Error[r.rcode] = look[h].said
    BY DEF ReportTrue, ServerErrors
  <2>1. ReportBy(h, look[h])
    BY DEF ResInv, LookupOk
  <2>2. Last(Candidates(h)) = Candidates(h)[Len(Candidates(h))]
    BY DEF Last
  <2> QED BY <2>1, <2>2 DEF ReportBy, Told
<1> QED BY <1>1, ResInductive, PTL

-----------------------------------------------------------------------------
(* The database client.  The invariant follows every request from its      *)
(* enqueue() to the return of the call, and counts wake-ups: the event and *)
(* a wake-up that has not yet taken its operation each stand for one       *)
(* request in the queue whose coroutine has called notify().               *)

AllOps   == Ops \cup {Connect, Close}
Messages == [op : AllOps, thread : Clients]
Busy     == {"call", "wait"}

TypeInv ==
    /\ dbfd \in {"none", "opening", "live", "closing", "freed"}
    /\ srv \in {"none", "wait", "woken", "take", "serve", "post", "last", "dtor", "done"}
    /\ oper \in Messages \cup {None}
    /\ queue \in Seq(Messages)
    /\ event \in BOOLEAN
    /\ running \in Clients \cup {None}
    /\ st \in [Clients -> {"idle", "call", "wait", "posted"}]
    /\ asked \in [Clients -> AllOps \cup {None}]

(* A coroutine that waits for an answer has one request, which is queued   *)
(* or with the database thread; nobody else has one.                       *)
RequestInv ==
    /\ \A i \in 1..Len(queue) :
          /\ st[queue[i].thread] \in Busy
          /\ queue[i].op = asked[queue[i].thread]
    /\ \A i, j \in 1..Len(queue) : queue[i].thread = queue[j].thread => i = j
    /\ oper # None <=> srv \in {"serve", "post", "last"}
    /\ oper # None => /\ st[oper.thread] \in Busy
                      /\ oper.op = asked[oper.thread]
                      /\ \A i \in 1..Len(queue) : queue[i].thread # oper.thread
    /\ \A c \in Clients : st[c] \in Busy =>
          \/ oper # None /\ oper.thread = c
          \/ \E i \in 1..Len(queue) : queue[i].thread = c

(* A coroutine that has not called notify() yet is the running one, and    *)
(* its request the last of the queue.                                      *)
RunningInv ==
    /\ \A c \in Clients : st[c] = "call" <=> running = c
    /\ running # None => Len(queue) > 0 /\ queue[Len(queue)].thread = running

(* The requests in the queue whose coroutine has called notify().          *)
Notified == IF running = None THEN Len(queue) ELSE Len(queue) - 1

EventInv ==
    /\ srv = "woken" => event
    /\ Notified >= (IF event THEN 1 ELSE 0) + (IF srv = "take" THEN 1 ELSE 0)

(* Nobody else uses the connection while it is opened or closed, and a     *)
(* round that sets exit serves the one who does.                           *)
StageInv ==
    /\ dbfd \in {"none", "freed"} => \A c \in Clients : st[c] = "idle"
    /\ dbfd = "none" => srv = "none"
    /\ dbfd \in {"opening", "closing"} =>
          \A c, d \in Clients : st[c] # "idle" /\ st[d] # "idle" => c = d
    /\ \A c \in Clients : st[c] # "idle" =>
          /\ asked[c] = Connect <=> dbfd = "opening"
          /\ asked[c] = Close <=> dbfd = "closing"
    /\ srv = "last" => dbfd \in {"opening", "closing"}
    /\ srv = "post" => dbfd # "closing"
    /\ dbfd = "opening" /\ err # "ok" => srv \in {"last", "dtor", "done"}
    /\ dbfd = "closing" => \A c \in Clients : st[c] = "posted" => srv \in {"dtor", "done"}
    /\ dbfd = "freed" => srv \in {"dtor", "done"}

DbInv == TypeInv /\ RequestInv /\ RunningInv /\ EventInv /\ StageInv

-----------------------------------------------------------------------------
(* Every operation has the event that its handler in db_server tests.      *)
LEMMA OpFacts ==
    ASSUME NEW op \in AllOps
    PROVE  /\ op = Connect <=> op.event = "open"
           /\ op = Close <=> op.event = "close"
           /\ op = Fetch <=> op.event = "fetch"
           /\ op.event \in {"open", "query", "fetch", "insert", "update", "close"}
BY DEF AllOps, Ops, Op, Connect, Close, Fetch

(* enqueue() by a coroutine that has no request: its request joins the     *)
(* queue, alone of its thread, and is not notified yet.                    *)
LEMMA SubmitStep ==
    ASSUME DbInv, NEW c \in Clients, NEW op \in AllOps, st[c] = "idle", running = None,
           Submit(c, op), UNCHANGED <<oper, event>>,
           srv' = srv \/ (srv = "none" /\ srv' = "wait")
    PROVE  RequestInv' /\ RunningInv' /\ EventInv'
<1> DEFINE m == [op |-> op, thread |-> c]
<1>1. /\ queue' = Append(queue, m) /\ m \in Messages
      /\ Len(queue') = Len(queue) + 1 /\ Len(queue) \in Nat
      /\ \A i \in 1..Len(queue) : queue'[i] = queue[i] /\ queue[i] \in Messages
      /\ queue'[Len(queue) + 1] = m
  <2>1. queue' = Append(queue, m) /\ m \in Messages /\ queue \in Seq(Messages)
    BY DEF DbInv, TypeInv, Submit, Messages
  <2> HIDE DEF m
  <2> QED BY <2>1
<1>2. /\ st' = [st EXCEPT ![c] = "call"] /\ asked' = [asked EXCEPT ![c] = op]
      /\ running' = c /\ oper' = oper /\ event' = event
  BY DEF Submit
<1>3. \A i \in 1..Len(queue) : queue[i].thread # c /\ queue[i].thread \in Clients
  BY <1>1 DEF DbInv, RequestInv, Busy, Messages
<1>4. oper # None => oper.thread # c /\ oper.thread \in Clients
  BY DEF DbInv, TypeInv, RequestInv, Busy, Messages
<1>5. st \in [Clients -> {"idle", "call", "wait", "posted"}] /\ asked \in [Clients -> AllOps \cup {None}]
  BY DEF DbInv, TypeInv
<1>6. RequestInv'
  <2>1. \A i \in 1..Len(queue') :
           st'[queue'[i].thread] \in Busy /\ queue'[i].op = asked'[queue'[i].thread]
    BY <1>1, <1>2, <1>3, <1>5 DEF DbInv, RequestInv, Busy
  <2>2. \A i, j \in 1..Len(queue') : queue'[i].thread = queue'[j].thread => i = j
    BY <1>1, <1>3 DEF DbInv, RequestInv
  <2>3. oper' # None <=> srv' \in {"serve", "post", "last"}
    BY <1>2 DEF DbInv, RequestInv
  <2>4. oper' # None => /\ st'[oper'.thread] \in Busy
                        /\ oper'.op = asked'[oper'.thread]
                        /\ \A i \in 1..Len(queue') : queue'[i].thread # oper'.thread
    BY <1>1, <1>2, <1>4, <1>5 DEF DbInv, RequestInv
  <2>5. \A d \in Clients : st'[d] \in Busy =>
           \/ oper' # None /\ oper'.thread = d
           \/ \E i \in 1..Len(queue') : queue'[i].thread = d
    BY <1>1, <1>2, <1>5 DEF DbInv, RequestInv
  <2> QED BY <2>1, <2>2, <2>3, <2>4, <2>5 DEF RequestInv
<1>7. RunningInv'
  BY <1>1, <1>2, <1>5, DbServiceAssumption DEF DbInv, RunningInv
<1>8. EventInv'
  BY <1>1, <1>2, DbServiceAssumption DEF DbInv, EventInv, Notified
<1> QED BY <1>6, <1>7, <1>8

(* st_db_connect: the first request, and the thread that will serve it.    *)
LEMMA ConnectStep == ASSUME DbInv, NEW c \in Clients, st_db_connect(c) PROVE DbInv'
<1>1. Connect \in AllOps /\ st[c] = "idle" /\ running = None /\ Submit(c, Connect)
      /\ UNCHANGED <<oper, event>> /\ srv = "none" /\ srv' \in {"none", "wait"}
      /\ dbfd' = "opening" /\ err' = "ok" /\ \A d \in Clients : st[d] = "idle"
  BY DEF Submit,  st_db_connect, AllOps, DbInv, StageInv
<1>2. RequestInv' /\ RunningInv' /\ EventInv'
  BY <1>1, SubmitStep
<1>3. TypeInv'
  BY <1>1, NoneAssumption DEF st_db_connect, Submit, DbInv, TypeInv, Messages
<1>4. StageInv'
  <2>1. Connect # Close
    BY DEF Connect, Close, Op
  <2> QED BY <1>1, <2>1 DEF Submit, DbInv, TypeInv, StageInv
<1> QED BY <1>2, <1>3, <1>4 DEF DbInv

(* st_db_query, st_db_fetch, st_db_exec.                                   *)
LEMMA CallStep ==
    ASSUME DbInv, NEW c \in Clients, NEW op \in Ops, st_db_call(c, op) PROVE DbInv'
<1>1. op \in AllOps /\ st[c] = "idle" /\ running = None /\ Submit(c, op)
      /\ UNCHANGED <<oper, event, srv>>
  BY DEF st_db_call, AllOps
<1>2. RequestInv' /\ RunningInv' /\ EventInv'
  BY <1>1, SubmitStep
<1>3. TypeInv'
  BY <1>1 DEF st_db_call, Submit, DbInv, TypeInv, Messages
<1>4. op # Connect /\ op # Close
  BY DEF Ops, Connect, Close, Fetch, Op
<1>5. StageInv'
  BY <1>1, <1>4 DEF st_db_call, Submit, DbInv, TypeInv, StageInv
<1> QED BY <1>2, <1>3, <1>5 DEF DbInv

(* st_db_close, by the last user.                                          *)
LEMMA CloseStep == ASSUME DbInv, NEW c \in Clients, st_db_close(c) PROVE DbInv'
<1>1. Close \in AllOps /\ st[c] = "idle" /\ running = None /\ Submit(c, Close)
      /\ UNCHANGED <<oper, event, srv>>
  BY DEF st_db_close, AllOps
<1>2. RequestInv' /\ RunningInv' /\ EventInv'
  BY <1>1, SubmitStep
<1>3. TypeInv'
  BY <1>1 DEF st_db_close, Submit, DbInv, TypeInv, Messages
<1>4. Close # Connect
  BY DEF Connect, Close, Op
<1>5. srv \notin {"serve", "post", "last"}
  BY DbServiceAssumption DEF st_db_close, DbInv, TypeInv, RequestInv, Busy, Messages
<1>6. StageInv'
  BY <1>1, <1>4, <1>5 DEF st_db_close, Submit, DbInv, TypeInv, StageInv
<1> QED BY <1>2, <1>3, <1>6 DEF DbInv

(* notify(): the running coroutine's request counts from now on.           *)
LEMMA NotifyStep == ASSUME DbInv, NEW c \in Clients, Notify(c) PROVE DbInv'
<1>1. TypeInv'
  BY DEF DbInv, TypeInv, Notify
<1>2. RequestInv'
  BY DEF DbInv, TypeInv, RequestInv, Notify, Busy
<1>3. RunningInv'
  BY NoneAssumption, DbServiceAssumption DEF DbInv, TypeInv, RunningInv, RequestInv, Notify
<1>4. EventInv'
  BY DbServiceAssumption DEF DbInv, TypeInv, EventInv, Notify, Notified, RunningInv
<1>5. StageInv'
  BY DEF DbInv, TypeInv, StageInv, Notify
<1> QED BY <1>1, <1>2, <1>3, <1>4, <1>5 DEF DbInv

(* The call returns; the connection opens, or is freed.                    *)
LEMMA ReturnStep == ASSUME DbInv, NEW c \in Clients, Return(c) PROVE DbInv'
<1>1. TypeInv'
  BY DEF DbInv, TypeInv, Return, Returned
<1>2. RequestInv'
  BY DEF DbInv, TypeInv, RequestInv, Return, Returned, Busy, Messages
<1>3. RunningInv'
  BY DEF DbInv, TypeInv, RunningInv, Return, Returned
<1>4. EventInv'
  BY DEF DbInv, TypeInv, EventInv, Return, Returned, Notified
<1>5. StageInv'
  <2>1. Connect # Close
    BY DEF Connect, Close, Op
  <2>2. CASE asked[c] = Close
    BY <2>1, <2>2 DEF DbInv, TypeInv, StageInv, Return, Returned
  <2>3. CASE asked[c] = Connect /\ err # "ok"
    <3>1. srv # "last"
      BY <2>3 DEF DbInv, TypeInv, StageInv, RequestInv, Messages, Busy, Return, Returned
    <3> QED BY <2>1, <2>3, <3>1 DEF DbInv, TypeInv, StageInv, Return, Returned
  <2>4. CASE asked[c] = Connect /\ err = "ok"
    <3>1. srv # "last"
      BY <2>4 DEF DbInv, TypeInv, StageInv, RequestInv, Messages, Busy, Return, Returned
    <3> QED BY <2>1, <2>4, <3>1 DEF DbInv, TypeInv, StageInv, Return, Returned
  <2>5. CASE asked[c] \notin {Connect, Close}
    BY <2>1, <2>5 DEF DbInv, TypeInv, StageInv, Return, Returned
  <2> QED BY <2>2, <2>3, <2>4, <2>5
<1> QED BY <1>1, <1>2, <1>3, <1>4, <1>5 DEF DbInv

(* wait() passes the event on to the wake-up, which has not taken yet.     *)
LEMMA DbWaitStep == ASSUME DbInv, Wait PROVE DbInv'
<1>1. TypeInv'
  BY DEF DbInv, TypeInv, Wait, cvars
<1>2. RequestInv'
  BY DEF DbInv, TypeInv, RequestInv, Wait, cvars
<1>3. RunningInv'
  BY DEF DbInv, TypeInv, RunningInv, Wait, cvars
<1>4. EventInv'
  BY DEF DbInv, TypeInv, EventInv, Wait, Notified, cvars
<1>5. StageInv'
  BY DEF DbInv, TypeInv, StageInv, Wait, cvars
<1> QED BY <1>1, <1>2, <1>3, <1>4, <1>5 DEF DbInv

(* dequeue(): the head of the queue moves to the database thread.          *)
LEMMA DequeueStep == ASSUME DbInv, Dequeue PROVE DbInv'
<1>1. TypeInv'
  BY DEF DbInv, TypeInv, Dequeue, cvars
<1>2. RequestInv'
  <2>1. Len(queue) > 0 /\ queue # <<>>
    BY DEF DbInv, TypeInv, EventInv, Notified, Dequeue
  <2>2. /\ oper' = queue[1] /\ oper' \in Messages
        /\ Len(queue') = Len(queue) - 1 /\ Len(queue) \in Nat
        /\ \A i \in 1..Len(queue') : queue'[i] = queue[i + 1] /\ i + 1 \in 1..Len(queue)
        /\ UNCHANGED <<st, asked>> /\ srv' = "serve" /\ oper = None /\ 1 \in 1..Len(queue)
    BY <2>1 DEF DbInv, TypeInv, RequestInv, Dequeue, cvars
  <2>3. oper' # None
    BY <2>2, NoneAssumption DEF Messages, AllOps
  <2>4. \A d \in Clients : st'[d] \in Busy =>
           \/ oper' # None /\ oper'.thread = d
           \/ \E i \in 1..Len(queue') : queue'[i].thread = d
    <3> SUFFICES ASSUME NEW d \in Clients, st[d] \in Busy
                 PROVE  oper'.thread = d \/ \E i \in 1..Len(queue') : queue'[i].thread = d
      BY <2>2, <2>3
    <3>1. PICK i \in 1..Len(queue) : queue[i].thread = d
      BY <2>2 DEF DbInv, RequestInv
    <3>2. CASE i = 1
      BY <2>2, <3>1, <3>2
    <3>3. CASE i # 1
      <4>1. i - 1 \in 1..Len(queue') /\ queue'[i - 1] = queue[i]
        BY <2>2, <3>3
      <4> QED BY <3>1, <4>1
    <3> QED BY <3>2, <3>3
  <2>5. \A i \in 1..Len(queue') :
           st'[queue'[i].thread] \in Busy /\ queue'[i].op = asked'[queue'[i].thread]
    BY <2>2 DEF DbInv, RequestInv
  <2>6. \A i, j \in 1..Len(queue') : queue'[i].thread = queue'[j].thread => i = j
    BY <2>2 DEF DbInv, RequestInv
  <2>7. \A i \in 1..Len(queue') : queue'[i].thread # oper'.thread
    BY <2>2 DEF DbInv, RequestInv
  <2>8. st'[oper'.thread] \in Busy /\ oper'.op = asked'[oper'.thread]
    BY <2>2 DEF DbInv, RequestInv
  <2> QED BY <2>2, <2>3, <2>4, <2>5, <2>6, <2>7, <2>8 DEF RequestInv
<1>3. RunningInv'
  BY DEF DbInv, TypeInv, RunningInv, EventInv, Notified, Dequeue, cvars
<1>4. EventInv'
  BY DEF DbInv, TypeInv, EventInv, Notified, Dequeue, cvars
<1>5. StageInv'
  BY DEF DbInv, TypeInv, StageInv, Dequeue, cvars
<1> QED BY <1>1, <1>2, <1>3, <1>4, <1>5 DEF DbInv

(* The operation is done; only an open or a close can end the loop.        *)
LEMMA ServeStep == ASSUME DbInv, Serve PROVE DbInv'
<1>1. TypeInv'
  BY DEF DbInv, TypeInv, Serve
<1>2. RequestInv'
  BY DEF DbInv, TypeInv, RequestInv, Serve
<1>3. RunningInv'
  BY DEF DbInv, TypeInv, RunningInv, Serve
<1>4. EventInv'
  BY DEF DbInv, TypeInv, EventInv, Notified, Serve
<1>5. StageInv'
  BY OpFacts DEF DbInv, TypeInv, StageInv, RequestInv, Serve, DoOpen, Fail, Busy, Messages
<1> QED BY <1>1, <1>2, <1>3, <1>4, <1>5 DEF DbInv

(* The answer is posted, and the request is with nobody.                   *)
LEMMA PostStep == ASSUME DbInv, Post PROVE DbInv'
<1>1. TypeInv'
  BY DEF DbInv, TypeInv, Post, Messages
<1>2. RequestInv'
  BY DEF DbInv, TypeInv, RequestInv, Post, Messages, Busy
<1>3. RunningInv'
  <2>1. oper # None /\ oper \in Messages
    BY DEF DbInv, TypeInv, RequestInv, Post
  <2>2. running # oper.thread
    <3> SUFFICES ASSUME running = oper.thread PROVE FALSE
      OBVIOUS
    <3>1. running # None
      BY <2>1, DbServiceAssumption DEF Messages
    <3>2. Len(queue) \in 1..Len(queue) /\ queue[Len(queue)].thread = running
      BY <3>1 DEF DbInv, TypeInv, RunningInv
    <3> QED BY <2>1, <3>2 DEF DbInv, RequestInv
  <2> QED BY <2>1, <2>2 DEF DbInv, TypeInv, RunningInv, Post, Messages
<1>4. EventInv'
  BY DEF DbInv, TypeInv, EventInv, Notified, Post
<1>5. StageInv'
  BY DEF DbInv, TypeInv, StageInv, RequestInv, Post, Busy, Messages
<1> QED BY <1>1, <1>2, <1>3, <1>4, <1>5 DEF DbInv

(* The thread ends.                                                        *)
LEMMA DestroyStep == ASSUME DbInv, Destroy PROVE DbInv'
BY DEF DbInv, TypeInv, RequestInv, RunningInv, EventInv, Notified, StageInv, Destroy, cvars

(* DbInv is inductive.                                                     *)
LEMMA DbStep == ASSUME DbInv, [Next]_vars PROVE DbInv'
<1>1. CASE UNCHANGED vars
  BY <1>1 DEF vars, dvars, cvars, DbInv, TypeInv, RequestInv, RunningInv, EventInv, Notified, StageInv
<1>2. CASE db_server
  BY <1>2, DbWaitStep, DequeueStep, ServeStep, PostStep, DestroyStep DEF db_server
<1>3. CASE \E c \in Clients : Call(c)
  BY <1>3, ConnectStep, CloseStep, CallStep DEF Call
<1>4. CASE \E c \in Clients : Notify(c) \/ Return(c)
  BY <1>4, NotifyStep, ReturnStep
<1> QED BY <1>1, <1>2, <1>3, <1>4 DEF Next

(* A connection that nobody has opened yet.                                *)
LEMMA DbStart == ASSUME DbInit PROVE DbInv
<1>1. TypeInv
  <2>1. queue \in Seq(Messages)
    BY DEF DbInit
  <2>2. st \in [Clients -> {"idle", "call", "wait", "posted"}] /\ asked \in [Clients -> AllOps \cup {None}]
    BY DEF DbInit
  <2> QED BY <2>1, <2>2 DEF DbInit, TypeInv
<1>2. queue \in Seq(Messages) /\ Len(queue) = 0
  BY DEF DbInit
<1>3. RequestInv
  BY <1>2 DEF DbInit, RequestInv, Busy
<1>4. RunningInv
  BY <1>2, DbServiceAssumption DEF DbInit, RunningInv
<1>5. EventInv
  BY <1>2 DEF DbInit, EventInv, Notified
<1>6. StageInv
  BY DEF DbInit, StageInv
<1> QED BY <1>1, <1>3, <1>4, <1>5, <1>6 DEF DbInv

(* What the reader of ConnectionSound sees follows from DbInv: the places  *)
(* of a request are counted by the thread it names.                        *)
LEMMA DbSound == ASSUME DbInv PROVE ConnectionSound
<1>1. ASSUME NEW c \in Clients PROVE Places(c) = IF st[c] = "idle" THEN 0 ELSE 1
  <2> DEFINE Q == {i \in DOMAIN queue : queue[i].thread = c}
  <2>1. DOMAIN queue = 1..Len(queue) /\ st[c] \in {"idle", "call", "wait", "posted"}
    BY DEF DbInv, TypeInv
  <2>2. CASE \E i \in 1..Len(queue) : queue[i].thread = c
    <3>1. PICK i \in 1..Len(queue) : queue[i].thread = c
      BY <2>2
    <3>2. Q = {i}
      BY <2>1, <3>1 DEF DbInv, RequestInv
    <3>3. Cardinality(Q) = 1
      BY <3>2, FS_Singleton
    <3>4. st[c] \in Busy /\ ~(oper # None /\ oper.thread = c)
      BY <3>1 DEF DbInv, RequestInv
    <3> QED BY <3>3, <3>4 DEF Places, Busy
  <2>3. CASE ~\E i \in 1..Len(queue) : queue[i].thread = c
    <3>1. Q = {}
      BY <2>1, <2>3
    <3>2. Cardinality(Q) = 0
      BY <3>1, FS_EmptySet
    <3>3. CASE oper # None /\ oper.thread = c
      BY <3>2, <3>3 DEF Places, DbInv, RequestInv, Busy
    <3>4. CASE ~(oper # None /\ oper.thread = c)
      <4>1. st[c] \notin Busy
        BY <2>3, <3>4 DEF DbInv, RequestInv
      <4> QED BY <2>1, <3>2, <3>4, <4>1 DEF Places, Busy
    <3> QED BY <3>3, <3>4
  <2> QED BY <2>2, <2>3
<1>2. srv = "take" => queue # <<>>
  BY DEF DbInv, TypeInv, EventInv, Notified
<1>3. dbfd = "freed" => srv \in {"dtor", "done"} /\ oper = None /\ queue = <<>>
  <2> SUFFICES ASSUME dbfd = "freed" PROVE srv \in {"dtor", "done"} /\ oper = None /\ queue = <<>>
    OBVIOUS
  <2>1. srv \in {"dtor", "done"} /\ oper = None
    BY DEF DbInv, StageInv, RequestInv
  <2>2. Len(queue) = 0
    <3> SUFFICES ASSUME Len(queue) # 0 PROVE FALSE
      OBVIOUS
    <3>1. queue \in Seq(Messages) /\ Len(queue) \in Nat
      BY DEF DbInv, TypeInv
    <3>2. 1 \in 1..Len(queue) /\ queue[1] \in Messages
      BY <3>1
    <3>3. queue[1].thread \in Clients
      BY <3>2 DEF Messages
    <3> QED BY <3>2, <3>3 DEF DbInv, StageInv, RequestInv, Busy
  <2> QED BY <2>1, <2>2 DEF DbInv, TypeInv
<1> QED BY <1>1, <1>2, <1>3 DEF ConnectionSound

(* The requests of the coroutines, the queue, the event and the database   *)
(* thread agree in every reachable state.                                  *)
THEOREM DbInductive == Spec => []DbInv
<1>1. DbInit => DbInv
  BY DbStart
<1>2. DbInv /\ [Next]_vars => DbInv'
  BY DbStep
<1> QED BY <1>1, <1>2, PTL DEF Spec

(* However many coroutines share a connection and however they interleave  *)
(* with its thread, no answer is lost or given twice, no wake-up finds the *)
(* queue empty, and a freed connection has no request left.                *)
THEOREM ConnectionStaysSound == Spec => []ConnectionSound
<1>1. DbInv => ConnectionSound
  BY DbSound
<1> QED BY <1>1, DbInductive, PTL
=============================================================================
