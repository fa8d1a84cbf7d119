------------------------- MODULE LockFreeQueueProofs -------------------------
(***************************************************************************)
(* Proofs about the completion queue with one producer: every compare and  *)
(* swap of an enqueue is on a node that is still allocated, and the queue  *)
(* implements a FIFO.                                                      *)
(*                                                                         *)
(* The counts that lock_free_queue.cpp keeps beside its pointers play no   *)
(* part: while the only producer is in its loop nothing is allocated, so a *)
(* tail that has moved on never comes back to the node the producer read,  *)
(* and comparing the pointers is enough.                                   *)
(***************************************************************************)
EXTENDS LockFreeQueue, SequenceTheorems, FiniteSetTheorems, NaturalsInduction,
        WellFoundedInduction, TLAPS

(* The deployment of the video proxy: only the IOCP worker enqueues.       *)
OneProducer == \A p, q \in Producers : p = q

Counted == [ptr : Ptr, count : Nat]
EnqLocal == [node : Ptr, tail : Counted, next : Counted]
DeqLocal == [head : Counted, tail : Counted, next : Counted]

EnqPcs == {"tcount", "tptr", "nptr", "ncount", "ckcount", "ckptr", "link", "lcount",
           "swing", "scount"}
DeqPcs == {"tcount", "tptr", "ncount", "nptr", "swing", "scount", "head", "hcount", "free"}

LfType ==
    /\ live \subseteq Nodes
    /\ value \in [Nodes -> Values \cup {NULL}]
    /\ next \in [Nodes -> Counted]
    /\ head \in Counted /\ tail \in Counted
    /\ ppc \in [Producers -> EnqPcs \cup {"idle"}]
    /\ ploc \in [Producers -> EnqLocal]
    /\ dpc \in DeqPcs \cup {"idle"}
    /\ dloc \in DeqLocal
    /\ out \in Values \cup {NULL}
    /\ ops \in Nat

(* s is the list from the dummy node on: its nodes are distinct and         *)
(* allocated, and the tail is one of them.                                 *)
ListOk(s) ==
    /\ IsList(s, head.ptr, next)
    /\ \A i \in 1..Len(s) : s[i] \in live
    /\ \A i, j \in 1..Len(s) : s[i] = s[j] => i = j
    /\ \E i \in 1..Len(s) : s[i] = tail.ptr

(* x is not behind the tail: the tail, which only moves on along s, will   *)
(* never be x unless it is x now.                                          *)
NotBehindTail(s, x) == \A i, j \in 1..Len(s) : s[i] = tail.ptr /\ s[j] = x => j <= i

(* The node an enqueue has allocated is not in the list yet.  As long as   *)
(* the tail is the node it has read, next is what it read there.           *)
EnqueueOk(p, s) ==
    LET l == ploc[p]
    IN /\ ppc[p] \in EnqPcs \ {"lcount"} =>
             /\ l.node \in live /\ value[l.node] \in Values /\ next[l.node].ptr = NULL
             /\ \A i \in 1..Len(s) : s[i] # l.node
       /\ ppc[p] \in {"nptr", "ncount", "ckcount", "ckptr", "link", "lcount", "swing"} =>
             l.tail.ptr \in Nodes
       /\ ppc[p] \in {"nptr", "ncount", "ckcount", "ckptr", "link", "swing"} =>
             NotBehindTail(s, l.tail.ptr)
       /\ ppc[p] \in {"ncount", "ckcount", "ckptr", "link", "swing"} =>
             (l.tail.ptr = tail.ptr => next[tail.ptr].ptr = l.next.ptr)
       /\ ppc[p] = "link" => l.tail.ptr = tail.ptr /\ l.next.ptr = NULL
       /\ ppc[p] = "swing" => l.next.ptr # NULL

(* The dequeue works on the dummy node of the list until it has swung the  *)
(* head; then the old dummy node is its own.                               *)
DequeueOk(s) ==
    LET l == dloc
    IN /\ dpc \in DeqPcs \ {"hcount", "free"} => l.head.ptr = head.ptr
       /\ dpc \in {"ncount", "nptr"} => l.tail.ptr = head.ptr \/ tail.ptr # head.ptr
       /\ dpc = "swing" => l.tail.ptr = head.ptr
       /\ dpc = "head" => tail.ptr # head.ptr
       /\ dpc \in {"swing", "head"} => l.next.ptr = next[head.ptr].ptr /\ l.next.ptr # NULL
       /\ dpc \in {"hcount", "free"} =>
             /\ l.head.ptr \in live
             /\ \A i \in 1..Len(s) : s[i] # l.head.ptr
             /\ \A p \in Producers : ppc[p] \in EnqPcs \ {"lcount"} => ploc[p].node # l.head.ptr

(* The inductive invariant.                                                *)
LfInv ==
    /\ LfType
    /\ \E s \in Lists : ListOk(s) /\ DequeueOk(s) /\ \A p \in Producers : EnqueueOk(p, s)

-----------------------------------------------------------------------------
(* Facts about records with a pointer and a count.                         *)

(* What storing the count or the pointer of one field leaves of a record.  *)
LEMMA CountedFacts ==
  ASSUME NEW c \in Counted, NEW x \in Ptr, NEW k \in Nat
  PROVE  /\ c.ptr \in Ptr /\ c.count \in Nat
         /\ [c EXCEPT !.ptr = x] \in Counted /\ [c EXCEPT !.ptr = x].ptr = x
         /\ [c EXCEPT !.count = k] \in Counted /\ [c EXCEPT !.count = k].ptr = c.ptr
BY DEF Counted

(* The same for the local variables of an enqueue.                         *)
LEMMA EnqLocals ==
  ASSUME LfType, NEW p \in Producers, NEW x \in Ptr, NEW k \in Nat
  PROVE  /\ LET l == [ploc EXCEPT ![p].node = x]
            IN  /\ l \in [Producers -> EnqLocal]
                /\ l[p].node = x
         /\ LET l == [ploc EXCEPT ![p].tail.ptr = x]
            IN  /\ l \in [Producers -> EnqLocal]
                /\ l[p].node = ploc[p].node /\ l[p].tail.ptr = x
         /\ LET l == [ploc EXCEPT ![p].tail.count = k]
            IN  /\ l \in [Producers -> EnqLocal]
                /\ l[p].node = ploc[p].node
         /\ LET l == [ploc EXCEPT ![p].next.ptr = x]
            IN  /\ l \in [Producers -> EnqLocal]
                /\ l[p].node = ploc[p].node /\ l[p].tail = ploc[p].tail /\ l[p].next.ptr = x
<1> DEFINE r == ploc[p]
           c == r.tail
           n == r.next
<1>1. ploc \in [Producers -> EnqLocal] /\ r \in EnqLocal /\ c \in Counted /\ n \in Counted
  BY DEF LfType, EnqLocal
<1>2. /\ [r EXCEPT !.node = x] \in EnqLocal /\ [r EXCEPT !.node = x].node = x
      /\ \A d \in Counted : /\ [r EXCEPT !.tail = d] \in EnqLocal /\ [r EXCEPT !.tail = d].tail = d
                            /\ [r EXCEPT !.tail = d].node = r.node
                            /\ [r EXCEPT !.next = d] \in EnqLocal /\ [r EXCEPT !.next = d].next = d
                            /\ [r EXCEPT !.next = d].node = r.node
                            /\ [r EXCEPT !.next = d].tail = r.tail
  BY <1>1 DEF EnqLocal
<1>3. /\ [ploc EXCEPT ![p].node = x] = [ploc EXCEPT ![p] = [r EXCEPT !.node = x]]
      /\ [ploc EXCEPT ![p].tail.ptr = x] = [ploc EXCEPT ![p] = [r EXCEPT !.tail = [c EXCEPT !.ptr = x]]]
      /\ [ploc EXCEPT ![p].tail.count = k] = [ploc EXCEPT ![p] = [r EXCEPT !.tail = [c EXCEPT !.count = k]]]
      /\ [ploc EXCEPT ![p].next.ptr = x] = [ploc EXCEPT ![p] = [r EXCEPT !.next = [n EXCEPT !.ptr = x]]]
  BY Zenon
<1>4. \A d \in EnqLocal : [ploc EXCEPT ![p] = d] \in [Producers -> EnqLocal] /\ [ploc EXCEPT ![p] = d][p] = d
  BY <1>1
<1> HIDE DEF r, c, n
<1>5. /\ [c EXCEPT !.ptr = x] \in Counted /\ [c EXCEPT !.ptr = x].ptr = x
      /\ [c EXCEPT !.count = k] \in Counted
      /\ [n EXCEPT !.ptr = x] \in Counted /\ [n EXCEPT !.ptr = x].ptr = x
  BY <1>1, CountedFacts
<1> QED BY <1>2, <1>3, <1>4, <1>5 DEF r, c, n

(* The same for the local variables of the dequeue.                        *)
LEMMA DeqLocals ==
  ASSUME LfType, NEW x \in Ptr, NEW k \in Nat
  PROVE  /\ LET l == [dloc EXCEPT !.tail.ptr = x]
            IN  /\ l \in DeqLocal
                /\ l.head = dloc.head /\ l.tail.ptr = x
         /\ LET l == [dloc EXCEPT !.tail.count = k]
            IN  /\ l \in DeqLocal
                /\ l.head = dloc.head
         /\ LET l == [dloc EXCEPT !.next.ptr = x]
            IN  /\ l \in DeqLocal
                /\ l.head = dloc.head /\ l.tail = dloc.tail /\ l.next.ptr = x
         /\ LET l == [dloc EXCEPT !.next.count = k]
            IN  /\ l \in DeqLocal
                /\ l.head = dloc.head /\ l.tail = dloc.tail
BY DEF LfType, Counted, DeqLocal

(* A list is a sequence of nodes.                                          *)
LEMMA ListFacts ==
  ASSUME NEW s \in Lists
  PROVE  Len(s) \in Nat /\ s \in Seq(Nodes) /\ s \in [1..Len(s) -> Nodes]
         /\ Len(s) <= Cardinality(Nodes)
<1>1. Cardinality(Nodes) \in Nat
  BY QueueAssumption, FS_CardinalityType
<1>2. PICK m \in 0..Cardinality(Nodes) : s \in [1..m -> Nodes]
  BY DEF Lists, BoundedSeq, SeqOf
<1> QED BY <1>1, <1>2

(* A step inside the loop of an enqueue keeps the types.                   *)
LEMMA EnqTypes ==
  ASSUME LfType, NEW p \in Producers, NEW c \in EnqPcs, ppc' = [ppc EXCEPT ![p] = c],
         ploc' \in [Producers -> EnqLocal], UNCHANGED <<mvars, dvars, ops>>
  PROVE  LfType' /\ ppc'[p] = c
BY DEF LfType, mvars, dvars

(* What is left of the locals when a count is stored.                      *)
LEMMA EnqCounts ==
  ASSUME LfType, NEW p \in Producers, NEW k \in Nat, NEW l, l = [ploc EXCEPT ![p].next.count = k]
  PROVE  /\ l \in [Producers -> EnqLocal]
         /\ l[p].node = ploc[p].node /\ l[p].tail = ploc[p].tail
         /\ l[p].next.ptr = ploc[p].next.ptr
<1> DEFINE r == ploc[p]
           n == r.next
           m == [n EXCEPT !.count = k]
<1>1. ploc \in [Producers -> EnqLocal] /\ r \in EnqLocal /\ n \in Counted
  BY DEF LfType, EnqLocal
<1>2. m \in Counted /\ m.ptr = n.ptr
  <2> HIDE DEF n
  <2> QED BY <1>1 DEF Counted
<1>3. l = [ploc EXCEPT ![p] = [r EXCEPT !.next = m]]
  BY Zenon
<1> HIDE DEF m
<1>4. /\ [r EXCEPT !.next = m] \in EnqLocal /\ [r EXCEPT !.next = m].next = m
      /\ [r EXCEPT !.next = m].node = r.node /\ [r EXCEPT !.next = m].tail = r.tail
  <2> HIDE DEF r
  <2> QED BY <1>1, <1>2 DEF EnqLocal
<1> DEFINE e == [r EXCEPT !.next = m]
<1>5. e \in EnqLocal /\ e.next = m /\ e.node = r.node /\ e.tail = r.tail /\ l = [ploc EXCEPT ![p] = e]
  BY <1>3, <1>4
<1> HIDE DEF e
<1>6. l \in [Producers -> EnqLocal] /\ l[p] = e
  BY <1>1, <1>5
<1> QED BY <1>2, <1>5, <1>6

-----------------------------------------------------------------------------
(* Steps that change no shared memory.                                     *)

(* A step inside the loop of an enqueue keeps its node and touches nothing *)
(* else.                                                                   *)
LEMMA LocalEnqueue ==
  ASSUME OneProducer, LfType', NEW s \in Lists, ListOk(s), DequeueOk(s), NEW p \in Producers,
         ppc[p] \in EnqPcs \ {"lcount"}, UNCHANGED <<mvars, dvars>>,
         ploc'[p].node = ploc[p].node, EnqueueOk(p, s)'
  PROVE  LfInv'
<1>1. ListOk(s)'
  BY DEF ListOk, mvars
<1>2. \A q \in Producers : EnqueueOk(q, s)'
  BY DEF OneProducer
<1>3. DequeueOk(s)'
  BY DEF DequeueOk, mvars, dvars, OneProducer
<1> QED BY <1>1, <1>2, <1>3 DEF LfInv

(* A step of the dequeue that writes nothing leaves list and enqueues.     *)
LEMMA LocalDequeue ==
  ASSUME LfType', NEW s \in Lists, ListOk(s), \A p \in Producers : EnqueueOk(p, s),
         UNCHANGED <<mvars, pvars>>, DequeueOk(s)'
  PROVE  LfInv'
<1>1. ListOk(s)'
  BY DEF ListOk, mvars
<1>2. \A q \in Producers : EnqueueOk(q, s)'
  BY DEF EnqueueOk, NotBehindTail, mvars, pvars
<1> QED BY <1>1, <1>2 DEF LfInv

(* The tail is a node of the list, and allocated.                          *)
LEMMA TailFacts ==
  ASSUME LfType, NEW s \in Lists, ListOk(s)
  PROVE  tail.ptr \in live /\ tail.ptr \in Nodes /\ head.ptr \in live /\ head.ptr \in Nodes
         /\ 1 \in 1..Len(s) /\ s[1] = head.ptr
BY ListFacts DEF ListOk, IsList, LfType

(* cas_back of the enqueue, and its two reads of next.                     *)
LEMMA ReadStep ==
  ASSUME OneProducer, LfInv, NEW p \in Producers,
         ReadTailCount(p) \/ ReadTailPtr(p) \/ ReadNextPtr(p) \/ ReadNextCount(p)
  PROVE  LfInv'
<1>1. LfType
  BY DEF LfInv
<1>2. PICK s \in Lists : ListOk(s) /\ DequeueOk(s) /\ \A q \in Producers : EnqueueOk(q, s)
  BY DEF LfInv
<1>3. /\ tail.ptr \in Ptr /\ tail.count \in Nat /\ tail.ptr \in Nodes /\ tail.ptr \in live
      /\ ppc \in [Producers -> EnqPcs \cup {"idle"}]
  BY <1>1, <1>2, TailFacts DEF LfType, Counted
<1>4. CASE ReadTailCount(p)
  <2>1. LfType' /\ ploc'[p].node = ploc[p].node /\ ppc'[p] = "tptr"
    <3>1. /\ ploc' \in [Producers -> EnqLocal]
          /\ ploc'[p].node = ploc[p].node
      BY <1>1, <1>3, <1>4, EnqLocals DEF ReadTailCount
    <3>2. ppc' = [ppc EXCEPT ![p] = "tptr"] /\ "tptr" \in EnqPcs /\ UNCHANGED <<mvars, dvars, ops>>
      BY <1>4 DEF ReadTailCount, Goto, EnqPcs
    <3> QED BY <1>1, <3>1, <3>2, EnqTypes
  <2>2. EnqueueOk(p, s)'
    BY <1>2, <1>4, <2>1 DEF ReadTailCount, EnqueueOk, mvars, EnqPcs
  <2> QED BY <1>2, <1>4, <2>1, <2>2, LocalEnqueue DEF ReadTailCount, EnqPcs
<1>5. CASE ReadTailPtr(p)
  <2>1. /\ LfType' /\ ploc'[p].node = ploc[p].node /\ ploc'[p].tail.ptr = tail.ptr
        /\ ppc'[p] = "nptr"
    <3>1. /\ ploc' \in [Producers -> EnqLocal]
          /\ ploc'[p].node = ploc[p].node /\ ploc'[p].tail.ptr = tail.ptr
      BY <1>1, <1>3, <1>5, EnqLocals DEF ReadTailPtr
    <3>2. ppc' = [ppc EXCEPT ![p] = "nptr"] /\ "nptr" \in EnqPcs /\ UNCHANGED <<mvars, dvars, ops>>
      BY <1>5 DEF ReadTailPtr, Goto, EnqPcs
    <3> QED BY <1>1, <3>1, <3>2, EnqTypes
  <2>2. NotBehindTail(s, tail.ptr)
    BY <1>2, ListFacts DEF NotBehindTail, ListOk
  <2>3. EnqueueOk(p, s)'
    BY <1>2, <1>3, <1>5, <2>1, <2>2 DEF ReadTailPtr, EnqueueOk, mvars, EnqPcs, NotBehindTail
  <2> QED BY <1>2, <1>5, <2>1, <2>3, LocalEnqueue DEF ReadTailPtr, EnqPcs
<1>6. CASE ReadNextPtr(p)
  <2>1. PICK x \in ReadPtr(ploc[p].tail.ptr) : ploc' = [ploc EXCEPT ![p].next.ptr = x]
    BY <1>6 DEF ReadNextPtr
  <2>2. x \in Ptr /\ 0 \in Nat /\ (ploc[p].tail.ptr = tail.ptr => x = next[tail.ptr].ptr)
    BY <1>1, <1>3, <2>1 DEF ReadPtr, LfType, Counted
  <2>3. /\ LfType' /\ ploc'[p].node = ploc[p].node /\ ploc'[p].tail = ploc[p].tail
        /\ ploc'[p].next.ptr = x /\ ppc'[p] = "ncount"
    <3>1. /\ ploc' \in [Producers -> EnqLocal]
          /\ ploc'[p].node = ploc[p].node /\ ploc'[p].tail = ploc[p].tail
          /\ ploc'[p].next.ptr = x
      BY <1>1, <2>1, <2>2, EnqLocals
    <3>2. ppc' = [ppc EXCEPT ![p] = "ncount"] /\ "ncount" \in EnqPcs /\ UNCHANGED <<mvars, dvars, ops>>
      BY <1>6 DEF ReadNextPtr, Goto, EnqPcs
    <3> QED BY <1>1, <3>1, <3>2, EnqTypes
  <2>4. EnqueueOk(p, s)'
    BY <1>2, <1>3, <1>6, <2>2, <2>3 DEF ReadNextPtr, EnqueueOk, mvars, EnqPcs, NotBehindTail
  <2> QED BY <1>2, <1>6, <2>3, <2>4, LocalEnqueue DEF ReadNextPtr, EnqPcs
<1>7. CASE ReadNextCount(p)
  <2>1. PICK k \in ReadCount(ploc[p].tail.ptr) : ploc' = [ploc EXCEPT ![p].next.count = k]
    BY <1>7 DEF ReadNextCount
  <2>2. ploc[p].tail.ptr \in Nodes
    BY <1>2, <1>7 DEF ReadNextCount, EnqueueOk
  <2>3. k \in Nat /\ NULL \in Ptr
    BY <1>1, <2>1, <2>2 DEF ReadCount, Ptr, LfType, Counted
  <2>4. /\ LfType' /\ ploc'[p].node = ploc[p].node /\ ploc'[p].tail = ploc[p].tail
        /\ ploc'[p].next.ptr = ploc[p].next.ptr /\ ppc'[p] = "ckcount"
    <3>1. /\ ploc' \in [Producers -> EnqLocal]
          /\ ploc'[p].node = ploc[p].node /\ ploc'[p].tail = ploc[p].tail
          /\ ploc'[p].next.ptr = ploc[p].next.ptr
      BY <1>1, <2>1, <2>3, EnqCounts
    <3>2. ppc' = [ppc EXCEPT ![p] = "ckcount"] /\ "ckcount" \in EnqPcs /\ UNCHANGED <<mvars, dvars, ops>>
      BY <1>7 DEF ReadNextCount, Goto, EnqPcs
    <3> QED BY <1>1, <3>1, <3>2, EnqTypes
  <2>5. EnqueueOk(p, s)'
    BY <1>2, <1>3, <1>7, <2>4 DEF ReadNextCount, EnqueueOk, mvars, EnqPcs, NotBehindTail
  <2> QED BY <1>2, <1>7, <2>4, <2>5, LocalEnqueue DEF ReadNextCount, EnqPcs
<1> QED BY <1>4, <1>5, <1>6, <1>7

(* "Are tail and next consistent?"                                         *)
LEMMA CheckStep ==
  ASSUME OneProducer, LfInv, NEW p \in Producers, CheckTailCount(p) \/ CheckTailPtr(p)
  PROVE  LfInv'
<1>1. LfType
  BY DEF LfInv
<1>2. PICK s \in Lists : ListOk(s) /\ DequeueOk(s) /\ \A q \in Producers : EnqueueOk(q, s)
  BY DEF LfInv
<1>3. ppc \in [Producers -> EnqPcs \cup {"idle"}] /\ ploc' = ploc /\ UNCHANGED <<mvars, dvars, ops>>
  BY <1>1 DEF LfType, CheckTailCount, CheckTailPtr
<1>4. CASE CheckTailCount(p)
  <2>1. LfType' /\ ppc'[p] \in {"ckptr", "tcount"}
    BY <1>1, <1>3, <1>4 DEF CheckTailCount, LfType, Goto, mvars, dvars, EnqPcs
  <2>2. EnqueueOk(p, s)'
    BY <1>2, <1>3, <1>4, <2>1 DEF CheckTailCount, EnqueueOk, mvars, EnqPcs, NotBehindTail
  <2> QED BY <1>2, <1>3, <1>4, <2>1, <2>2, LocalEnqueue DEF CheckTailCount, EnqPcs
<1>5. CASE CheckTailPtr(p)
  <2>1. /\ ppc'[p] \in {"tcount", "link", "swing"}
        /\ ppc'[p] = "link" => ploc[p].tail.ptr = tail.ptr /\ ploc[p].next.ptr = NULL
        /\ ppc'[p] = "swing" => ploc[p].next.ptr # NULL
    <3>1. CASE ploc[p].tail.ptr # tail.ptr
      <4>1. ppc' = [ppc EXCEPT ![p] = "tcount"]
        BY <1>5, <3>1 DEF CheckTailPtr, Goto
      <4> QED BY <1>3, <4>1
    <3>2. CASE ploc[p].tail.ptr = tail.ptr /\ ploc[p].next.ptr = NULL
      <4>1. ppc' = [ppc EXCEPT ![p] = "link"]
        BY <1>5, <3>2 DEF CheckTailPtr, Goto
      <4> QED BY <1>3, <3>2, <4>1
    <3>3. CASE ploc[p].tail.ptr = tail.ptr /\ ploc[p].next.ptr # NULL
      <4>1. ppc' = [ppc EXCEPT ![p] = "swing"]
        BY <1>5, <3>3 DEF CheckTailPtr, Goto
      <4> QED BY <1>3, <3>3, <4>1
    <3> QED BY <3>1, <3>2, <3>3
  <2>2. LfType'
    BY <1>1, <1>3, <1>5, <2>1 DEF CheckTailPtr, LfType, Goto, mvars, dvars, EnqPcs
  <2>3. EnqueueOk(p, s)'
    BY <1>2, <1>3, <1>5, <2>1 DEF CheckTailPtr, EnqueueOk, mvars, EnqPcs, NotBehindTail
  <2> QED BY <1>2, <1>3, <1>5, <2>2, <2>3, LocalEnqueue DEF CheckTailPtr, EnqPcs
<1> QED BY <1>4, <1>5

(* A dequeue that writes nothing keeps the types.                          *)
LEMMA DeqTypes ==
  ASSUME LfType, dpc' \in DeqPcs \cup {"idle"}, dloc' \in DeqLocal, out' \in Values \cup {NULL},
         UNCHANGED <<mvars, pvars, ops>>
  PROVE  LfType'
BY DEF LfType, mvars, pvars

(* The reads of the dequeue.                                               *)
LEMMA DeqReadStep ==
  ASSUME LfInv,
         DequeueStart \/ DeqReadTailCount \/ DeqReadTailPtr \/ DeqReadNextCount \/ DeqReadNextPtr
  PROVE  LfInv'
<1>1. LfType
  BY DEF LfInv
<1>2. PICK s \in Lists : ListOk(s) /\ DequeueOk(s) /\ \A q \in Producers : EnqueueOk(q, s)
  BY DEF LfInv
<1>3. /\ tail.ptr \in Ptr /\ tail.count \in Nat /\ tail.ptr \in Nodes /\ head.ptr \in Nodes
      /\ head \in Counted /\ dloc \in DeqLocal /\ out \in Values \cup {NULL}
      /\ next[head.ptr] \in Counted /\ next[head.ptr].ptr \in Ptr /\ next[head.ptr].count \in Nat
  BY <1>1, <1>2, TailFacts DEF LfType, Counted
<1>4. CASE DequeueStart
  <2> DEFINE l == [dloc EXCEPT !.head = head]
  <2>1. l \in DeqLocal /\ l.head = head
    BY <1>3 DEF DeqLocal
  <2>2. dloc' = l /\ dpc' = "tcount" /\ out' = out /\ UNCHANGED <<mvars, pvars, ops>>
    BY <1>4 DEF DequeueStart
  <2> HIDE DEF l
  <2>3. LfType'
    BY <1>1, <1>3, <2>1, <2>2, DeqTypes DEF DeqPcs
  <2>4. DequeueOk(s)'
    BY <2>1, <2>2 DEF DequeueOk, mvars
  <2> QED BY <1>2, <2>2, <2>3, <2>4, LocalDequeue
<1>5. CASE DeqReadTailCount
  <2>1. dloc' \in DeqLocal /\ dloc'.head = dloc.head
    BY <1>1, <1>3, <1>5, DeqLocals DEF DeqReadTailCount
  <2>2. dpc = "tcount" /\ dpc' = "tptr" /\ out' = out /\ UNCHANGED <<mvars, pvars, ops>>
    BY <1>5 DEF DeqReadTailCount
  <2>3. LfType'
    BY <1>1, <1>3, <2>1, <2>2, DeqTypes DEF DeqPcs
  <2>4. DequeueOk(s)'
    BY <1>2, <2>1, <2>2 DEF DequeueOk, mvars, DeqPcs
  <2> QED BY <1>2, <2>2, <2>3, <2>4, LocalDequeue
<1>6. CASE DeqReadTailPtr
  <2>1. dloc' \in DeqLocal /\ dloc'.head = dloc.head /\ dloc'.tail.ptr = tail.ptr
    BY <1>1, <1>3, <1>6, DeqLocals DEF DeqReadTailPtr
  <2>2. dpc = "tptr" /\ dpc' = "ncount" /\ out' = out /\ UNCHANGED <<mvars, pvars, ops>>
    BY <1>6 DEF DeqReadTailPtr
  <2>3. LfType'
    BY <1>1, <1>3, <2>1, <2>2, DeqTypes DEF DeqPcs
  <2>4. DequeueOk(s)'
    BY <1>2, <2>1, <2>2 DEF DequeueOk, mvars, DeqPcs
  <2> QED BY <1>2, <2>2, <2>3, <2>4, LocalDequeue
<1>7. CASE DeqReadNextCount
  <2>1. dpc = "ncount" /\ dpc' = "nptr" /\ out' = out /\ UNCHANGED <<mvars, pvars, ops>>
        /\ dloc.head.ptr = head.ptr
    BY <1>2, <1>7 DEF DeqReadNextCount, DequeueOk, DeqPcs
  <2>2. dloc' \in DeqLocal /\ dloc'.head = dloc.head /\ dloc'.tail = dloc.tail
    BY <1>1, <1>3, <1>7, <2>1, DeqLocals DEF DeqReadNextCount
  <2>3. LfType'
    BY <1>1, <1>3, <2>1, <2>2, DeqTypes DEF DeqPcs
  <2>4. DequeueOk(s)'
    BY <1>2, <2>1, <2>2 DEF DequeueOk, mvars, DeqPcs
  <2> QED BY <1>2, <2>1, <2>3, <2>4, LocalDequeue
<1>8. CASE DeqReadNextPtr
  <2> DEFINE x == next[head.ptr].ptr
             meet == dloc.head.ptr = dloc.tail.ptr
  <2>1. /\ dpc = "nptr" /\ UNCHANGED <<mvars, pvars, ops>>
        /\ dloc.head.ptr = head.ptr /\ (meet \/ tail.ptr # head.ptr)
    BY <1>2, <1>8 DEF DeqReadNextPtr, DequeueOk, DeqPcs
  <2>2. /\ dloc' = [dloc EXCEPT !.next.ptr = x]
        /\ dpc' = CASE meet /\ x = NULL -> "idle" [] meet /\ x # NULL -> "swing" [] OTHER -> "head"
        /\ out' = IF meet /\ x = NULL THEN NULL ELSE out
    BY <1>8, <2>1 DEF DeqReadNextPtr
  <2>3. dloc' \in DeqLocal /\ dloc'.head = dloc.head /\ dloc'.tail = dloc.tail /\ dloc'.next.ptr = x
    BY <1>1, <1>3, <2>2, DeqLocals
  <2>4. tail.ptr # head.ptr => x # NULL
    <3>1. ASSUME tail.ptr # head.ptr PROVE 1 \in 1..Len(s) - 1
      BY <1>2, <3>1, ListFacts DEF ListOk, IsList
    <3>2. ASSUME tail.ptr # head.ptr PROVE x \in Nodes
      BY <1>2, <3>1, <3>2, ListFacts DEF ListOk, IsList
    <3> QED BY <3>2, QueueAssumption
  <2> HIDE DEF x
  <2>5. /\ dpc' \in {"idle", "swing", "head"} /\ (dpc' = "swing" => meet /\ x # NULL)
        /\ (dpc' = "head" => ~meet)
    <3>1. CASE meet /\ x = NULL
      BY <2>2, <3>1
    <3>2. CASE meet /\ x # NULL
      BY <2>2, <3>2
    <3>3. CASE ~meet
      BY <2>2, <3>3
    <3> QED BY <3>1, <3>2, <3>3
  <2>6. out' \in Values \cup {NULL}
    BY <1>3, <2>2
  <2>7. LfType'
    BY <1>1, <2>1, <2>3, <2>5, <2>6, DeqTypes DEF DeqPcs
  <2>8. DequeueOk(s)'
    BY <1>2, <2>1, <2>3, <2>4, <2>5 DEF DequeueOk, mvars, DeqPcs, x
  <2> QED BY <1>2, <2>1, <2>7, <2>8, LocalDequeue
<1> QED BY <1>4, <1>5, <1>6, <1>7, <1>8

-----------------------------------------------------------------------------
(* Steps that write to shared memory.                                      *)

(* Storing a count moves no pointer.                                       *)
LEMMA SamePointers ==
  ASSUME LfType, NEW s \in Lists, ListOk(s), live' = live,
         \A n \in Nodes : next'[n].ptr = next[n].ptr, head'.ptr = head.ptr, tail'.ptr = tail.ptr
  PROVE  ListOk(s)' /\ \A x : NotBehindTail(s, x) => NotBehindTail(s, x)'
<1>1. \A i \in 1..Len(s) : s[i] \in Nodes
  BY ListFacts
<1>2. 1..Len(s) - 1 \subseteq 1..Len(s) /\ Len(s) \in 1..Len(s)
  BY ListFacts DEF ListOk, IsList
<1>3. IsList(s, head.ptr, next)'
  BY <1>1, <1>2 DEF ListOk, IsList
<1> QED BY <1>3 DEF ListOk, NotBehindTail

(* The stores of the counts by cas.                                        *)
LEMMA CountStep ==
  ASSUME OneProducer, LfInv,
         \/ \E p \in Producers : StoreNextCount(p) \/ StoreTailCount(p)
         \/ DeqStoreTailCount \/ DeqStoreHeadCount
  PROVE  LfInv'
<1>1. LfType
  BY DEF LfInv
<1>2. PICK s \in Lists : ListOk(s) /\ DequeueOk(s) /\ \A q \in Producers : EnqueueOk(q, s)
  BY DEF LfInv
<1>3. ASSUME NEW p \in Producers, StoreNextCount(p)
      PROVE  LfInv'
  <2> DEFINE n == ploc[p].tail.ptr
             k == ploc[p].next.count + 1
             c == [next[n] EXCEPT !.count = k]
  <2>1. n \in Nodes /\ k \in Nat /\ next \in [Nodes -> Counted] /\ next[n] \in Counted
    BY <1>1, <1>2, <1>3 DEF StoreNextCount, EnqueueOk, LfType, Counted, EnqLocal
  <2>2. c \in Counted /\ c.ptr = next[n].ptr
    <3> HIDE DEF n, k
    <3> QED BY <2>1, QueueAssumption, CountedFacts DEF Ptr
  <2>3. next' = [next EXCEPT ![n] = c]
    BY <1>3, Zenon DEF StoreNextCount
  <2> HIDE DEF n, k, c
  <2>4. next' \in [Nodes -> Counted] /\ \A m \in Nodes : next'[m].ptr = next[m].ptr
    BY <2>1, <2>2, <2>3
  <2>5. /\ ppc[p] = "lcount" /\ ppc' = [ppc EXCEPT ![p] = "idle"]
        /\ UNCHANGED <<live, value, head, tail, ploc, dvars, ops>>
    BY <1>3 DEF StoreNextCount, Goto
  <2>6. LfType' /\ ppc'[p] = "idle"
    BY <1>1, <2>4, <2>5 DEF LfType, dvars
  <2>7. ListOk(s)'
    BY <1>1, <1>2, <2>4, <2>5, SamePointers
  <2>8. \A q \in Producers : EnqueueOk(q, s)'
    BY <2>6 DEF OneProducer, EnqueueOk, EnqPcs
  <2>9. DequeueOk(s)'
    <3>1. next'[head.ptr].ptr = next[head.ptr].ptr
      BY <1>1, <1>2, <2>4, TailFacts
    <3> QED BY <1>2, <2>5, <2>6, <3>1 DEF DequeueOk, OneProducer, dvars, EnqPcs
  <2> QED BY <2>6, <2>7, <2>8, <2>9 DEF LfInv
<1>4. ASSUME NEW p \in Producers, StoreTailCount(p)
      PROVE  LfInv'
  <2> DEFINE k == ploc[p].tail.count + 2
  <2>1. k \in Nat /\ tail \in Counted /\ NULL \in Ptr
    BY <1>1 DEF LfType, Counted, EnqLocal, Ptr
  <2>2. /\ ppc[p] = "scount" /\ ppc' = [ppc EXCEPT ![p] = "tcount"] /\ tail' = [tail EXCEPT !.count = k]
        /\ UNCHANGED <<live, value, next, head, ploc, dvars, ops>>
    BY <1>4 DEF StoreTailCount, Goto
  <2> HIDE DEF k
  <2>3. tail' \in Counted /\ tail'.ptr = tail.ptr
    BY <2>1, <2>2, CountedFacts
  <2>4. LfType' /\ ppc'[p] = "tcount"
    BY <1>1, <2>2, <2>3 DEF LfType, dvars, EnqPcs
  <2>5. ListOk(s)'
    BY <1>1, <1>2, <2>2, <2>3, SamePointers
  <2>6. \A q \in Producers : EnqueueOk(q, s)'
    BY <1>2, <2>2, <2>4 DEF OneProducer, EnqueueOk, EnqPcs
  <2>7. DequeueOk(s)'
    BY <1>2, <2>2, <2>3, <2>4 DEF DequeueOk, OneProducer, dvars, EnqPcs
  <2> QED BY <2>4, <2>5, <2>6, <2>7 DEF LfInv
<1>5. CASE DeqStoreTailCount
  <2> DEFINE k == dloc.tail.count + 1
  <2>1. k \in Nat /\ tail \in Counted /\ NULL \in Ptr
    BY <1>1 DEF LfType, Counted, DeqLocal, Ptr
  <2>2. /\ dpc = "scount" /\ dpc' = "tcount" /\ tail' = [tail EXCEPT !.count = k]
        /\ UNCHANGED <<live, value, next, head, pvars, dloc, out, ops>>
    BY <1>5 DEF DeqStoreTailCount
  <2> HIDE DEF k
  <2>3. tail' \in Counted /\ tail'.ptr = tail.ptr
    BY <2>1, <2>2, CountedFacts
  <2>4. LfType'
    BY <1>1, <2>2, <2>3 DEF LfType, pvars, DeqPcs
  <2>5. ListOk(s)' /\ \A x : NotBehindTail(s, x) => NotBehindTail(s, x)'
    BY <1>1, <1>2, <2>2, <2>3, SamePointers
  <2>6. \A q \in Producers : EnqueueOk(q, s)'
    BY <1>2, <2>2, <2>3, <2>5 DEF EnqueueOk, pvars, NotBehindTail
  <2>7. DequeueOk(s)'
    BY <1>2, <2>2 DEF DequeueOk, DeqPcs
  <2> QED BY <2>4, <2>5, <2>6, <2>7 DEF LfInv
<1>6. CASE DeqStoreHeadCount
  <2> DEFINE k == dloc.head.count + 1
  <2>1. k \in Nat /\ head \in Counted /\ NULL \in Ptr
    BY <1>1 DEF LfType, Counted, DeqLocal, Ptr
  <2>2. /\ dpc = "hcount" /\ dpc' = "free" /\ head' = [head EXCEPT !.count = k]
        /\ UNCHANGED <<live, value, next, tail, pvars, dloc, out, ops>>
    BY <1>6 DEF DeqStoreHeadCount
  <2> HIDE DEF k
  <2>3. head' \in Counted /\ head'.ptr = head.ptr
    BY <2>1, <2>2, CountedFacts
  <2>4. LfType'
    BY <1>1, <2>2, <2>3 DEF LfType, pvars, DeqPcs
  <2>5. ListOk(s)'
    BY <1>1, <1>2, <2>2, <2>3, SamePointers
  <2>6. \A q \in Producers : EnqueueOk(q, s)'
    BY <1>2, <2>2 DEF EnqueueOk, pvars, NotBehindTail
  <2>7. DequeueOk(s)'
    BY <1>2, <2>2, <2>3 DEF DequeueOk, DeqPcs, pvars
  <2> QED BY <2>4, <2>5, <2>6, <2>7 DEF LfInv
<1> QED BY <1>3, <1>4, <1>5, <1>6

(* Moving the tail to the next node keeps the list, takes the tail off the *)
(* dummy node, and does not bring it to a node it has passed.              *)
LEMMA TailMoves ==
  ASSUME LfType, NEW s \in Lists, ListOk(s), UNCHANGED <<live, next, head>>,
         tail'.ptr = next[tail.ptr].ptr, tail'.ptr # NULL
  PROVE  /\ ListOk(s)' /\ tail'.ptr \in Nodes /\ tail'.ptr # head.ptr
         /\ \A x : NotBehindTail(s, x) => NotBehindTail(s, x)' /\ x # tail'.ptr
<1>1. PICK i \in 1..Len(s) : s[i] = tail.ptr
  BY DEF ListOk
<1>2. Len(s) \in Nat /\ i \in 1..Len(s) - 1 /\ s[i + 1] = tail'.ptr
  <2>1. Len(s) \in Nat
    BY ListFacts
  <2>2. i # Len(s)
    BY <1>1 DEF ListOk, IsList
  <2> QED BY <2>1, <2>2, <1>1 DEF ListOk, IsList
<1>3. i + 1 \in 1..Len(s) /\ i + 1 # 1 /\ 1 \in 1..Len(s) /\ s[1] = head.ptr
  BY <1>2 DEF ListOk, IsList
<1>4. \A j, k \in 1..Len(s) : s[j] = s[k] => j = k
  BY DEF ListOk
<1>5. ListOk(s)'
  BY <1>2, <1>3 DEF ListOk
<1>6. tail'.ptr \in Nodes /\ tail'.ptr # head.ptr
  BY <1>2, <1>3, <1>4, ListFacts
<1>7. ASSUME NEW x, NotBehindTail(s, x)
      PROVE  NotBehindTail(s, x)' /\ x # tail'.ptr
  <2>1. \A j \in 1..Len(s) : s[j] = x => j <= i
    BY <1>1, <1>7 DEF NotBehindTail
  <2>2. \A k \in 1..Len(s) : s[k] = tail'.ptr => k = i + 1
    BY <1>2, <1>3, <1>4
  <2> QED BY <1>2, <1>3, <2>1, <2>2 DEF NotBehindTail
<1> QED BY <1>5, <1>6, <1>7

(* The compare and swap of the tail by an enqueue and by the dequeue.      *)
LEMMA SwingStep ==
  ASSUME OneProducer, LfInv, (\E p \in Producers : SwingTail(p)) \/ DeqSwingTail
  PROVE  LfInv'
<1>1. LfType
  BY DEF LfInv
<1>2. PICK s \in Lists : ListOk(s) /\ DequeueOk(s) /\ \A q \in Producers : EnqueueOk(q, s)
  BY DEF LfInv
<1>3. tail \in Counted
  BY <1>1 DEF LfType
<1>4. ASSUME NEW p \in Producers, SwingTail(p)
      PROVE  LfInv'
  <2>1. /\ ppc[p] = "swing" /\ UNCHANGED <<live, value, next, head, ploc, dvars, ops>>
        /\ ppc \in [Producers -> EnqPcs \cup {"idle"}]
    BY <1>1, <1>4 DEF SwingTail, LfType
  <2>2. CASE tail.ptr # ploc[p].tail.ptr
    <3>1. ppc' = [ppc EXCEPT ![p] = "tcount"] /\ tail' = tail
      BY <1>4, <2>2 DEF SwingTail, Goto
    <3>2. LfType' /\ ppc'[p] = "tcount"
      BY <1>1, <2>1, <3>1 DEF LfType, EnqPcs, dvars
    <3>3. EnqueueOk(p, s)'
      BY <1>2, <2>1, <3>2 DEF EnqueueOk, EnqPcs
    <3> QED BY <1>2, <2>1, <3>1, <3>2, <3>3, LocalEnqueue DEF mvars, EnqPcs
  <2>3. CASE tail.ptr = ploc[p].tail.ptr
    <3> DEFINE x == ploc[p].next.ptr
    <3>1. x = next[tail.ptr].ptr /\ x # NULL /\ x \in Ptr /\ 0 \in Nat
      BY <1>1, <1>2, <2>1, <2>3 DEF EnqueueOk, LfType, EnqLocal, Counted
    <3>2. ppc' = [ppc EXCEPT ![p] = "scount"] /\ tail' = [tail EXCEPT !.ptr = x]
      BY <1>4, <2>3 DEF SwingTail, Goto
    <3> HIDE DEF x
    <3>3. tail' \in Counted /\ tail'.ptr = x
      BY <1>3, <3>1, <3>2, CountedFacts
    <3>4. LfType' /\ ppc'[p] = "scount"
      BY <1>1, <2>1, <3>2, <3>3 DEF LfType, EnqPcs, dvars
    <3>5. ListOk(s)' /\ tail'.ptr # head.ptr
      BY <1>1, <1>2, <2>1, <3>1, <3>3, TailMoves
    <3>6. \A q \in Producers : EnqueueOk(q, s)'
      BY <1>2, <2>1, <3>4 DEF EnqueueOk, EnqPcs, OneProducer
    <3>7. DequeueOk(s)'
      BY <1>2, <2>1, <3>4, <3>5 DEF DequeueOk, dvars, OneProducer, EnqPcs
    <3> QED BY <3>4, <3>5, <3>6, <3>7 DEF LfInv
  <2> QED BY <2>2, <2>3
<1>5. CASE DeqSwingTail
  <2>1. /\ dpc = "swing" /\ UNCHANGED <<live, value, next, head, pvars, dloc, out, ops>>
        /\ dloc.head.ptr = head.ptr /\ dloc.tail.ptr = head.ptr
        /\ dloc.next.ptr = next[head.ptr].ptr /\ dloc.next.ptr # NULL
    BY <1>2, <1>5 DEF DeqSwingTail, DequeueOk, DeqPcs
  <2>2. CASE tail.ptr # dloc.tail.ptr
    <3>1. dpc' = "tcount" /\ tail' = tail
      BY <1>5, <2>2 DEF DeqSwingTail
    <3>2. LfType'
      BY <1>1, <2>1, <3>1 DEF LfType, DeqPcs, pvars
    <3>3. DequeueOk(s)'
      BY <2>1, <3>1 DEF DequeueOk
    <3> QED BY <1>2, <2>1, <3>1, <3>2, <3>3, LocalDequeue DEF mvars
  <2>3. CASE tail.ptr = dloc.tail.ptr
    <3> DEFINE x == dloc.next.ptr
    <3>1. x = next[tail.ptr].ptr /\ x # NULL /\ x \in Ptr /\ 0 \in Nat
      BY <1>1, <2>1, <2>3 DEF LfType, DeqLocal, Counted
    <3>2. dpc' = "scount" /\ tail' = [tail EXCEPT !.ptr = x]
      BY <1>5, <2>3 DEF DeqSwingTail
    <3> HIDE DEF x
    <3>3. tail' \in Counted /\ tail'.ptr = x
      BY <1>3, <3>1, <3>2, CountedFacts
    <3>4. LfType'
      BY <1>1, <2>1, <3>2, <3>3 DEF LfType, DeqPcs, pvars
    <3>5. /\ ListOk(s)'
          /\ \A y : NotBehindTail(s, y) => NotBehindTail(s, y)' /\ y # tail'.ptr
      BY <1>1, <1>2, <2>1, <3>1, <3>3, TailMoves
    <3>6. ASSUME NEW q \in Producers PROVE EnqueueOk(q, s)'
      <4>1. ppc' = ppc /\ ploc' = ploc
        BY <2>1 DEF pvars
      <4>2. ppc[q] # "link"
        BY <1>2, <3>1 DEF EnqueueOk
      <4>3. ppc[q] \in {"nptr", "ncount", "ckcount", "ckptr", "link", "swing"} =>
               NotBehindTail(s, ploc[q].tail.ptr)' /\ ploc[q].tail.ptr # tail'.ptr
        <5>1. ppc[q] \in {"nptr", "ncount", "ckcount", "ckptr", "link", "swing"} =>
                 NotBehindTail(s, ploc[q].tail.ptr)
          BY <1>2 DEF EnqueueOk
        <5> DEFINE y == ploc[q].tail.ptr
        <5>2. y' = y
          BY <4>1
        <5> QED BY <3>5, <4>1, <5>1 DEF NotBehindTail
      <4> QED BY <1>2, <2>1, <4>1, <4>2, <4>3 DEF EnqueueOk
    <3>7. DequeueOk(s)'
      BY <2>1, <3>2 DEF DequeueOk
    <3> QED BY <3>4, <3>5, <3>6, <3>7 DEF LfInv
  <2> QED BY <2>2, <2>3
<1> QED BY <1>4, <1>5

(* Taking a node with calloc touches nothing that is in the list.          *)
LEMMA StartStep ==
  ASSUME OneProducer, LfInv, NEW p \in Producers, NEW v \in Values, EnqueueStart(p, v)
  PROVE  LfInv'
<1>1. LfType
  BY DEF LfInv
<1>2. PICK s \in Lists : ListOk(s) /\ DequeueOk(s) /\ \A q \in Producers : EnqueueOk(q, s)
  BY DEF LfInv
<1>3. PICK n \in Nodes \ live :
        /\ live' = live \cup {n} /\ value' = [value EXCEPT ![n] = v]
        /\ next' = [next EXCEPT ![n] = Nil] /\ ploc' = [ploc EXCEPT ![p].node = n]
  BY DEF EnqueueStart
<1>4. /\ ppc[p] = "idle" /\ ppc' = [ppc EXCEPT ![p] = "tcount"]
      /\ ops' = ops + 1 /\ UNCHANGED <<head, tail, dvars>>
  BY DEF EnqueueStart, Goto
<1>5. Nil \in Counted /\ Nil.ptr = NULL /\ n \in Ptr /\ 0 \in Nat
  BY DEF Nil, Counted, Ptr
<1>6. ploc' \in [Producers -> EnqLocal] /\ ploc'[p].node = n
  BY <1>1, <1>3, <1>5, EnqLocals
<1>7. LfType' /\ ppc'[p] = "tcount"
  BY <1>1, <1>3, <1>4, <1>5, <1>6 DEF LfType, dvars, EnqPcs
<1>8. /\ \A m \in Nodes : m \in live => next'[m] = next[m]
      /\ next'[n].ptr = NULL /\ value'[n] = v
  BY <1>1, <1>3, <1>5 DEF LfType
<1>9. /\ \A i \in 1..Len(s) : s[i] \in Nodes /\ s[i] \in live /\ s[i] # n
      /\ 1..Len(s) - 1 \subseteq 1..Len(s) /\ Len(s) \in 1..Len(s)
  BY <1>2, ListFacts DEF ListOk, IsList
<1>10. ListOk(s)'
  <2>1. IsList(s, head.ptr, next)'
    BY <1>2, <1>4, <1>8, <1>9 DEF ListOk, IsList
  <2> QED BY <1>2, <1>3, <1>4, <2>1 DEF ListOk
<1>11. \A q \in Producers : EnqueueOk(q, s)'
  BY <1>3, <1>6, <1>7, <1>8, <1>9 DEF EnqueueOk, OneProducer
<1>12. DequeueOk(s)'
  <2>1. next'[head.ptr] = next[head.ptr] /\ dpc' = dpc /\ dloc' = dloc
    BY <1>1, <1>2, <1>4, <1>8, TailFacts DEF dvars
  <2> QED BY <1>2, <1>3, <1>4, <1>6, <1>7, <2>1 DEF DequeueOk, OneProducer
<1> QED BY <1>7, <1>10, <1>11, <1>12 DEF LfInv

(* "It is now safe to free the old dummy node"                             *)
LEMMA FreeStep ==
  ASSUME LfInv, DeqFree PROVE LfInv'
<1>1. LfType
  BY DEF LfInv
<1>2. PICK s \in Lists : ListOk(s) /\ DequeueOk(s) /\ \A q \in Producers : EnqueueOk(q, s)
  BY DEF LfInv
<1>3. /\ dpc = "free" /\ dpc' = "idle" /\ live' = live \ {dloc.head.ptr}
      /\ UNCHANGED <<value, next, head, tail, pvars, dloc, out, ops>>
  BY DEF DeqFree
<1>4. LfType'
  BY <1>1, <1>3 DEF LfType, pvars
<1>5. /\ \A i \in 1..Len(s) : s[i] # dloc.head.ptr
      /\ \A p \in Producers : ppc[p] \in EnqPcs \ {"lcount"} => ploc[p].node # dloc.head.ptr
  BY <1>2, <1>3 DEF DequeueOk
<1>6. ListOk(s)'
  BY <1>2, <1>3, <1>5 DEF ListOk
<1>7. \A q \in Producers : EnqueueOk(q, s)'
  BY <1>2, <1>3, <1>5 DEF EnqueueOk, NotBehindTail, pvars
<1>8. DequeueOk(s)'
  BY <1>3 DEF DequeueOk, DeqPcs
<1> QED BY <1>4, <1>6, <1>7, <1>8 DEF LfInv

(* A sequence of nodes that is short enough is a list.                     *)
LEMMA ListsAre ==
  ASSUME NEW t \in Seq(Nodes)
  PROVE  /\ Len(t) \in Nat /\ t \in [1..Len(t) -> Nodes]
         /\ Len(t) <= Cardinality(Nodes) => t \in Lists
<1>1. Len(t) \in Nat /\ t \in [1..Len(t) -> Nodes]
  OBVIOUS
<1>2. Cardinality(Nodes) \in Nat
  BY QueueAssumption, FS_CardinalityType
<1> DEFINE m == Len(t)
<1>3. m <= Cardinality(Nodes) => m \in 0..Cardinality(Nodes)
  BY <1>1, <1>2
<1> HIDE DEF m
<1>4. m <= Cardinality(Nodes) => \E k \in 0..Cardinality(Nodes) : t \in [1..k -> Nodes]
  BY <1>1, <1>3 DEF m
<1> QED BY <1>1, <1>4 DEF Lists, BoundedSeq, SeqOf, m

(* The list has room for a node that is not in it yet.                     *)
LEMMA AppendFacts ==
  ASSUME NEW s \in Lists, NEW n \in Nodes, \A i \in 1..Len(s) : s[i] # n,
         \A i, j \in 1..Len(s) : s[i] = s[j] => i = j
  PROVE  LET t == Append(s, n) IN
         /\ t \in Lists /\ Len(t) = Len(s) + 1 /\ t[Len(s) + 1] = n
         /\ \A i \in 1..Len(s) : t[i] = s[i]
         /\ \A i, j \in 1..Len(t) : t[i] = t[j] => i = j
<1> DEFINE t == Append(s, n)
<1>1. Len(s) \in Nat /\ s \in Seq(Nodes)
  BY ListFacts
<1>2. /\ t \in Seq(Nodes) /\ Len(t) = Len(s) + 1 /\ t[Len(s) + 1] = n
      /\ \A i \in 1..Len(s) : t[i] = s[i]
  BY <1>1, AppendProperties
<1> HIDE DEF t
<1>3. \A i, j \in 1..Len(t) : t[i] = t[j] => i = j
  BY <1>1, <1>2
<1>4. Len(t) <= Cardinality(Nodes) /\ Cardinality(Nodes) \in Nat
  <2> DEFINE m == Len(t)
  <2>1. m \in Nat /\ t \in [1..m -> Nodes]
    BY <1>2, ListsAre
  <2>2. t \in Injection(1..m, Nodes)
    BY <1>3, <2>1 DEF Injection, IsInjective
  <2>3. Cardinality(1..m) <= Cardinality(Nodes)
    BY <2>2, QueueAssumption, FS_Injection
  <2> HIDE DEF m
  <2>4. Cardinality(1..m) = m
    BY <2>1, FS_Interval
  <2> QED BY <2>3, <2>4, QueueAssumption, FS_CardinalityType DEF m
<1>5. t \in Lists
  BY <1>2, <1>4, ListsAre
<1> QED BY <1>2, <1>3, <1>5 DEF t

(* Linking a node behind the tail appends it to the list.                  *)
LEMMA ListGrows ==
  ASSUME LfType, NEW s \in Lists, ListOk(s), NEW n \in live, \A i \in 1..Len(s) : s[i] # n,
         next[n].ptr = NULL, next[tail.ptr].ptr = NULL,
         next' = [next EXCEPT ![tail.ptr].ptr = n], UNCHANGED <<live, head, tail>>
  PROVE  Append(s, n) \in Lists /\ ListOk(Append(s, n))' /\ next' \in [Nodes -> Counted]
<1> DEFINE t == Append(s, n)
           c == [next[tail.ptr] EXCEPT !.ptr = n]
<1>1. n \in Nodes /\ tail.ptr \in Nodes /\ next[tail.ptr] \in Counted /\ next \in [Nodes -> Counted]
  BY TailFacts DEF LfType
<1>2. c \in Counted /\ c.ptr = n
  BY <1>1 DEF Counted, Ptr
<1>3. next' = [next EXCEPT ![tail.ptr] = c]
  BY Zenon
<1> HIDE DEF c
<1>4. /\ next' \in [Nodes -> Counted] /\ next'[tail.ptr].ptr = n
      /\ \A m \in Nodes : m # tail.ptr => next'[m] = next[m]
  BY <1>1, <1>2, <1>3
<1>5. \A i, j \in 1..Len(s) : s[i] = s[j] => i = j
  BY DEF ListOk
<1>6. /\ t \in Lists /\ Len(t) = Len(s) + 1 /\ t[Len(s) + 1] = n
      /\ \A i \in 1..Len(s) : t[i] = s[i]
      /\ \A i, j \in 1..Len(t) : t[i] = t[j] => i = j
  BY <1>1, <1>5, AppendFacts, Zenon
<1>7. Len(s) \in Nat /\ s \in [1..Len(s) -> Nodes] /\ s # <<>>
  BY ListFacts DEF ListOk, IsList
<1>8. s[Len(s)] = tail.ptr /\ Len(s) \in 1..Len(s)
  <2>1. PICK i \in 1..Len(s) : s[i] = tail.ptr
    BY DEF ListOk
  <2>2. i \notin 1..Len(s) - 1
    <3> SUFFICES ASSUME i \in 1..Len(s) - 1 PROVE FALSE
      OBVIOUS
    <3>1. s[i + 1] = NULL /\ i + 1 \in 1..Len(s)
      BY <1>7, <2>1 DEF ListOk, IsList
    <3> QED BY <1>7, <3>1, QueueAssumption
  <2> QED BY <1>7, <2>1, <2>2
<1> HIDE DEF t
<1>9. IsList(t, head.ptr, next)'
  <2>1. \A i \in 1..Len(s) - 1 : next'[s[i]].ptr = s[i + 1] /\ i + 1 \in 1..Len(s)
    <3> SUFFICES ASSUME NEW i \in 1..Len(s) - 1
                 PROVE  next'[s[i]].ptr = s[i + 1] /\ i + 1 \in 1..Len(s)
      OBVIOUS
    <3>1. i \in 1..Len(s) /\ i # Len(s) /\ i + 1 \in 1..Len(s)
      BY <1>7
    <3>2. s[i] # tail.ptr /\ s[i] \in Nodes
      BY <1>5, <1>7, <1>8, <3>1
    <3>3. next[s[i]].ptr = s[i + 1]
      BY DEF ListOk, IsList
    <3> QED BY <1>4, <3>1, <3>2, <3>3
  <2>2. next'[n].ptr = NULL
    BY <1>1, <1>4, <1>8
  <2>3. \A i \in 1..Len(t) - 1 : next'[t[i]].ptr = t[i + 1]
    <3> SUFFICES ASSUME NEW i \in 1..Len(t) - 1 PROVE next'[t[i]].ptr = t[i + 1]
      OBVIOUS
    <3>1. i \in 1..Len(s)
      BY <1>6, <1>7
    <3>2. CASE i = Len(s)
      BY <1>4, <1>6, <1>8, <3>1, <3>2
    <3>3. CASE i # Len(s)
      <4>1. i \in 1..Len(s) - 1
        BY <1>7, <3>1, <3>3
      <4> QED BY <1>6, <2>1, <3>1, <4>1
    <3> QED BY <3>2, <3>3
  <2>4. t # <<>> /\ t[1] = head.ptr /\ t[Len(t)] = n
    <3>1. s[1] = head.ptr /\ 1 \in 1..Len(s)
      BY <1>7 DEF ListOk, IsList
    <3> QED BY <1>6, <1>7, <3>1
  <2> QED BY <2>2, <2>3, <2>4 DEF IsList
<1>10. \A i \in 1..Len(t) : t[i] \in live
  BY <1>6, <1>7 DEF ListOk
<1>11. \E i \in 1..Len(t) : t[i] = tail.ptr
  BY <1>6, <1>7, <1>8
<1> QED BY <1>4, <1>6, <1>9, <1>10, <1>11 DEF ListOk, t

(* The compare and swap that links the new node.                           *)
LEMMA LinkStep ==
  ASSUME OneProducer, LfInv, NEW p \in Producers, LinkNode(p)
  PROVE  LfInv'
<1>1. LfType
  BY DEF LfInv
<1>2. PICK s \in Lists : ListOk(s) /\ DequeueOk(s) /\ \A q \in Producers : EnqueueOk(q, s)
  BY DEF LfInv
<1>0. PICK n : n = ploc[p].node
  OBVIOUS
<1> DEFINE t == Append(s, n)
<1>3. /\ ppc[p] = "link" /\ UNCHANGED <<live, value, head, tail, ploc, dvars, ops>>
  BY DEF LinkNode
<1>4. /\ ploc[p].tail.ptr = tail.ptr /\ next[tail.ptr].ptr = NULL /\ n \in live
      /\ next[n].ptr = NULL /\ \A i \in 1..Len(s) : s[i] # n
  BY <1>0, <1>2, <1>3 DEF EnqueueOk, EnqPcs
<1>5. tail.ptr \in live /\ head.ptr \in Nodes
  BY <1>1, <1>2, TailFacts
<1>6. ReadPtr(tail.ptr) = {NULL}
  BY <1>4, <1>5 DEF ReadPtr
<1>7. next' = [next EXCEPT ![tail.ptr].ptr = n] /\ ppc' = [ppc EXCEPT ![p] = "lcount"]
  BY <1>0, <1>4, <1>6 DEF LinkNode, Goto
<1>8. t \in Lists /\ ListOk(t)' /\ next' \in [Nodes -> Counted]
  BY <1>1, <1>2, <1>3, <1>4, <1>7, ListGrows
<1>9. LfType' /\ ppc'[p] = "lcount"
  BY <1>1, <1>3, <1>7, <1>8 DEF LfType, EnqPcs, dvars
<1>10. \A q \in Producers : EnqueueOk(q, t)'
  <2>1. tail.ptr \in Nodes
    BY <1>1, <1>2, TailFacts
  <2> HIDE DEF t
  <2> QED BY <1>3, <1>4, <1>9, <2>1 DEF EnqueueOk, OneProducer
<1>11. DequeueOk(t)'
  <2>1. dpc' = dpc /\ dloc' = dloc
    BY <1>3 DEF dvars
  <2>2. dpc \in {"swing", "head"} => next'[head.ptr].ptr = next[head.ptr].ptr
    <3>1. dpc \in {"swing", "head"} => head.ptr # tail.ptr
      BY <1>2, <1>4 DEF DequeueOk
    <3>2. head.ptr # tail.ptr => next'[head.ptr] = next[head.ptr]
      BY <1>1, <1>5, <1>7 DEF LfType
    <3> QED BY <3>1, <3>2
  <2>3. dpc \in {"hcount", "free"} => \A i \in 1..Len(t) : t[i] # dloc.head.ptr
    <3>1. dpc \in {"hcount", "free"} =>
             n # dloc.head.ptr /\ \A i \in 1..Len(s) : s[i] # dloc.head.ptr
      BY <1>0, <1>2, <1>3 DEF DequeueOk, EnqPcs
    <3>2. /\ Len(s) \in Nat /\ Len(t) = Len(s) + 1 /\ t[Len(s) + 1] = n
          /\ \A i \in 1..Len(s) : t[i] = s[i]
      <4>1. n \in Nodes
        BY <1>1, <1>4 DEF LfType
      <4> QED BY <4>1, ListFacts, AppendProperties
    <3> HIDE DEF t
    <3> QED BY <3>1, <3>2
  <2> HIDE DEF t
  <2>4. dpc \in {"hcount", "free"} => \A q \in Producers : ppc'[q] = "lcount"
    BY <1>9 DEF OneProducer
  <2> QED BY <1>2, <1>3, <2>1, <2>2, <2>3, <2>4 DEF DequeueOk, EnqPcs
<1> QED BY <1>8, <1>9, <1>10, <1>11 DEF LfInv

(* Swinging the head to the second node of the list leaves its tail.       *)
LEMMA ListShrinks ==
  ASSUME LfType, NEW s \in Lists, ListOk(s), tail.ptr # head.ptr, UNCHANGED <<live, next, tail>>,
         head'.ptr = next[head.ptr].ptr
  PROVE  /\ Tail(s) \in Lists /\ ListOk(Tail(s))'
         /\ \A i \in 1..Len(Tail(s)) : Tail(s)[i] # head.ptr
         /\ \A x : NotBehindTail(s, x) => NotBehindTail(Tail(s), x)'
         /\ Len(s) >= 2 /\ s[2] = next[head.ptr].ptr
<1> DEFINE t == Tail(s)
<1>1. Len(s) \in Nat /\ s \in Seq(Nodes) /\ s \in [1..Len(s) -> Nodes] /\ Len(s) <= Cardinality(Nodes)
  BY ListFacts
<1>2. Cardinality(Nodes) \in Nat
  BY QueueAssumption, FS_CardinalityType
<1>3. s # <<>> /\ s[1] = head.ptr
  BY DEF ListOk, IsList
<1>4. PICK k \in 1..Len(s) : s[k] = tail.ptr
  BY DEF ListOk
<1>5. Len(s) >= 2 /\ k >= 2
  BY <1>1, <1>3, <1>4
<1>6. /\ t \in Seq(Nodes) /\ Len(t) = Len(s) - 1
      /\ \A i \in 1..Len(t) : t[i] = s[i + 1]
  BY <1>1, <1>3
<1>7. t \in Lists
  <2>1. Len(t) <= Cardinality(Nodes)
    BY <1>1, <1>2, <1>6
  <2> QED BY <1>6, <2>1, ListsAre
<1>8. s[2] = next[head.ptr].ptr
  <2>1. 1 \in 1..Len(s) - 1
    BY <1>1, <1>5
  <2> QED BY <1>3, <2>1 DEF ListOk, IsList
<1> HIDE DEF t
<1>9. IsList(t, head.ptr, next)'
  <2>1. t[1] = head'.ptr /\ t # <<>>
    BY <1>1, <1>5, <1>6, <1>8
  <2>2. \A i \in 1..Len(t) - 1 : next[t[i]].ptr = t[i + 1]
    <3> SUFFICES ASSUME NEW i \in 1..Len(t) - 1 PROVE next[t[i]].ptr = t[i + 1]
      OBVIOUS
    <3>1. i + 1 \in 1..Len(s) - 1 /\ i \in 1..Len(t) /\ i + 1 \in 1..Len(t)
      BY <1>1, <1>6
    <3>2. next[s[i + 1]].ptr = s[(i + 1) + 1]
      BY <3>1 DEF ListOk, IsList
    <3> QED BY <1>6, <3>1, <3>2
  <2>3. t[Len(t)] = s[Len(s)]
    BY <1>1, <1>5, <1>6
  <2> QED BY <2>1, <2>2, <2>3 DEF IsList, ListOk
<1>10. \A i \in 1..Len(t) : i + 1 \in 1..Len(s)
  BY <1>1, <1>6
<1>11. /\ \A i \in 1..Len(t) : t[i] \in live
       /\ \A i, j \in 1..Len(t) : t[i] = t[j] => i = j
  <2>1. \A i, j \in 1..Len(t) : i \in Int /\ j \in Int
    BY <1>1, <1>6
  <2> QED BY <1>6, <1>10, <2>1 DEF ListOk
<1>12. k - 1 \in 1..Len(t) /\ t[k - 1] = tail.ptr
  BY <1>1, <1>4, <1>5, <1>6
<1>13. ListOk(t)'
  BY <1>9, <1>11, <1>12 DEF ListOk
<1>14. \A i \in 1..Len(t) : t[i] # head.ptr
  <2>1. \A i, j \in 1..Len(s) : s[i] = s[j] => i = j
    BY DEF ListOk
  <2>2. 1 \in 1..Len(s) /\ \A i \in 1..Len(t) : i + 1 # 1
    BY <1>1, <1>5, <1>6
  <2> QED BY <1>3, <1>6, <1>10, <2>1, <2>2
<1>15. ASSUME NEW x, NotBehindTail(s, x) PROVE NotBehindTail(t, x)'
  <2> SUFFICES ASSUME NEW i \in 1..Len(t), NEW j \in 1..Len(t), t[i] = tail.ptr, t[j] = x
               PROVE  j <= i
    BY DEF NotBehindTail
  <2>1. j + 1 <= i + 1
    BY <1>6, <1>10, <1>15 DEF NotBehindTail
  <2> QED BY <1>1, <1>6, <2>1
<1> QED BY <1>5, <1>7, <1>8, <1>13, <1>14, <1>15 DEF t

(* The dequeue takes the second node for its dummy node.                   *)
LEMMA HeadStep ==
  ASSUME LfInv, DeqSwingHead PROVE LfInv'
<1>1. LfType
  BY DEF LfInv
<1>2. PICK s \in Lists : ListOk(s) /\ DequeueOk(s) /\ \A q \in Producers : EnqueueOk(q, s)
  BY DEF LfInv
<1> DEFINE x == dloc.next.ptr
           t == Tail(s)
<1>3. /\ dpc = "head" /\ dpc' = "hcount" /\ head' = [head EXCEPT !.ptr = x] /\ out' = value[x]
      /\ UNCHANGED <<live, value, next, tail, pvars, dloc, ops>>
  BY DEF DeqSwingHead
<1>4. /\ dloc.head.ptr = head.ptr /\ tail.ptr # head.ptr /\ x = next[head.ptr].ptr /\ x # NULL
      /\ x \in Ptr /\ 0 \in Nat /\ head \in Counted /\ x \in Nodes
  BY <1>1, <1>2, <1>3 DEF DequeueOk, DeqPcs, LfType, DeqLocal, Counted, Ptr
<1> HIDE DEF x
<1>5. head' \in Counted /\ head'.ptr = x
  BY <1>3, <1>4, CountedFacts
<1>6. LfType'
  BY <1>1, <1>3, <1>4, <1>5 DEF LfType, DeqPcs, pvars
<1>7. /\ t \in Lists /\ ListOk(t)' /\ \A i \in 1..Len(t) : t[i] # head.ptr
      /\ \A y : NotBehindTail(s, y) => NotBehindTail(t, y)'
  BY <1>1, <1>2, <1>3, <1>4, <1>5, ListShrinks
<1>8. /\ Len(s) \in Nat /\ s # <<>> /\ s[1] = head.ptr /\ head.ptr \in live
      /\ \A i \in 1..Len(t) : \E j \in 1..Len(s) : t[i] = s[j]
  <2>1. Len(s) \in Nat /\ s \in Seq(Nodes) /\ s # <<>>
    BY <1>2, ListFacts DEF ListOk, IsList
  <2>2. Len(t) = Len(s) - 1 /\ \A i \in 1..Len(t) : t[i] = s[i + 1] /\ i + 1 \in 1..Len(s)
    BY <2>1
  <2> QED BY <1>1, <1>2, <2>1, <2>2, TailFacts
<1> HIDE DEF t
<1>9. ASSUME NEW q \in Producers PROVE EnqueueOk(q, t)'
  <2>1. ppc' = ppc /\ ploc' = ploc
    BY <1>3 DEF pvars
  <2>2. ppc[q] \in {"nptr", "ncount", "ckcount", "ckptr", "link", "swing"} =>
           NotBehindTail(t, ploc[q].tail.ptr)'
    <3>1. ppc[q] \in {"nptr", "ncount", "ckcount", "ckptr", "link", "swing"} =>
             NotBehindTail(s, ploc[q].tail.ptr)
      BY <1>2 DEF EnqueueOk
    <3> QED BY <1>7, <2>1, <3>1 DEF NotBehindTail
  <2>3. ppc[q] \in EnqPcs \ {"lcount"} => \A i \in 1..Len(t) : t[i] # ploc[q].node
    BY <1>2, <1>8 DEF EnqueueOk
  <2> QED BY <1>2, <1>3, <2>1, <2>2, <2>3 DEF EnqueueOk
<1>10. DequeueOk(t)'
  <2>1. \A q \in Producers : ppc[q] \in EnqPcs \ {"lcount"} => ploc[q].node # head.ptr
    <3>1. 1 \in 1..Len(s)
      BY <1>8
    <3> QED BY <1>2, <1>8, <3>1 DEF EnqueueOk
  <2> QED BY <1>3, <1>4, <1>7, <1>8, <2>1 DEF DequeueOk, pvars
<1> QED BY <1>6, <1>7, <1>9, <1>10 DEF LfInv

-----------------------------------------------------------------------------
(* LfInv holds of the queue that _st_lock_free_queue_open makes.           *)
LEMMA OpenInv == Init => LfInv
<1> SUFFICES ASSUME Init PROVE LfInv
  OBVIOUS
<1>1. PICK n \in Nodes : live = {n} /\ head = [ptr |-> n, count |-> 0] /\ tail = [ptr |-> n, count |-> 0]
  BY DEF Init, _st_lock_free_queue_open
<1>2. Nil \in Counted /\ Nil.ptr = NULL /\ NULL \in Ptr /\ head \in Counted /\ tail \in Counted
  BY <1>1 DEF Nil, Counted, Ptr
<1>3. /\ [node |-> NULL, tail |-> Nil, next |-> Nil] \in EnqLocal
      /\ [head |-> Nil, tail |-> Nil, next |-> Nil] \in DeqLocal
  BY <1>2 DEF EnqLocal, DeqLocal
<1>4. LfType
  BY <1>1, <1>2, <1>3 DEF Init, LfType
<1> DEFINE s == <<n>>
<1>5. s \in Seq(Nodes) /\ Len(s) = 1 /\ s[1] = n
  OBVIOUS
<1> HIDE DEF s
<1>6. s \in Lists
  <2>1. Cardinality(Nodes) \in Nat /\ Cardinality(Nodes) # 0
    BY <1>1, QueueAssumption, FS_CardinalityType, FS_EmptySet
  <2> DEFINE c == Cardinality(Nodes)
  <2>2. c \in Nat /\ c # 0
    BY <2>1
  <2> HIDE DEF c
  <2>3. 1 <= c
    BY <2>2
  <2> QED BY <1>5, <2>3, ListsAre DEF c
<1>7. ListOk(s)
  <2>1. next[n].ptr = NULL /\ head.ptr = n /\ tail.ptr = n /\ live = {n}
    BY <1>1, <1>2 DEF Init
  <2>2. 1..Len(s) = {1} /\ 1..Len(s) - 1 = {} /\ s # <<>>
    BY <1>5
  <2> QED BY <1>5, <2>1, <2>2 DEF ListOk, IsList
<1>8. DequeueOk(s) /\ \A p \in Producers : EnqueueOk(p, s)
  BY DEF Init, DequeueOk, EnqueueOk, EnqPcs, DeqPcs
<1> QED BY <1>4, <1>6, <1>7, <1>8 DEF LfInv

(* LfInv is inductive as long as there is one producer.                    *)
THEOREM QueueInductive == ASSUME OneProducer PROVE Spec => []LfInv
<1>1. LfInv /\ [Next]_vars => LfInv'
  <2> SUFFICES ASSUME LfInv, [Next]_vars PROVE LfInv'
    OBVIOUS
  <2>1. CASE UNCHANGED vars
    <3>1. UNCHANGED <<mvars, pvars, dvars, ops>>
      BY <2>1 DEF vars
    <3>2. LfType'
      BY <3>1 DEF LfInv, LfType, mvars, pvars, dvars
    <3>3. PICK s \in Lists : ListOk(s) /\ DequeueOk(s) /\ \A q \in Producers : EnqueueOk(q, s)
      BY DEF LfInv
    <3>4. DequeueOk(s)'
      BY <3>1, <3>3 DEF DequeueOk, mvars, pvars, dvars
    <3> QED BY <3>1, <3>2, <3>3, <3>4, LocalDequeue
  <2>2. CASE Next
    BY <2>2, StartStep, ReadStep, CheckStep, LinkStep, SwingStep, CountStep, DeqReadStep,
       HeadStep, FreeStep DEF Next, EnqueueStep, DequeueStep
  <2> QED BY <2>1, <2>2
<1> QED BY <1>1, OpenInv, PTL DEF Spec

(* With one producer no enqueue compares and swaps in a freed node, for any *)
(* number of nodes and calls: the reads of a freed tail that the code makes *)
(* are always found out before (_st_lock_free_enqueue).                    *)
THEOREM CasOnLiveNodes == ASSUME OneProducer PROVE Spec => []NoCasOnFreed
<1>1. LfInv => NoCasOnFreed
  <2> SUFFICES ASSUME LfInv, NEW p \in Producers, ppc[p] = "link"
               PROVE  ploc[p].tail.ptr \in live
    BY DEF NoCasOnFreed
  <2>1. PICK s \in Lists : ListOk(s) /\ EnqueueOk(p, s)
    BY DEF LfInv
  <2>2. tail.ptr \in live
    BY <2>1, TailFacts DEF LfInv
  <2> QED BY <2>1, <2>2 DEF EnqueueOk
<1> QED BY <1>1, QueueInductive, PTL

-----------------------------------------------------------------------------
(* The queue implements Fifo.                                              *)

(* The order in which a least place is taken.                              *)
Less == {ss \in Nat \X Nat : ss[1] < ss[2]}

(* Two lists from the same node are the same list.                         *)
LEMMA OneList ==
  ASSUME NEW s \in Lists, NEW u \in Lists, NEW h, NEW nx, IsList(s, h, nx), IsList(u, h, nx)
  PROVE  s = u
<1>1. /\ Len(s) \in Nat /\ s \in [1..Len(s) -> Nodes] /\ s # <<>> /\ s \in Seq(Nodes)
      /\ Len(u) \in Nat /\ u \in [1..Len(u) -> Nodes] /\ u # <<>> /\ u \in Seq(Nodes)
  BY ListFacts DEF IsList
<1> DEFINE D == {i \in Nat : i \in 1..Len(s) /\ i \in 1..Len(u) /\ s[i] # u[i]}
<1>2. D = {}
  <2> SUFFICES ASSUME D # {} PROVE FALSE
    OBVIOUS
  <2>1. IsWellFoundedOn(Less, Nat)
    <3>1. Less = OpToRel(<, Nat)
      BY Zenon DEF Less, OpToRel
    <3> QED BY <3>1, NatLessThanWellFounded
  <2>2. D \subseteq Nat
    OBVIOUS
  <2>3. PICK i \in D : \A j \in D : ~(<<j, i>> \in Less)
    <3> HIDE DEF D
    <3> QED BY <2>1, <2>2, WFMin
  <2>4. i # 1
    BY <2>3 DEF IsList
  <2>5. i - 1 \in Nat /\ i - 1 \in 1..Len(s) - 1 /\ i - 1 \in 1..Len(u) - 1
        /\ i - 1 \in 1..Len(s) /\ i - 1 \in 1..Len(u) /\ (i - 1) + 1 = i
    BY <1>1, <2>3, <2>4
  <2>6. i - 1 \notin D
    <3>1. i \in Nat
      BY <2>2, <2>3
    <3> HIDE DEF D
    <3>2. <<i - 1, i>> \in Less
      BY <2>5, <3>1 DEF Less
    <3> QED BY <2>3, <3>2
  <2>7. s[i - 1] = u[i - 1]
    BY <2>5, <2>6
  <2>8. nx[s[i - 1]].ptr = s[i] /\ nx[u[i - 1]].ptr = u[i]
    BY <2>5 DEF IsList
  <2> QED BY <2>3, <2>7, <2>8
<1>3. \A i \in 1..Len(s) : i \in 1..Len(u) => s[i] = u[i]
  BY <1>1, <1>2
<1> HIDE DEF D
<1>4. ~(Len(s) < Len(u))
  <2> SUFFICES ASSUME Len(s) < Len(u) PROVE FALSE
    OBVIOUS
  <2>1. Len(s) \in 1..Len(s) /\ Len(s) \in 1..Len(u) - 1 /\ Len(s) \in 1..Len(u) /\ Len(s) + 1 \in 1..Len(u)
    BY <1>1
  <2>2. s[Len(s)] = u[Len(s)]
    BY <1>3, <2>1
  <2>3. nx[u[Len(s)]].ptr = u[Len(s) + 1] /\ nx[s[Len(s)]].ptr = NULL
    BY <2>1 DEF IsList
  <2> QED BY <1>1, <2>1, <2>2, <2>3, QueueAssumption
<1>5. ~(Len(u) < Len(s))
  <2> SUFFICES ASSUME Len(u) < Len(s) PROVE FALSE
    OBVIOUS
  <2>1. Len(u) \in 1..Len(u) /\ Len(u) \in 1..Len(s) - 1 /\ Len(u) \in 1..Len(s) /\ Len(u) + 1 \in 1..Len(s)
    BY <1>1
  <2>2. s[Len(u)] = u[Len(u)]
    BY <1>3, <2>1
  <2>3. nx[s[Len(u)]].ptr = s[Len(u) + 1] /\ nx[u[Len(u)]].ptr = NULL
    BY <2>1 DEF IsList
  <2> QED BY <1>1, <2>1, <2>2, <2>3, QueueAssumption
<1>6. Len(s) = Len(u)
  <2> DEFINE a == Len(s)
             b == Len(u)
  <2>1. a \in Nat /\ b \in Nat /\ ~(a < b) /\ ~(b < a)
    BY <1>1, <1>4, <1>5
  <2> HIDE DEF a, b
  <2>2. a = b
    BY <2>1
  <2> QED BY <2>2 DEF a, b
<1> QED BY <1>1, <1>3, <1>6

(* So the refinement mapping reads the list.                               *)
LEMMA ContentsAre ==
  ASSUME NEW s \in Lists, NEW h, NEW nx, NEW val, IsList(s, h, nx)
  PROVE  ContentsOf(h, nx, val) = Behind(s, val)
<1> DEFINE u == CHOOSE x \in Lists : IsList(x, h, nx)
<1>1. u \in Lists /\ IsList(u, h, nx)
  OBVIOUS
<1> HIDE DEF u
<1>2. u = s
  BY <1>1, OneList
<1> QED BY <1>2 DEF ContentsOf, u

(* The sequence of values behind the dummy node.                           *)
LEMMA BehindFacts ==
  ASSUME NEW s \in Lists, s # <<>>, NEW val \in [Nodes -> Values \cup {NULL}]
  PROVE  \E m \in Nat : /\ Len(s) = m + 1
                        /\ Behind(s, val) \in Seq(Values \cup {NULL}) /\ Len(Behind(s, val)) = m
                        /\ Behind(s, val) = [i \in 1..m |-> val[s[i + 1]]]
<1>1. Len(s) \in Nat /\ s \in [1..Len(s) -> Nodes] /\ Len(s) # 0
  BY ListFacts
<1>2. PICK m \in Nat : Len(s) = m + 1
  <2> DEFINE k == Len(s)
  <2>1. k \in Nat /\ k # 0
    BY <1>1
  <2> HIDE DEF k
  <2>2. k - 1 \in Nat /\ k = (k - 1) + 1
    BY <2>1
  <2> QED BY <2>2 DEF k
<1>3. Len(s) - 1 = m /\ \A i \in 1..m : i + 1 \in 1..Len(s)
  BY <1>2
<1> DEFINE b == Behind(s, val)
           V == Values \cup {NULL}
<1>4. b = [i \in 1..m |-> val[s[i + 1]]]
  BY <1>3 DEF Behind
<1>5. \A i \in 1..m : val[s[i + 1]] \in V
  BY <1>1, <1>3
<1> HIDE DEF b, V
<1>6. b \in [1..m -> V]
  BY <1>4, <1>5
<1>7. b \in Seq(V) /\ Len(b) = m
  BY <1>6
<1> QED BY <1>2, <1>4, <1>7 DEF b, V

(* The open queue is empty.                                                *)
LEMMA OpenEmpty == Init => F!Init
<1> SUFFICES ASSUME Init PROVE Contents = <<>> /\ out = NULL
  BY DEF F!Init
<1>1. PICK n \in Nodes : live = {n} /\ head = [ptr |-> n, count |-> 0] /\ tail = [ptr |-> n, count |-> 0]
  BY DEF Init, _st_lock_free_queue_open
<1> DEFINE s == <<n>>
<1>2. s \in Seq(Nodes) /\ Len(s) = 1 /\ s[1] = n /\ s # <<>>
  OBVIOUS
<1> HIDE DEF s
<1>3. s \in Lists
  <2> DEFINE c == Cardinality(Nodes)
  <2>1. c \in Nat /\ c # 0
    BY <1>1, QueueAssumption, FS_CardinalityType, FS_EmptySet
  <2> HIDE DEF c
  <2>2. 1 <= c
    BY <2>1
  <2> QED BY <1>2, <2>2, ListsAre DEF c
<1>4. IsList(s, head.ptr, next)
  <2>1. next[n].ptr = NULL /\ head.ptr = n /\ 1..Len(s) - 1 = {}
    BY <1>1, <1>2 DEF Init, Nil
  <2> QED BY <1>2, <2>1 DEF IsList
<1>5. Contents = Behind(s, value)
  BY <1>3, <1>4, ContentsAre DEF Contents
<1>6. Behind(s, value) = <<>>
  <2>1. 1..Len(s) - 1 = 1..0
    BY <1>2
  <2> QED BY <2>1 DEF Behind
<1> QED BY <1>5, <1>6 DEF Init

(* What a step that keeps the list s, and the values in it, shows the      *)
(* callers.                                                                *)
LEMMA SameContents ==
  ASSUME NEW s \in Lists, IsList(s, head.ptr, next), IsList(s, head.ptr, next)',
         \A i \in 1..Len(s) : value'[s[i]] = value[s[i]]
  PROVE  Contents' = Contents
<1>1. Contents = Behind(s, value)
  BY ContentsAre DEF Contents
<1>2. Contents' = Behind(s, value')
  BY ContentsAre DEF Contents
<1>3. \A i \in 1..Len(s) - 1 : i + 1 \in 1..Len(s)
  BY ListFacts
<1>4. Behind(s, value') = Behind(s, value)
  BY <1>3 DEF Behind
<1> QED BY <1>1, <1>2, <1>4

(* Linking is the moment at which the value enters the queue.              *)
LEMMA LinkRefines ==
  ASSUME OneProducer, LfInv, NEW p \in Producers, LinkNode(p)
  PROVE  \E v \in Values : F!Enqueue(v)
<1>1. LfType
  BY DEF LfInv
<1>2. PICK s \in Lists : ListOk(s) /\ EnqueueOk(p, s)
  BY DEF LfInv
<1>0. PICK n : n = ploc[p].node
  OBVIOUS
<1>3. /\ ppc[p] = "link" /\ UNCHANGED <<live, value, head, tail, out>>
  BY DEF LinkNode, dvars
<1>4. /\ ploc[p].tail.ptr = tail.ptr /\ next[tail.ptr].ptr = NULL /\ n \in live
      /\ next[n].ptr = NULL /\ value[n] \in Values /\ \A i \in 1..Len(s) : s[i] # n
  BY <1>0, <1>2, <1>3 DEF EnqueueOk, EnqPcs
<1>5. tail.ptr \in live /\ n \in Nodes
  BY <1>1, <1>2, <1>4, TailFacts DEF LfType
<1>6. ReadPtr(tail.ptr) = {NULL}
  BY <1>4, <1>5 DEF ReadPtr
<1>7. next' = [next EXCEPT ![tail.ptr].ptr = n]
  BY <1>0, <1>4, <1>6 DEF LinkNode
<1> DEFINE t == Append(s, n)
<1>8. t \in Lists /\ ListOk(t)'
  BY <1>1, <1>2, <1>3, <1>4, <1>7, ListGrows
<1>9. Contents = Behind(s, value) /\ Contents' = Behind(t, value)
  <2> HIDE DEF t
  <2>1. Contents' = Behind(t, value')
    BY <1>8, ContentsAre DEF Contents, ListOk
  <2>2. Contents = Behind(s, value)
    BY <1>2, ContentsAre DEF Contents, ListOk
  <2> QED BY <1>3, <2>1, <2>2
<1>10. /\ Len(s) \in Nat /\ Len(s) >= 1 /\ Len(t) = Len(s) + 1 /\ t[Len(s) + 1] = n
       /\ \A i \in 1..Len(s) : t[i] = s[i]
  BY <1>2, <1>5, ListFacts, AppendProperties DEF ListOk, IsList
<1> HIDE DEF t
<1>11. Behind(t, value) = Append(Behind(s, value), value[n])
  <2>1. value \in [Nodes -> Values \cup {NULL}] /\ s # <<>>
    BY <1>1, <1>2 DEF LfType, ListOk, IsList
  <2> DEFINE b == Behind(s, value)
  <2>2. PICK m \in Nat : /\ Len(s) = m + 1 /\ b \in Seq(Values \cup {NULL}) /\ Len(b) = m
                         /\ b = [i \in 1..m |-> value[s[i + 1]]]
    BY <2>1, BehindFacts
  <2>3. Len(t) - 1 = m + 1 /\ Len(t) = m + 2
    BY <1>10, <2>2
  <2>4. Behind(t, value) = [i \in 1..(m + 1) |-> value[t[i + 1]]]
    BY <2>3 DEF Behind
  <2>5. \A i \in 1..(m + 1) : value[t[i + 1]] = IF i = m + 1 THEN value[n] ELSE b[i]
    <3> SUFFICES ASSUME NEW i \in 1..(m + 1)
                 PROVE  value[t[i + 1]] = IF i = m + 1 THEN value[n] ELSE b[i]
      OBVIOUS
    <3>1. CASE i = m + 1
      BY <1>10, <2>2, <3>1
    <3>2. CASE i # m + 1
      <4>1. i \in 1..m /\ i + 1 \in 1..(m + 1)
        BY <3>2
      <4>2. t[i + 1] = s[i + 1]
        BY <1>10, <2>2, <4>1
      <4> QED BY <2>2, <3>2, <4>1, <4>2
    <3> QED BY <3>1, <3>2
  <2> HIDE DEF b
  <2>6. Append(b, value[n]) = [i \in 1..(m + 1) |-> IF i = m + 1 THEN value[n] ELSE b[i]]
    BY <2>2 DEF Append
  <2> QED BY <2>4, <2>5, <2>6 DEF b
<1>12. F!Enqueue(value[n])
  BY <1>3, <1>9, <1>11 DEF F!Enqueue
<1> QED BY <1>4, <1>12

(* Swinging the head is the moment at which it leaves.                     *)
LEMMA HeadRefines ==
  ASSUME LfInv, DeqSwingHead PROVE F!Dequeue
<1>1. LfType
  BY DEF LfInv
<1>2. PICK s \in Lists : ListOk(s) /\ DequeueOk(s)
  BY DEF LfInv
<1> DEFINE x == dloc.next.ptr
           t == Tail(s)
<1>3. /\ dpc = "head" /\ head' = [head EXCEPT !.ptr = x] /\ out' = value[x]
      /\ UNCHANGED <<live, value, next, tail>>
  BY DEF DeqSwingHead
<1>4. /\ tail.ptr # head.ptr /\ x = next[head.ptr].ptr /\ x \in Ptr /\ 0 \in Nat /\ head \in Counted
  BY <1>1, <1>2, <1>3 DEF DequeueOk, DeqPcs, LfType, DeqLocal, Counted
<1> HIDE DEF x
<1>5. head'.ptr = x
  BY <1>3, <1>4, CountedFacts
<1>6. t \in Lists /\ ListOk(t)' /\ Len(s) >= 2 /\ s[2] = x
  BY <1>1, <1>2, <1>3, <1>4, <1>5, ListShrinks
<1>7. Contents = Behind(s, value) /\ Contents' = Behind(t, value)
  <2> HIDE DEF t
  <2>1. Contents' = Behind(t, value')
    BY <1>6, ContentsAre DEF Contents, ListOk
  <2>2. Contents = Behind(s, value)
    BY <1>2, ContentsAre DEF Contents, ListOk
  <2> QED BY <1>3, <2>1, <2>2
<1>8. /\ Len(s) \in Nat /\ Len(t) = Len(s) - 1 /\ \A i \in 1..Len(t) : t[i] = s[i + 1]
  <2>1. Len(s) \in Nat /\ s \in Seq(Nodes) /\ s # <<>>
    BY <1>2, ListFacts DEF ListOk, IsList
  <2> QED BY <2>1
<1> HIDE DEF t
<1> DEFINE b == Behind(s, value)
<1>9. PICK m \in Nat : /\ Len(s) = m + 1 /\ b \in Seq(Values \cup {NULL}) /\ Len(b) = m
                       /\ b = [i \in 1..m |-> value[s[i + 1]]]
  <2>1. value \in [Nodes -> Values \cup {NULL}] /\ s # <<>>
    BY <1>1, <1>2 DEF LfType, ListOk, IsList
  <2> QED BY <2>1, BehindFacts
<1>10. m >= 1 /\ Len(t) = m /\ 1 \in 1..m /\ b[1] = value[x] /\ b # <<>>
  BY <1>6, <1>8, <1>9
<1>11. Tail(b) = Behind(t, value)
  <2>1. Behind(t, value) = [i \in 1..(m - 1) |-> value[t[i + 1]]]
    BY <1>10 DEF Behind
  <2>2. \A i \in 1..(m - 1) : value[t[i + 1]] = b[i + 1]
    <3> SUFFICES ASSUME NEW i \in 1..(m - 1) PROVE value[t[i + 1]] = b[i + 1]
      OBVIOUS
    <3>1. i + 1 \in 1..m
      OBVIOUS
    <3> QED BY <1>8, <1>9, <1>10, <3>1
  <2> HIDE DEF b
  <2>3. Tail(b) = [i \in 1..(m - 1) |-> b[i + 1]]
    BY <1>9, <1>10 DEF Tail
  <2> QED BY <2>1, <2>2, <2>3
<1> HIDE DEF b
<1>12. Head(b) = value[x]
  BY <1>9, <1>10
<1> QED BY <1>3, <1>7, <1>10, <1>11, <1>12 DEF F!Dequeue, b

(* The read of next that finds the queue empty.                            *)
LEMMA EmptyRefines ==
  ASSUME LfInv, DeqReadNextPtr PROVE UNCHANGED <<Contents, out>> \/ F!DequeueEmpty
<1>1. LfType
  BY DEF LfInv
<1>2. PICK s \in Lists : ListOk(s) /\ DequeueOk(s)
  BY DEF LfInv
<1>3. dpc = "nptr" /\ UNCHANGED mvars /\ dloc.head.ptr = head.ptr
  BY <1>2 DEF DeqReadNextPtr, DequeueOk, DeqPcs
<1>4. Contents' = Contents
  BY <1>3 DEF Contents, mvars
<1>5. CASE dloc.head.ptr = dloc.tail.ptr /\ next[head.ptr].ptr = NULL
  <2>1. out' = NULL
    BY <1>3, <1>5 DEF DeqReadNextPtr
  <2>2. Len(s) \in Nat /\ s \in [1..Len(s) -> Nodes] /\ s # <<>> /\ s[1] = head.ptr
    BY <1>2, ListFacts DEF ListOk, IsList
  <2>3. 1 \notin 1..Len(s) - 1
    <3> SUFFICES ASSUME 1 \in 1..Len(s) - 1 PROVE FALSE
      OBVIOUS
    <3>1. s[1 + 1] = NULL /\ 1 + 1 \in 1..Len(s)
      BY <1>2, <1>5, <2>2 DEF ListOk, IsList
    <3> QED BY <2>2, <3>1, QueueAssumption
  <2>4. 1..Len(s) - 1 = 1..0
    BY <2>2, <2>3
  <2>5. Behind(s, value) = <<>>
    <3>1. Behind(s, value) = [i \in 1..0 |-> value[s[i + 1]]]
      BY <2>4 DEF Behind
    <3>2. [i \in 1..0 |-> value[s[i + 1]]] = <<>>
      OBVIOUS
    <3> QED BY <3>1, <3>2
  <2>6. Contents = Behind(s, value)
    BY <1>2, ContentsAre DEF Contents, ListOk
  <2> QED BY <1>4, <2>1, <2>5, <2>6 DEF F!DequeueEmpty
<1>6. CASE ~(dloc.head.ptr = dloc.tail.ptr /\ next[head.ptr].ptr = NULL)
  <2>1. out' = out
    BY <1>3, <1>6 DEF DeqReadNextPtr
  <2> QED BY <1>4, <2>1
<1> QED BY <1>5, <1>6

(* Taking a fresh node and storing counts change nothing a caller sees.    *)
LEMMA WriteRefines ==
  ASSUME LfInv,
         \/ \E p \in Producers, v \in Values : EnqueueStart(p, v)
         \/ \E p \in Producers : StoreNextCount(p)
         \/ DeqStoreHeadCount
  PROVE  UNCHANGED <<Contents, out>>
<1>1. LfType
  BY DEF LfInv
<1>2. PICK s \in Lists : ListOk(s) /\ \A q \in Producers : EnqueueOk(q, s)
  BY DEF LfInv
<1>3. /\ \A i \in 1..Len(s) : s[i] \in Nodes /\ s[i] \in live
      /\ 1..Len(s) - 1 \subseteq 1..Len(s) /\ Len(s) \in 1..Len(s)
      /\ IsList(s, head.ptr, next)
  BY <1>2, ListFacts DEF ListOk, IsList
<1>4. ASSUME NEW p \in Producers, NEW v \in Values, EnqueueStart(p, v)
      PROVE  UNCHANGED <<Contents, out>>
  <2>1. PICK n \in Nodes \ live : value' = [value EXCEPT ![n] = v] /\ next' = [next EXCEPT ![n] = Nil]
    BY <1>4 DEF EnqueueStart
  <2>2. \A m \in Nodes : m \in live => next'[m] = next[m] /\ value'[m] = value[m]
    BY <1>1, <2>1 DEF LfType
  <2>3. head' = head /\ out' = out
    BY <1>4 DEF EnqueueStart, dvars
  <2>4. IsList(s, head.ptr, next)'
    BY <1>3, <2>2, <2>3 DEF IsList
  <2> QED BY <1>3, <2>2, <2>3, <2>4, SameContents
<1>5. ASSUME NEW p \in Producers, StoreNextCount(p)
      PROVE  UNCHANGED <<Contents, out>>
  <2> DEFINE n == ploc[p].tail.ptr
             k == ploc[p].next.count + 1
             c == [next[n] EXCEPT !.count = k]
  <2>1. n \in Nodes /\ k \in Nat /\ next \in [Nodes -> Counted] /\ next[n] \in Counted
    BY <1>1, <1>2, <1>5 DEF StoreNextCount, EnqueueOk, LfType, Counted, EnqLocal
  <2>2. c.ptr = next[n].ptr
    <3> HIDE DEF n, k
    <3> QED BY <2>1, QueueAssumption, CountedFacts DEF Ptr
  <2>3. next' = [next EXCEPT ![n] = c]
    BY <1>5, Zenon DEF StoreNextCount
  <2> HIDE DEF n, k, c
  <2>4. \A m \in Nodes : next'[m].ptr = next[m].ptr
    BY <2>1, <2>2, <2>3
  <2>5. head' = head /\ out' = out /\ value' = value
    BY <1>5 DEF StoreNextCount, dvars
  <2>6. IsList(s, head.ptr, next)'
    BY <1>3, <2>4, <2>5 DEF IsList
  <2> QED BY <1>3, <2>5, <2>6, SameContents
<1>6. CASE DeqStoreHeadCount
  <2> DEFINE k == dloc.head.count + 1
  <2>1. k \in Nat /\ head \in Counted /\ NULL \in Ptr
    BY <1>1 DEF LfType, Counted, DeqLocal, Ptr
  <2>2. head' = [head EXCEPT !.count = k] /\ UNCHANGED <<next, value, out>>
    BY <1>6 DEF DeqStoreHeadCount
  <2> HIDE DEF k
  <2>3. head'.ptr = head.ptr
    BY <2>1, <2>2, CountedFacts
  <2> QED BY <2>2, <2>3 DEF Contents
<1> QED BY <1>4, <1>5, <1>6

(* With one producer the completion queue is a FIFO.  The nodes linked     *)
(* behind the dummy node are its contents, linking a node is the moment of *)
(* an enqueue, swinging the head that of a dequeue, and reading a null     *)
(* next in the dummy node that of a dequeue that fails                     *)
(* (_st_lock_free_enqueue, _st_lock_free_dequeue).                         *)
THEOREM QueueIsFifo == ASSUME OneProducer PROVE Spec => ImplementsFifo
<1>1. LfInv /\ [Next]_vars => [F!Next]_(F!vars)
  <2> SUFFICES ASSUME LfInv, [Next]_vars
               PROVE  F!Next \/ UNCHANGED <<Contents, out>>
    BY DEF F!vars
  <2>1. CASE UNCHANGED vars
    BY <2>1 DEF vars, mvars, dvars, Contents
  <2>2. ASSUME NEW p \in Producers, \/ ReadTailCount(p) \/ ReadTailPtr(p) \/ ReadNextPtr(p)
                                    \/ ReadNextCount(p) \/ CheckTailCount(p) \/ CheckTailPtr(p)
                                    \/ SwingTail(p) \/ StoreTailCount(p)
        PROVE  UNCHANGED <<Contents, out>>
    BY <2>2 DEF ReadTailCount, ReadTailPtr, ReadNextPtr, ReadNextCount, CheckTailCount,
                CheckTailPtr, SwingTail, StoreTailCount, mvars, dvars, Contents
  <2>3. ASSUME \/ DequeueStart \/ DeqReadTailCount \/ DeqReadTailPtr \/ DeqReadNextCount
               \/ DeqSwingTail \/ DeqStoreTailCount \/ DeqFree
        PROVE  UNCHANGED <<Contents, out>>
    BY <2>3 DEF DequeueStart, DeqReadTailCount, DeqReadTailPtr, DeqReadNextCount, DeqSwingTail,
                DeqStoreTailCount, DeqFree, mvars, Contents
  <2>4. ASSUME NEW p \in Producers, LinkNode(p) PROVE F!Next
    BY <2>4, LinkRefines DEF F!Next
  <2>5. ASSUME DeqSwingHead PROVE F!Next
    BY <2>5, HeadRefines DEF F!Next
  <2>6. ASSUME DeqReadNextPtr PROVE F!Next \/ UNCHANGED <<Contents, out>>
    BY <2>6, EmptyRefines DEF F!Next
  <2> QED BY <2>1, <2>2, <2>3, <2>4, <2>5, <2>6, WriteRefines DEF Next, EnqueueStep, DequeueStep
<1>2. Init => F!Init
  BY OpenEmpty
<1> QED BY <1>1, <1>2, QueueInductive, PTL DEF Spec, ImplementsFifo, F!Spec

=============================================================================
