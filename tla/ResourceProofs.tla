--------------------------- MODULE ResourceProofs ---------------------------
(***************************************************************************)
(* Proofs about the resources of a process: descriptors and sockets        *)
(* (NetFd), thread-specific data and stacks (ThreadData) and the sleep     *)
(* queue (SleepQ), which share no state.                                   *)
(***************************************************************************)
EXTENDS NetFd, ThreadData, SleepQ, SequenceTheorems, FiniteSetTheorems, WellFoundedInduction, TLAPS

-----------------------------------------------------------------------------
(* Descriptors and sockets, for any number of threads, socket numbers and  *)
(* calls: the free list of descriptor objects is sound (FreelistSound),    *)
(* and the completion worker never closes the listening socket             *)
(* (ListenerOpen), although it closes whatever socket it finds in a        *)
(* completion key, and the listening socket's key is one of those it may   *)
(* find.                                                                   *)

Socks   == SockNums \cup {NoSock}
Objects == [inuse : BOOLEAN, osfd : Socks, priv : BOOLEAN]
Pending == [thread : Callers, sock : SockNums, peer : Socks, key : Nat, aborted : BOOLEAN]

NfType ==
  /\ sock \in [SockNums -> {"closed", "open", "listen", "conn"}]
  /\ hdata \in Seq(Socks)
  /\ assoc \in [SockNums -> 0..Len(hdata)]
  /\ objs \in Seq(Objects)
  /\ freelist \in Seq(1..Len(objs))
  /\ ctx \in [Callers -> [type : {"none", "ACCEPT", "CONNECT", "TRANSFER"}, osfd : Socks]]
  /\ wait \in [Callers -> {"none", "forever", "timed"}]
  /\ pend \subseteq Pending
  /\ \A p \in pend : p.key \in 1..Len(hdata)
  /\ lsn \in Socks

(* The free list holds the objects that are not in use, each once.         *)
FreeInv ==
  /\ \A i, j \in 1..Len(freelist) : freelist[i] = freelist[j] => i = j
  /\ \A o \in 1..Len(objs) :
       /\ objs[o].inuse <=> \A i \in 1..Len(freelist) : freelist[i] # o
       /\ ~objs[o].inuse => ~objs[o].priv

(* Until the first descriptor exists nothing is pending, and the keys hold *)
(* the sockets that failed attempts to listen left open.                   *)
StartInv ==
  objs = <<>> => /\ pend = {} /\ lsn = NoSock
                 /\ \A c \in Callers : ctx[c].osfd = NoSock
                 /\ \A k \in 1..Len(hdata) :
                      hdata[k] \in SockNums /\ sock[hdata[k]] # "closed"

(* A thread that accepts has one operation at a time, so that its context  *)
(* is the one the operation was started with.                              *)
AcceptInv ==
  \A p \in pend : p.thread \in Acceptors =>
     wait[p.thread] # "none" /\ \A q \in pend : q.thread = p.thread => q = p

(* As long as the listening socket is in its key, the key is its own, and  *)
(* all operations with that key are accepts whose context says so.         *)
KeyInv(k) ==
  /\ \A x \in SockNums : assoc[x] = k => x = lsn
  /\ \A p \in pend : p.key = k => p.thread \in Acceptors /\ ctx[p.thread].type = "ACCEPT"

ListenInv ==
  /\ \A s \in SockNums : sock[s] = "listen" => s = lsn
  /\ lsn # NoSock =>
       /\ sock[lsn] = "listen"
       /\ assoc[lsn] # 0
       /\ \A c \in Callers : ctx[c].osfd # lsn
       /\ \A k \in 1..Len(hdata) : hdata[k] = lsn => k = assoc[lsn] /\ KeyInv(k)

NfInv == NfType /\ FreeInv /\ StartInv /\ AcceptInv /\ ListenInv

-----------------------------------------------------------------------------
Aborted(P, s) == {[p EXCEPT !.aborted = @ \/ p.sock = s] : p \in P}

(* The operations that closing a socket aborts are the same operations.    *)
LEMMA AbortKeeps ==
  ASSUME NfType, AcceptInv, NEW s, NEW P \in SUBSET pend,
         pend' = Aborted(P, s)
  PROVE  /\ pend' \subseteq Pending
         /\ \A q \in pend' : \E p \in P : q.thread = p.thread /\ q.key = p.key
         /\ \A q, r \in pend' : q.thread = r.thread /\ q.thread \in Acceptors => q = r
<1>1. P \in SUBSET Pending
  BY DEF NfType
<1>2. /\ pend' \subseteq Pending
      /\ \A q \in pend' : \E p \in P : q = [p EXCEPT !.aborted = @ \/ p.sock = s]
                                   /\ q.thread = p.thread /\ q.key = p.key
  <2>1. /\ Aborted(P, s) \subseteq Pending
        /\ \A q \in Aborted(P, s) : \E p \in P : q = [p EXCEPT !.aborted = @ \/ p.sock = s]
                                     /\ q.thread = p.thread /\ q.key = p.key
    BY <1>1 DEF Pending, Aborted
  <2> QED BY <2>1
<1>3. ASSUME NEW q \in pend', NEW r \in pend', q.thread = r.thread, q.thread \in Acceptors
      PROVE  q = r
  <2>1. PICK a \in P : q = [a EXCEPT !.aborted = @ \/ a.sock = s] /\ q.thread = a.thread
    BY <1>2
  <2>2. PICK b \in P : r = [b EXCEPT !.aborted = @ \/ b.sock = s] /\ r.thread = b.thread
    BY <1>2
  <2>3. a = b
    BY <1>3, <2>1, <2>2 DEF AcceptInv
  <2> QED BY <2>1, <2>2, <2>3
<1> QED BY <1>2, <1>3

(* _st_netfd_new: the object comes from the head of the free list, or is a *)
(* new one.                                                                *)
LEMMA NewFacts ==
  ASSUME NfType, FreeInv, NEW s \in SockNums, _st_netfd_new(s)
  PROVE  /\ objs' \in Seq(Objects) /\ objs' # <<>>
         /\ freelist' \in Seq(1..Len(objs'))
         /\ FreeInv'
         /\ NewOsfd(s) \in Socks
<1>1. objs \in Seq(Objects) /\ freelist \in Seq(1..Len(objs))
      /\ Len(objs) \in Nat /\ Len(freelist) \in Nat
  BY DEF NfType
<1>2. CASE freelist # <<>>
  <2> DEFINE o == Head(freelist)
  <2>1. /\ o \in 1..Len(objs) /\ o = freelist[1] /\ Len(freelist) > 0
        /\ objs[o] \in Objects
    BY <1>1, <1>2
  <2>2. objs' = [objs EXCEPT ![o].inuse = TRUE] /\ freelist' = Tail(freelist)
    BY <1>2 DEF _st_netfd_new, NewObj
  <2>3. /\ objs' \in Seq(Objects) /\ Len(objs') = Len(objs)
        /\ \A x \in 1..Len(objs) : x # o => objs'[x] = objs[x]
        /\ objs'[o].inuse /\ objs'[o].priv = objs[o].priv
    <3> DEFINE m == [objs[o] EXCEPT !.inuse = TRUE]
    <3>1. objs' = [objs EXCEPT ![o] = m]
      BY <2>2
    <3>2. m \in Objects /\ m.inuse /\ m.priv = objs[o].priv
      BY <2>1 DEF Objects
    <3> HIDE DEF m, o
    <3> QED BY <1>1, <2>1, <3>1, <3>2, ExceptSeq
  <2>4. /\ freelist' \in Seq(1..Len(objs)) /\ Len(freelist') = Len(freelist) - 1
        /\ \A i \in 1..Len(freelist') : i + 1 \in 1..Len(freelist) /\ freelist'[i] = freelist[i + 1]
    BY <1>1, <1>2, <2>2
  <2>5. objs' # <<>>
    BY <1>1, <2>1, <2>3
  <2>6. FreeInv'
    <3>1. \A i, j \in 1..Len(freelist') : freelist'[i] = freelist'[j] => i = j
      <4> SUFFICES ASSUME NEW i \in 1..Len(freelist'), NEW j \in 1..Len(freelist'),
                          freelist'[i] = freelist'[j]
                   PROVE  i = j
        OBVIOUS
      <4>1. i + 1 = j + 1
        BY <2>4 DEF FreeInv
      <4> QED BY <1>1, <2>4, <4>1
    <3>2. ASSUME NEW x \in 1..Len(objs)
          PROVE  /\ objs'[x].inuse <=> \A i \in 1..Len(freelist') : freelist'[i] # x
                 /\ ~objs'[x].inuse => ~objs'[x].priv
      <4>1. CASE x = o
        <5>1. \A i \in 1..Len(freelist') : freelist'[i] # o
          <6> SUFFICES ASSUME NEW i \in 1..Len(freelist'), freelist[i + 1] = freelist[1] PROVE FALSE
            BY <2>1, <2>4
          <6>1. 1 \in 1..Len(freelist) /\ i + 1 # 1
            BY <1>1, <2>1, <2>4
          <6> QED BY <2>4, <6>1 DEF FreeInv
        <5> QED BY <2>3, <4>1, <5>1
      <4>2. CASE x # o
        <5>1. \A i \in 1..Len(freelist) : freelist[i] = x =>
                 i - 1 \in 1..Len(freelist') /\ freelist'[i - 1] = x
          BY <1>1, <2>1, <2>4, <4>2
        <5>2. (\A i \in 1..Len(freelist') : freelist'[i] # x) <=>
              (\A i \in 1..Len(freelist) : freelist[i] # x)
          BY <2>4, <5>1
        <5> QED BY <2>3, <4>2, <5>2 DEF FreeInv
      <4> QED BY <4>1, <4>2
    <3> QED BY <2>3, <3>1, <3>2 DEF FreeInv
  <2>7. NewOsfd(s) \in Socks
    BY <1>2, <2>1 DEF NewOsfd, NewObj, Objects
  <2> QED BY <2>3, <2>4, <2>5, <2>6, <2>7
<1>3. CASE freelist = <<>>
  <2> DEFINE m == [NoObj EXCEPT !.inuse = TRUE, !.osfd = s]
  <2>1. objs' = Append(objs, m) /\ freelist' = freelist
    BY <1>3 DEF _st_netfd_new
  <2>2. m \in Objects /\ m.inuse
    BY DEF NoObj, Objects, Socks
  <2> HIDE DEF m
  <2>3. /\ objs' \in Seq(Objects) /\ Len(objs') = Len(objs) + 1
        /\ \A x \in 1..Len(objs) : objs'[x] = objs[x]
        /\ objs'[Len(objs) + 1] = m
    BY <1>1, <2>1, <2>2
  <2>4. objs' # <<>> /\ freelist' \in Seq(1..Len(objs')) /\ Len(freelist') = 0
    BY <1>1, <1>3, <2>1, <2>3
  <2>5. FreeInv'
    BY <1>1, <1>3, <2>1, <2>2, <2>3, <2>4 DEF FreeInv
  <2>6. NewOsfd(s) \in Socks
    BY <1>3 DEF NewOsfd, Socks
  <2> QED BY <2>3, <2>4, <2>5, <2>6
<1> QED BY <1>2, <1>3

(* st_netfd_free.                                                          *)
LEMMA FreeFacts ==
  ASSUME NfType, FreeInv, NEW o \in DOMAIN objs, st_netfd_free(o)
  PROVE  /\ objs' \in Seq(Objects) /\ objs' # <<>>
         /\ freelist' \in Seq(1..Len(objs'))
         /\ FreeInv'
<1>1. objs \in Seq(Objects) /\ freelist \in Seq(1..Len(objs))
      /\ Len(objs) \in Nat /\ Len(freelist) \in Nat /\ o \in 1..Len(objs) /\ objs[o] \in Objects
  BY DEF NfType
<1>2. CASE ~objs[o].inuse
  BY <1>1, <1>2 DEF st_netfd_free, FreeInv
<1>3. CASE objs[o].inuse
  <2>1. /\ objs' = [objs EXCEPT ![o].inuse = FALSE, ![o].priv = FALSE]
        /\ freelist' = <<o>> \o freelist
    BY <1>3 DEF st_netfd_free
  <2>2. /\ objs' \in Seq(Objects) /\ Len(objs') = Len(objs)
        /\ \A x \in 1..Len(objs) : x # o => objs'[x] = objs[x]
        /\ ~objs'[o].inuse /\ ~objs'[o].priv
    <3> DEFINE m == [objs[o] EXCEPT !.inuse = FALSE, !.priv = FALSE]
    <3>1. objs' = [objs EXCEPT ![o] = m]
      BY <2>1
    <3>2. m \in Objects /\ ~m.inuse /\ ~m.priv
      BY <1>1 DEF Objects
    <3> HIDE DEF m
    <3> QED BY <1>1, <3>1, <3>2, ExceptSeq
  <2>3. /\ freelist' \in Seq(1..Len(objs)) /\ Len(freelist') = Len(freelist) + 1
        /\ freelist'[1] = o
        /\ \A i \in 1..Len(freelist) : i + 1 \in 1..Len(freelist') /\ freelist'[i + 1] = freelist[i]
        /\ \A i \in 2..Len(freelist') : i - 1 \in 1..Len(freelist) /\ freelist'[i] = freelist[i - 1]
    BY <1>1, <2>1
  <2>4. \A i \in 1..Len(freelist) : freelist[i] # o
    BY <1>1, <1>3 DEF FreeInv
  <2>5. \A i, j \in 1..Len(freelist') : freelist'[i] = freelist'[j] => i = j
    <3> SUFFICES ASSUME NEW i \in 1..Len(freelist'), NEW j \in 1..Len(freelist'),
                        freelist'[i] = freelist'[j]
                 PROVE  i = j
      OBVIOUS
    <3>1. i # 1 => i - 1 \in 1..Len(freelist) /\ freelist'[i] = freelist[i - 1]
      BY <1>1, <2>3
    <3>2. j # 1 => j - 1 \in 1..Len(freelist) /\ freelist'[j] = freelist[j - 1]
      BY <1>1, <2>3
    <3>3. i # 1 /\ j # 1 => i - 1 = j - 1
      BY <3>1, <3>2 DEF FreeInv
    <3> QED BY <2>3, <2>4, <3>1, <3>2, <3>3
  <2>6. ASSUME NEW x \in 1..Len(objs)
        PROVE  /\ objs'[x].inuse <=> \A i \in 1..Len(freelist') : freelist'[i] # x
               /\ ~objs'[x].inuse => ~objs'[x].priv
    <3>1. CASE x = o
      BY <1>1, <2>2, <2>3, <3>1
    <3>2. CASE x # o
      <4>1. (\A i \in 1..Len(freelist') : freelist'[i] # x) <=>
            (\A i \in 1..Len(freelist) : freelist[i] # x)
        <5>1. \A i \in 1..Len(freelist') : freelist'[i] = x => i \in 2..Len(freelist')
          BY <1>1, <2>3, <3>2
        <5> QED BY <2>3, <5>1
      <4> QED BY <2>2, <3>2, <4>1 DEF FreeInv
    <3> QED BY <3>1, <3>2
  <2>7. objs' # <<>>
    BY <1>1, <2>2
  <2> QED BY <2>2, <2>3, <2>5, <2>6, <2>7 DEF FreeInv
<1> QED BY <1>2, <1>3

-----------------------------------------------------------------------------
(* A call that touches neither sockets nor operations.                     *)
LEMMA ObjectOnly ==
  ASSUME NfInv, objs' \in Seq(Objects), objs' # <<>>, freelist' \in Seq(1..Len(objs')), FreeInv',
         UNCHANGED <<sock, assoc, hdata, ctx, wait, pend, lsn>>
  PROVE  NfInv'
BY DEF NfInv, NfType, StartInv, AcceptInv, ListenInv, KeyInv

(* st_netfd_free, called by the program.                                   *)
LEMMA FreeStep == ASSUME NfInv, NEW o \in DOMAIN objs, FreeObj(o) PROVE NfInv'
BY FreeFacts, ObjectOnly DEF FreeObj, NfInv

(* st_netfd_setspecific.                                                   *)
LEMMA SpecificStep ==
  ASSUME NfInv, NEW o \in DOMAIN objs, st_netfd_setspecific(o) PROVE NfInv'
<1> DEFINE m == [objs[o] EXCEPT !.priv = TRUE]
<1>1. /\ objs \in Seq(Objects) /\ o \in 1..Len(objs) /\ objs[o] \in Objects /\ objs[o].inuse
      /\ freelist \in Seq(1..Len(objs)) /\ freelist' = freelist /\ Len(objs) \in Nat
  BY DEF NfInv, NfType, st_netfd_setspecific
<1>2. objs' = [objs EXCEPT ![o] = m]
  BY DEF st_netfd_setspecific
<1>3. m \in Objects /\ m.inuse
  BY <1>1 DEF Objects
<1> HIDE DEF m
<1>4. /\ objs' \in Seq(Objects) /\ Len(objs') = Len(objs) /\ objs'[o] = m
      /\ \A x \in 1..Len(objs) : x # o => objs'[x] = objs[x]
  BY <1>1, <1>2, <1>3, ExceptSeq
<1>5. FreeInv'
  BY <1>1, <1>3, <1>4 DEF NfInv, FreeInv
<1>6. objs' # <<>>
  BY <1>1, <1>4
<1> QED BY <1>1, <1>4, <1>5, <1>6, ObjectOnly DEF st_netfd_setspecific

(* st_netfd_close: the listening socket closes with its own descriptor.    *)
LEMMA CloseStep == ASSUME NfInv, NEW o \in DOMAIN objs, st_netfd_close(o) PROVE NfInv'
<1>1. /\ objs' \in Seq(Objects) /\ objs' # <<>>
      /\ freelist' \in Seq(1..Len(objs')) /\ FreeInv'
  BY FreeFacts DEF NfInv, st_netfd_close
<1>2. UNCHANGED <<hdata, ctx, wait>> /\ lsn' = IF objs[o].osfd = lsn THEN NoSock ELSE lsn
  BY DEF st_netfd_close
<1>3. objs[o] \in Objects
  BY DEF NfInv, NfType
<1>4. CASE objs[o].osfd \in SockNums
  <2> DEFINE s == objs[o].osfd
  <2>1. /\ sock' = [sock EXCEPT ![s] = "closed"]
        /\ assoc' = [assoc EXCEPT ![s] = 0]
        /\ pend' = Aborted(pend, s)
    BY <1>4 DEF st_netfd_close, CloseSocket, Aborted
  <2>2. /\ pend' \subseteq Pending
        /\ \A q \in pend' : \E p \in pend : q.thread = p.thread /\ q.key = p.key
        /\ \A q, r \in pend' : q.thread = r.thread /\ q.thread \in Acceptors => q = r
    <3>1. pend \in SUBSET pend
      OBVIOUS
    <3> HIDE DEF s
    <3> QED BY <2>1, <3>1, AbortKeeps DEF NfInv
  <2>3. NfType'
    <3>1. assoc' \in [SockNums -> 0..Len(hdata')]
      <4>1. Len(hdata) \in Nat /\ assoc \in [SockNums -> 0..Len(hdata)] /\ hdata' = hdata
        BY <1>2 DEF NfInv, NfType
      <4>2. 0 \in 0..Len(hdata)
        BY <4>1
      <4> QED BY <2>1, <4>1, <4>2
    <3> QED BY <1>1, <1>2, <2>1, <2>2, <3>1 DEF NfInv, NfType, Socks
  <2>4. AcceptInv'
    BY <1>2, <2>2 DEF NfInv, AcceptInv
  <2>5. ListenInv'
    <3>1. \A x \in SockNums : sock'[x] = "listen" => x = lsn'
      BY <1>2, <2>1, <1>4 DEF NfInv, NfType, ListenInv
    <3>2. ASSUME lsn' # NoSock
          PROVE  /\ sock'[lsn'] = "listen" /\ assoc'[lsn'] # 0
                 /\ \A c \in Callers : ctx'[c].osfd # lsn'
                 /\ \A k \in 1..Len(hdata') : hdata'[k] = lsn' => k = assoc'[lsn'] /\ KeyInv(k)'
      <4>1. lsn' = lsn /\ lsn # s /\ lsn \in SockNums
        BY <1>2, <3>2 DEF NfInv, NfType, Socks
      <4>2. ASSUME NEW k \in 1..Len(hdata), KeyInv(k) PROVE KeyInv(k)'
        <5>1. k # 0 /\ assoc \in [SockNums -> 0..Len(hdata)]
          BY DEF NfInv, NfType
        <5>2. \A x \in SockNums : assoc'[x] = k => x = lsn'
          BY <1>4, <2>1, <4>1, <4>2, <5>1 DEF KeyInv
        <5>3. \A p \in pend' : p.key = k => p.thread \in Acceptors /\ ctx'[p.thread].type = "ACCEPT"
          BY <1>2, <2>2, <4>2 DEF KeyInv
        <5> QED BY <5>2, <5>3 DEF KeyInv
      <4>3. sock'[lsn] = sock[lsn] /\ assoc'[lsn] = assoc[lsn]
        BY <2>1, <4>1 DEF NfInv, NfType
      <4>4. lsn # NoSock
        BY <3>2, <4>1
      <4> QED BY <1>2, <4>1, <4>2, <4>3, <4>4 DEF NfInv, ListenInv
    <3> QED BY <3>1, <3>2 DEF ListenInv
  <2>6. StartInv'
    BY <1>1 DEF StartInv
  <2> QED BY <1>1, <2>3, <2>4, <2>5, <2>6 DEF NfInv
<1>5. CASE objs[o].osfd \notin SockNums
  <2>1. UNCHANGED <<sock, assoc, pend>> /\ lsn' = lsn
    BY <1>2, <1>3, <1>5 DEF st_netfd_close, Objects, Socks, NfInv, NfType
  <2> QED BY <1>1, <1>2, <2>1, ObjectOnly
<1> QED BY <1>4, <1>5

(* st_netfd_listen: the first descriptor, or one more abandoned socket.    *)
LEMMA ListenStep ==
  ASSUME NfInv, NEW s \in SockNums, NEW ok \in BOOLEAN, st_netfd_listen(s, ok) PROVE NfInv'
<1>1. /\ objs = <<>> /\ sock[s] = "closed" /\ pend = {} /\ lsn = NoSock
      /\ UNCHANGED <<ctx, wait, pend>>
      /\ \A c \in Callers : ctx[c].osfd = NoSock
      /\ \A k \in 1..Len(hdata) : hdata[k] \in SockNums /\ sock[hdata[k]] # "closed"
  BY DEF st_netfd_listen, NfInv, StartInv
<1>2. /\ hdata' = Append(hdata, s) /\ hdata \in Seq(Socks) /\ s \in Socks
      /\ assoc' = [assoc EXCEPT ![s] = Len(hdata) + 1]
      /\ sock' = [sock EXCEPT ![s] = IF ok THEN "listen" ELSE "open"]
      /\ lsn' = IF ok THEN s ELSE NoSock
  BY DEF st_netfd_listen, NfInv, NfType, Socks
<1>3. /\ hdata' \in Seq(Socks) /\ Len(hdata') = Len(hdata) + 1 /\ Len(hdata) \in Nat
      /\ \A k \in 1..Len(hdata) : hdata'[k] = hdata[k]
      /\ hdata'[Len(hdata) + 1] = s
  BY <1>2
<1>4. assoc' \in [SockNums -> 0..Len(hdata')]
  BY <1>2, <1>3 DEF NfInv, NfType
<1>5. objs' \in Seq(Objects) /\ freelist' \in Seq(1..Len(objs')) /\ FreeInv' /\ (ok => objs' # <<>>)
  <2>1. CASE ok
    BY <2>1, NewFacts DEF st_netfd_listen, NfInv
  <2>2. CASE ~ok
    BY <2>2 DEF st_netfd_listen, NfInv, NfType, FreeInv
  <2> QED BY <2>1, <2>2
<1>6. NfType'
  BY <1>1, <1>2, <1>3, <1>4, <1>5 DEF NfInv, NfType, Socks
<1>7. AcceptInv'
  BY <1>1 DEF AcceptInv
<1>8. StartInv'
  <2>1. CASE ok
    BY <1>5, <2>1 DEF StartInv
  <2>2. CASE ~ok
    BY <1>1, <1>2, <1>3, <2>2 DEF StartInv, NfInv, NfType
  <2> QED BY <2>1, <2>2
<1>9. ListenInv'
  <2>1. \A x \in SockNums : sock'[x] = "listen" => x = lsn'
    BY <1>1, <1>2, NfAssumption DEF NfInv, NfType, ListenInv
  <2>2. ASSUME lsn' # NoSock
        PROVE  /\ sock'[lsn'] = "listen" /\ assoc'[lsn'] # 0
               /\ \A c \in Callers : ctx'[c].osfd # lsn'
               /\ \A k \in 1..Len(hdata') : hdata'[k] = lsn' => k = assoc'[lsn'] /\ KeyInv(k)'
    <3>1. ok /\ lsn' = s
      BY <1>2, <2>2
    <3>2. \A k \in 1..Len(hdata) : hdata'[k] # s
      BY <1>1, <1>3
    <3>3. ASSUME NEW k \in 1..Len(hdata'), hdata'[k] = lsn' PROVE k = Len(hdata) + 1 /\ KeyInv(k)'
      <4>1. k = Len(hdata) + 1
        BY <1>3, <3>1, <3>2, <3>3
      <4> QED BY <1>1, <1>2, <1>3, <3>1, <4>1 DEF KeyInv, NfInv, NfType
    <3>4. sock'[s] = "listen" /\ assoc'[s] = Len(hdata) + 1
      BY <1>2, <3>1 DEF NfInv, NfType
    <3>5. \A c \in Callers : ctx'[c].osfd # lsn'
      BY <1>1, <3>1, NfAssumption
    <3> QED BY <1>3, <3>1, <3>3, <3>4, <3>5
  <2> QED BY <2>1, <2>2 DEF ListenInv
<1> QED BY <1>5, <1>6, <1>7, <1>8, <1>9 DEF NfInv

-----------------------------------------------------------------------------
(* A thread that waits for nothing starts an operation and waits for it.   *)
LEMMA AddPend ==
  ASSUME NfType, AcceptInv, NEW c \in Callers, wait[c] = "none",
         NEW r \in Pending, r.thread = c, pend' = pend \cup {r},
         NEW w, w # "none", wait' = [wait EXCEPT ![c] = w]
  PROVE  AcceptInv'
BY DEF NfType, AcceptInv, Pending

(* A thread that waits for nothing overwrites its context: no accept of    *)
(* the listening socket's key is its own.                                  *)
LEMMA IdleKey ==
  ASSUME NfType, AcceptInv, NEW c \in Callers, wait[c] = "none", NEW k, KeyInv(k)
  PROVE  \A p \in pend : p.key = k => p.thread # c
BY DEF NfType, AcceptInv, KeyInv

(* st_accept.                                                              *)
LEMMA AcceptStep ==
  ASSUME NfInv, NEW c \in Callers, NEW s \in SockNums, NEW o \in DOMAIN objs, st_accept(c, o, s)
  PROVE  NfInv'
<1> DEFINE l == objs[o].osfd
           r == [thread |-> c, sock |-> l, peer |-> NewOsfd(s), key |-> assoc[l], aborted |-> FALSE]
<1>1. /\ c \in Acceptors /\ wait[c] = "none" /\ l \in SockNums /\ sock[s] = "closed"
      /\ sock' = [sock EXCEPT ![s] = "open"]
      /\ ctx' = [ctx EXCEPT ![c] = [type |-> "ACCEPT", osfd |-> s]]
      /\ UNCHANGED <<assoc, hdata, lsn>>
      /\ \/ sock[l] = "listen" /\ pend' = pend \cup {r} /\ wait' = [wait EXCEPT ![c] = "forever"]
         \/ UNCHANGED <<pend, wait>>
  BY DEF st_accept, Pend
<1>2. /\ objs' \in Seq(Objects) /\ objs' # <<>>
      /\ freelist' \in Seq(1..Len(objs')) /\ FreeInv' /\ NewOsfd(s) \in Socks
  BY NewFacts DEF st_accept, NfInv
<1>3. lsn # s
  BY <1>1, NfAssumption DEF NfInv, NfType, ListenInv
<1>4. sock[l] = "listen" => l = lsn /\ r \in Pending /\ r.key = assoc[lsn] /\ r.key \in 1..Len(hdata)
                            /\ r.thread = c
  BY <1>1, <1>2, NfAssumption DEF NfInv, NfType, ListenInv, Pending, Socks
<1> HIDE DEF r, l
<1>5. NfType'
  BY <1>1, <1>2, <1>4 DEF NfInv, NfType, Socks
<1>6. AcceptInv'
  <2>1. CASE UNCHANGED <<pend, wait>>
    BY <2>1 DEF NfInv, AcceptInv
  <2>2. CASE sock[l] = "listen" /\ pend' = pend \cup {r} /\ wait' = [wait EXCEPT ![c] = "forever"]
    BY <1>1, <1>4, <2>2, AddPend DEF NfInv
  <2> QED BY <1>1, <2>1, <2>2
<1>7. ListenInv'
  <2>1. \A x \in SockNums : sock'[x] = "listen" => x = lsn'
    BY <1>1 DEF NfInv, NfType, ListenInv
  <2>2. ASSUME lsn # NoSock
        PROVE  /\ sock'[lsn] = "listen" /\ assoc'[lsn] # 0
               /\ \A d \in Callers : ctx'[d].osfd # lsn
    BY <1>1, <1>3, <2>2 DEF NfInv, NfType, ListenInv, Socks
  <2>3. ASSUME lsn # NoSock, NEW k \in 1..Len(hdata), hdata[k] = lsn
        PROVE  k = assoc[lsn] /\ KeyInv(k)'
    <3>1. k = assoc[lsn] /\ KeyInv(k)
      BY <2>3 DEF NfInv, ListenInv
    <3>2. \A p \in pend' : p \in pend \/ (p = r /\ p.thread = c)
      BY <1>1, <1>4
    <3>3. ctx'[c].type = "ACCEPT" /\ \A d \in Callers : d # c => ctx'[d] = ctx[d]
      BY <1>1 DEF NfInv, NfType
    <3>4. \A p \in pend : p.thread \in Callers
      BY DEF NfInv, NfType, Pending
    <3> QED BY <1>1, <3>1, <3>2, <3>3, <3>4 DEF KeyInv
  <2> QED BY <1>1, <2>1, <2>2, <2>3 DEF ListenInv
<1>8. StartInv'
  BY <1>2 DEF StartInv
<1> QED BY <1>2, <1>5, <1>6, <1>7, <1>8 DEF NfInv

(* st_connect.                                                             *)
LEMMA ConnectStep ==
  ASSUME NfInv, NEW c \in Callers, NEW s \in SockNums, st_connect(c, s)
  PROVE  NfInv'
<1> DEFINE n == Len(hdata) + 1
           r == [thread |-> c, sock |-> s, peer |-> NoSock, key |-> n, aborted |-> FALSE]
<1>1. /\ wait[c] = "none" /\ sock[s] = "closed" /\ sock' = [sock EXCEPT ![s] = "open"]
      /\ lsn' = lsn
      /\ \/ UNCHANGED <<ctx, hdata, assoc, pend, wait>>
         \/ /\ ctx' = [ctx EXCEPT ![c] = [type |-> "CONNECT", osfd |-> s]]
            /\ hdata' = Append(hdata, s) /\ assoc' = [assoc EXCEPT ![s] = n]
            /\ pend' = pend \cup {r} /\ wait' = [wait EXCEPT ![c] = "forever"]
  BY DEF st_connect
<1>2. /\ objs' \in Seq(Objects) /\ objs' # <<>>
      /\ freelist' \in Seq(1..Len(objs')) /\ FreeInv'
  BY NewFacts DEF st_connect, NfInv
<1>3. lsn # s
  BY <1>1, NfAssumption DEF NfInv, NfType, ListenInv
<1>4. StartInv'
  BY <1>2 DEF StartInv
<1>5. \A x \in SockNums : sock'[x] = "listen" => x = lsn'
  BY <1>1 DEF NfInv, NfType, ListenInv
<1>6. CASE UNCHANGED <<ctx, hdata, assoc, pend, wait>>
  <2>1. NfType'
    BY <1>1, <1>2, <1>6 DEF NfInv, NfType
  <2>2. AcceptInv'
    BY <1>6 DEF NfInv, AcceptInv
  <2>3. lsn # NoSock => sock'[lsn] = sock[lsn]
    BY <1>1, <1>3 DEF NfInv, NfType, Socks
  <2>4. ListenInv'
    BY <1>1, <1>5, <1>6, <2>3 DEF NfInv, ListenInv, KeyInv
  <2> QED BY <1>2, <1>4, <2>1, <2>2, <2>4 DEF NfInv
<1>7. CASE /\ ctx' = [ctx EXCEPT ![c] = [type |-> "CONNECT", osfd |-> s]]
           /\ hdata' = Append(hdata, s) /\ assoc' = [assoc EXCEPT ![s] = n]
           /\ pend' = pend \cup {r} /\ wait' = [wait EXCEPT ![c] = "forever"]
  <2>1. /\ hdata' \in Seq(Socks) /\ Len(hdata') = n /\ Len(hdata) \in Nat /\ n \in Nat
        /\ \A k \in 1..Len(hdata) : hdata'[k] = hdata[k] /\ k # n
        /\ hdata'[n] = s
    BY <1>7 DEF NfInv, NfType, Socks
  <2>2. r \in Pending /\ r.key = n /\ r.thread = c
    BY <2>1 DEF Pending, Socks
  <2> HIDE DEF r
  <2>3. \A x \in SockNums : assoc[x] \in 0..Len(hdata) /\ assoc[x] \in 0..n
    BY <2>1 DEF NfInv, NfType
  <2>4. assoc' \in [SockNums -> 0..n]
    BY <1>7, <2>1, <2>3 DEF NfInv, NfType
  <2>5. \A p \in pend' : p \in Pending /\ p.key \in 1..n
    BY <1>7, <2>1, <2>2 DEF NfInv, NfType
  <2>6. ctx' \in [Callers -> [type : {"none", "ACCEPT", "CONNECT", "TRANSFER"}, osfd : Socks]]
    BY <1>7 DEF NfInv, NfType, Socks
  <2>7. NfType'
    BY <1>1, <1>2, <1>7, <2>1, <2>4, <2>5, <2>6 DEF NfInv, NfType
  <2>8. AcceptInv'
    BY <1>1, <1>7, <2>2, AddPend DEF NfInv
  <2>9. ASSUME lsn # NoSock
        PROVE  /\ sock'[lsn] = "listen" /\ assoc'[lsn] = assoc[lsn] /\ assoc[lsn] # 0
               /\ \A d \in Callers : ctx'[d].osfd # lsn
    BY <1>1, <1>3, <1>7, <2>9 DEF NfInv, NfType, ListenInv, Socks
  <2>10. ASSUME lsn # NoSock, NEW k \in 1..Len(hdata'), hdata'[k] = lsn
         PROVE  k = assoc[lsn] /\ KeyInv(k)'
    <3>1. k \in 1..Len(hdata) /\ hdata[k] = lsn
      BY <1>3, <2>1, <2>10
    <3>2. k = assoc[lsn] /\ KeyInv(k) /\ k # n
      BY <2>1, <2>10, <3>1 DEF NfInv, ListenInv
    <3>3. \A p \in pend : p.key = k => p.thread # c /\ p.thread \in Callers
      BY <1>1, <3>2, IdleKey DEF NfInv, NfType, Pending
    <3>4. \A d \in Callers : d # c => ctx'[d] = ctx[d]
      BY <1>7 DEF NfInv, NfType
    <3>5. \A x \in SockNums : assoc'[x] = k => x = lsn'
      BY <1>1, <1>7, <3>2, <2>3 DEF KeyInv, NfInv, NfType
    <3>6. \A p \in pend' : p.key = k => p \in pend
      BY <1>7, <2>2, <3>2
    <3> QED BY <3>2, <3>3, <3>4, <3>5, <3>6 DEF KeyInv
  <2>11. ListenInv'
    BY <1>1, <1>5, <2>9, <2>10 DEF ListenInv
  <2> QED BY <1>2, <1>4, <2>7, <2>8, <2>11 DEF NfInv
<1> QED BY <1>1, <1>6, <1>7

(* st_read and st_write.  A connected socket in the listening socket's key *)
(* has taken its place there.                                              *)
LEMMA TransferStep ==
  ASSUME NfInv, NEW c \in Callers, NEW o \in DOMAIN objs, Transfer(c, o)
  PROVE  NfInv'
<1> DEFINE s == objs[o].osfd
           r == [thread |-> c, sock |-> s, peer |-> NoSock, key |-> assoc[s], aborted |-> FALSE]
<1>1. /\ wait[c] = "none" /\ s \in SockNums /\ ctx' = [ctx EXCEPT ![c].type = "TRANSFER"]
      /\ UNCHANGED <<sock, assoc, hdata, objs, freelist, lsn>>
      /\ \/ UNCHANGED <<pend, wait>>
         \/ /\ sock[s] = "conn" /\ assoc[s] # 0
            /\ pend' = pend \cup {r} /\ wait' = [wait EXCEPT ![c] = "timed"]
  BY DEF Transfer, Pend
<1>2. objs # <<>>
  BY DEF NfInv, NfType
<1>3. assoc[s] # 0 => r \in Pending /\ r.key \in 1..Len(hdata) /\ r.key = assoc[s] /\ r.thread = c
  BY <1>1 DEF NfInv, NfType, Pending, Socks
<1> HIDE DEF r, s
<1>4. ctx' \in [Callers -> [type : {"none", "ACCEPT", "CONNECT", "TRANSFER"}, osfd : Socks]]
      /\ \A d \in Callers : ctx'[d].osfd = ctx[d].osfd /\ (d # c => ctx'[d] = ctx[d])
  <2>1. ctx \in [Callers -> [type : {"none", "ACCEPT", "CONNECT", "TRANSFER"}, osfd : Socks]]
    BY DEF NfInv, NfType
  <2>2. ctx' = [ctx EXCEPT ![c].type = "TRANSFER"]
    BY <1>1
  <2> QED BY <2>1, <2>2
<1>5. NfType'
  BY <1>1, <1>3, <1>4 DEF NfInv, NfType
<1>6. AcceptInv'
  <2>1. CASE UNCHANGED <<pend, wait>>
    BY <2>1 DEF NfInv, AcceptInv
  <2>2. CASE /\ sock[s] = "conn" /\ assoc[s] # 0
             /\ pend' = pend \cup {r} /\ wait' = [wait EXCEPT ![c] = "timed"]
    BY <1>1, <1>3, <2>2, AddPend DEF NfInv
  <2> QED BY <1>1, <2>1, <2>2
<1>7. ASSUME lsn # NoSock, NEW k \in 1..Len(hdata), hdata[k] = lsn
      PROVE  KeyInv(k)'
  <2>1. KeyInv(k) /\ sock[lsn] = "listen"
    BY <1>7 DEF NfInv, ListenInv
  <2>2. \A p \in pend : p.key = k => p.thread # c /\ p.thread \in Callers
    BY <1>1, <2>1, IdleKey DEF NfInv, NfType, Pending
  <2>3. \A p \in pend' : p.key = k => p \in pend
    BY <1>1, <1>3, <2>1 DEF KeyInv
  <2> QED BY <1>1, <1>4, <2>1, <2>2, <2>3 DEF KeyInv
<1>8. ListenInv'
  BY <1>1, <1>4, <1>7 DEF NfInv, ListenInv
<1>9. StartInv' /\ FreeInv'
  BY <1>1, <1>2 DEF StartInv, FreeInv, NfInv
<1> QED BY <1>5, <1>6, <1>8, <1>9 DEF NfInv

(* A read gives up: threads that accept do not.                            *)
LEMMA TimeoutStep == ASSUME NfInv, NEW c \in Callers, Timeout(c) PROVE NfInv'
<1>1. NfType'
  BY DEF NfInv, NfType, Timeout
<1>2. AcceptInv'
  BY DEF NfInv, NfType, AcceptInv, Timeout
<1>3. FreeInv' /\ StartInv' /\ ListenInv'
  BY DEF NfInv, FreeInv, StartInv, ListenInv, KeyInv, Timeout
<1> QED BY <1>1, <1>2, <1>3 DEF NfInv

(* The completion worker: the socket it closes is not the listening one,   *)
(* and the socket it puts into a key is not either.                        *)
LEMMA WorkerStep ==
  ASSUME NfInv, NEW p \in pend, NEW ok \in BOOLEAN, _st_iocp_thread_pool(p, ok)
  PROVE  NfInv'
<1> DEFINE c == p.thread
           type == ctx[c].type
           done == Completed(p, ok)
           shut == IF Closes(type, ok) THEN hdata[p.key] ELSE NoSock
           s == ctx[c].osfd
<1>1. /\ sock' = [x \in SockNums |-> IF x = shut THEN "closed" ELSE done[x]]
      /\ hdata' = IF type = "ACCEPT" THEN [hdata EXCEPT ![p.key] = s] ELSE hdata
      /\ assoc' = [x \in SockNums |->
                     IF x = shut THEN 0
                     ELSE IF type = "ACCEPT" /\ x = s /\ assoc[x] = 0
                             /\ sock[x] # "closed" THEN p.key
                     ELSE assoc[x]]
      /\ pend' = Aborted(pend \ {p}, shut)
      /\ wait' = [wait EXCEPT ![c] = "none"]
      /\ UNCHANGED <<objs, freelist, ctx, lsn>>
  BY DEF _st_iocp_thread_pool, Aborted
<1>2. /\ c \in Callers /\ p.key \in 1..Len(hdata) /\ s \in Socks /\ Len(hdata) \in Nat
      /\ hdata \in Seq(Socks) /\ p \in Pending
  BY DEF NfInv, NfType, Pending
<1>3. done \in [SockNums -> {"closed", "open", "listen", "conn"}]
      /\ \A x \in SockNums : done[x] = "listen" <=> sock[x] = "listen"
  BY DEF Completed, NfInv, NfType
<1>4. Closes(type, ok) => type \notin {"ACCEPT", "CONNECT"}
  BY DEF Closes
<1>5. lsn # NoSock => shut # lsn
  <2> SUFFICES ASSUME lsn # NoSock, shut = lsn PROVE FALSE
    OBVIOUS
  <2>1. Closes(type, ok) /\ hdata[p.key] = lsn
    OBVIOUS
  <2>2. KeyInv(p.key)
    BY <1>2, <2>1 DEF NfInv, ListenInv
  <2>3. type = "ACCEPT"
    BY <2>2 DEF KeyInv
  <2> QED BY <1>4, <2>1, <2>3
<1> HIDE DEF shut, done
<1>6. /\ pend' \subseteq Pending
      /\ \A q \in pend' : \E r \in pend \ {p} : q.thread = r.thread /\ q.key = r.key
      /\ \A q, r \in pend' : q.thread = r.thread /\ q.thread \in Acceptors => q = r
  <2>1. pend \ {p} \in SUBSET pend
    OBVIOUS
  <2> QED BY <1>1, <2>1, AbortKeeps DEF NfInv
<1>7. /\ hdata' \in Seq(Socks) /\ Len(hdata') = Len(hdata)
      /\ \A k \in 1..Len(hdata) : hdata'[k] = hdata[k] \/ (type = "ACCEPT" /\ k = p.key /\ hdata'[k] = s)
      /\ type = "ACCEPT" => hdata'[p.key] = s
  <2>1. CASE type = "ACCEPT"
    BY <1>1, <1>2, <2>1, ExceptSeq
  <2>2. CASE type # "ACCEPT"
    BY <1>1, <1>2, <2>2
  <2> QED BY <2>1, <2>2
<1>8. NfType'
  <2>1. assoc' \in [SockNums -> 0..Len(hdata)]
    <3>1. \A x \in SockNums : assoc[x] \in 0..Len(hdata)
      BY DEF NfInv, NfType
    <3> QED BY <1>1, <1>2, <3>1
  <2>2. sock' \in [SockNums -> {"closed", "open", "listen", "conn"}]
    BY <1>1, <1>3
  <2>3. \A q \in pend' : q.key \in 1..Len(hdata)
    BY <1>6 DEF NfInv, NfType
  <2> QED BY <1>1, <1>6, <1>7, <2>1, <2>2, <2>3 DEF NfInv, NfType
<1>9. AcceptInv'
  <2> SUFFICES ASSUME NEW q \in pend', q.thread \in Acceptors PROVE wait'[q.thread] # "none"
    BY <1>6 DEF AcceptInv
  <2>1. PICK r \in pend \ {p} : q.thread = r.thread
    BY <1>6
  <2>2. r.thread # c /\ wait[r.thread] # "none"
    BY <2>1 DEF NfInv, AcceptInv
  <2>3. r.thread \in Callers
    BY DEF NfInv, NfType, Pending
  <2> QED BY <1>1, <2>1, <2>2, <2>3 DEF NfInv, NfType
<1>10. ListenInv'
  <2>1. \A x \in SockNums : sock'[x] = "listen" => x = lsn'
    BY <1>1, <1>3 DEF NfInv, ListenInv
  <2>2. ASSUME lsn # NoSock
        PROVE  /\ sock'[lsn] = "listen" /\ assoc'[lsn] = assoc[lsn] /\ assoc[lsn] # 0
               /\ \A d \in Callers : ctx[d].osfd # lsn
    BY <1>1, <1>3, <1>5, <2>2 DEF NfInv, NfType, ListenInv, Socks
  <2>3. ASSUME lsn # NoSock, NEW k \in 1..Len(hdata'), hdata'[k] = lsn
        PROVE  k = assoc[lsn] /\ KeyInv(k)'
    <3>1. k \in 1..Len(hdata) /\ s # lsn
      BY <1>2, <1>7, <2>2, <2>3
    <3>2. hdata[k] = lsn /\ ~(type = "ACCEPT" /\ k = p.key)
      BY <1>7, <2>3, <3>1
    <3>3. k = assoc[lsn] /\ KeyInv(k)
      BY <2>3, <3>1, <3>2 DEF NfInv, ListenInv
    <3>4. \A x \in SockNums : assoc'[x] = k => x = lsn'
      BY <1>1, <1>2, <3>1, <3>2, <3>3 DEF KeyInv
    <3>5. \A q \in pend' : q.key = k => q.thread \in Acceptors /\ ctx'[q.thread].type = "ACCEPT"
      <4>1. ctx' = ctx
        BY <1>1
      <4>2. ASSUME NEW q \in pend', q.key = k
            PROVE  q.thread \in Acceptors /\ ctx[q.thread].type = "ACCEPT"
        <5>1. PICK r \in pend : q.thread = r.thread /\ q.key = r.key
          BY <1>6
        <5> QED BY <3>3, <4>2, <5>1 DEF KeyInv
      <4> QED BY <4>1, <4>2
    <3> QED BY <3>3, <3>4, <3>5 DEF KeyInv
  <2> QED BY <1>1, <2>1, <2>2, <2>3 DEF ListenInv
<1>11. StartInv' /\ FreeInv'
  BY <1>1 DEF NfInv, StartInv, FreeInv
<1> QED BY <1>8, <1>9, <1>10, <1>11 DEF NfInv

-----------------------------------------------------------------------------
(* NfInv is inductive.                                                     *)
THEOREM NetFdInductive == NfSpec => []NfInv
<1>1. NfInit => NfInv
  <2> SUFFICES ASSUME NfInit PROVE NfInv
    OBVIOUS
  <2>1. Len(objs) = 0 /\ Len(freelist) = 0 /\ Len(hdata) = 0
    BY DEF NfInit
  <2>2. NfType
    BY <2>1 DEF NfInit, NfType, Socks
  <2>3. FreeInv
    BY <2>1 DEF FreeInv
  <2>4. StartInv /\ AcceptInv
    BY <2>1 DEF NfInit, StartInv, AcceptInv
  <2>5. ListenInv
    BY <2>1 DEF NfInit, ListenInv
  <2> QED BY <2>2, <2>3, <2>4, <2>5 DEF NfInv
<1>2. NfInv /\ [NfNext]_nfvars => NfInv'
  <2> SUFFICES ASSUME NfInv, [NfNext]_nfvars PROVE NfInv'
    OBVIOUS
  <2>1. CASE UNCHANGED nfvars
    BY <2>1 DEF nfvars, NfInv, NfType, FreeInv, StartInv, AcceptInv, ListenInv, KeyInv
  <2>2. CASE NfNext
    BY <2>2, FreeStep, CloseStep, SpecificStep, ListenStep, ConnectStep, AcceptStep,
       TransferStep, TimeoutStep, WorkerStep DEF NfNext
  <2> QED BY <2>1, <2>2
<1> QED BY <1>1, <1>2, PTL DEF NfSpec

(* An object is in use or in the free list, once, for every sequence of    *)
(* calls, double frees and double closes included (st_netfd_free).         *)
THEOREM FreelistStaysSound == NfSpec => []FreelistSound
<1>1. NfInv => FreelistSound
  <2> SUFFICES ASSUME NfInv PROVE FreelistSound
    OBVIOUS
  <2>1. DOMAIN freelist = 1..Len(freelist) /\ DOMAIN objs = 1..Len(objs)
    BY DEF NfInv, NfType
  <2>2. \A o : o \in ToSet(freelist) <=> \E i \in 1..Len(freelist) : freelist[i] = o
    BY <2>1 DEF ToSet
  <2>3. IsInjective(freelist)
    BY <2>1 DEF NfInv, FreeInv, IsInjective
  <2> QED BY <2>1, <2>2, <2>3 DEF NfInv, FreeInv, FreelistSound
<1> QED BY <1>1, NetFdInductive, PTL

(* The completion worker never closes the listening socket, whatever       *)
(* operations fail, time out or complete late (_st_iocp_thread_pool).      *)
THEOREM ListenerStaysOpen == NfSpec => []ListenerOpen
<1>1. NfInv => ListenerOpen
  BY DEF NfInv, ListenInv, ListenerOpen
<1> QED BY <1>1, NetFdInductive, PTL

-----------------------------------------------------------------------------
(* Thread-specific data and the stack cache (ThreadStorageSound), for any  *)
(* number of threads, keys, stacks and values: stacks are owned once, a    *)
(* running thread reads what it stored itself, and destructors run once,   *)
(* when nobody holds the value any more.                                   *)

Values == [key : Keys, n : Nat]

TdType ==
  /\ stacks \in Seq(Nat) /\ Len(stacks) <= MaxStacks
  /\ free \in Seq(1..Len(stacks))
  /\ data \in [0..MaxStacks -> [Keys -> 0..Len(vals)]]
  /\ stk \in [All -> 0..Len(stacks) \cup {NoStack}]
  /\ status \in [All -> {"none", "run", "zombie"}]
  /\ joinable \in [All -> BOOLEAN]
  /\ keys \in Seq(BOOLEAN) /\ Len(keys) <= KeysMax
  /\ set \in [All -> [Keys -> 0..Len(vals)]]
  /\ vals \in Seq(Values)

Listed(fs, s) == \E i \in 1..Len(fs) : fs[i] = s
Distinct(fs)  == \A i, j \in 1..Len(fs) : fs[i] = fs[j] => i = j

(* A stack is in the free list, once, or has one owner.                    *)
StackInv ==
  /\ stk[Main] = 0 /\ status[Main] # "none"
  /\ \A t \in Threads : IF status[t] = "none" THEN stk[t] = NoStack
                                              ELSE stk[t] \in 1..Len(stacks)
  /\ \A t, u \in Threads : stk[t] = stk[u] /\ stk[t] # NoStack => t = u
  /\ Distinct(free)
  /\ \A s \in 1..Len(stacks) : Listed(free, s) <=> \A t \in Threads : stk[t] # s

(* A running thread's array is what it stored; the others hold nothing.    *)
ArrayInv ==
  \A t \in All : IF status[t] = "run" THEN Array(t) = set[t] ELSE set[t] = NoData

Held(v) == \E t \in All : set[t][vals[v].key] = v

(* A value is held under its own key, which exists, by one thread.         *)
ValueInv ==
  /\ \A v \in 1..Len(vals) :
       /\ vals[v].key \in 1..Len(keys)
       /\ keys[vals[v].key] => vals[v].n = IF Held(v) THEN 0 ELSE 1
  /\ \A t \in All, k \in Keys : set[t][k] # 0 =>
       /\ vals[set[t][k]].key = k
       /\ \A u \in All : set[u][k] = set[t][k] => u = t

TdInv == TdType /\ StackInv /\ ArrayInv /\ ValueInv

-----------------------------------------------------------------------------
(* The stack cache.                                                        *)

(* _st_stack_free links the stack into the list, before its last element.  *)
LEMMA StackFreeFacts ==
  ASSUME NEW S, NEW fs \in Seq(S), NEW s \in S, Distinct(fs), ~Listed(fs, s),
         NEW g, g = _st_stack_free(fs, s)
  PROVE  /\ g \in Seq(S) /\ Distinct(g)
         /\ \A x : Listed(g, x) <=> Listed(fs, x) \/ x = s
<1>1. CASE fs = <<>>
  <2>1. g = <<s>> /\ g \in Seq(S) /\ Len(g) = 1 /\ g[1] = s /\ Len(fs) = 0
    BY <1>1 DEF _st_stack_free
  <2> QED BY <2>1 DEF Distinct, Listed
<1>2. CASE fs # <<>>
  <2> DEFINE n == Len(fs)
             f == SubSeq(fs, 1, n - 1)
             l == <<s, fs[n]>>
  <2>1. n \in Nat /\ n > 0
    BY <1>2
  <2>2. f \in Seq(S) /\ Len(f) = n - 1 /\ \A i \in 1..(n - 1) : f[i] = fs[i]
    <3>1. 1 \in Int /\ n - 1 \in Int /\ \A i \in 1..(n - 1) : fs[i] \in S
      BY <2>1
    <3>2. /\ f \in Seq(S) /\ Len(f) = IF 1 <= n - 1 THEN n - 1 - 1 + 1 ELSE 0
          /\ \A i \in 1..(n - 1 - 1 + 1) : f[i] = fs[1 + i - 1]
      BY <3>1, SubSeqProperties
    <3> HIDE DEF f, n
    <3>3. Len(f) = n - 1
      BY <2>1, <3>2
    <3>4. ASSUME NEW i \in 1..(n - 1) PROVE f[i] = fs[i]
      <4>1. i \in 1..(n - 1 - 1 + 1) /\ 1 + i - 1 = i
        BY <2>1
      <4> QED BY <3>2, <4>1
    <3> QED BY <3>2, <3>3, <3>4
  <2>3. l \in Seq(S) /\ Len(l) = 2 /\ l[1] = s /\ l[2] = fs[n]
    BY <2>1
  <2>4. g = f \o l
    BY <1>2 DEF _st_stack_free, Front, Last
  <2> HIDE DEF f, l
  <2>5. /\ g \in Seq(S) /\ Len(g) = n + 1
        /\ \A i \in 1..(n - 1) : g[i] = fs[i]
        /\ g[n] = s /\ g[n + 1] = fs[n]
    <3>1. /\ g \in Seq(S) /\ Len(g) = Len(f) + Len(l)
          /\ \A i \in 1..(Len(f) + Len(l)) : g[i] = IF i <= Len(f) THEN f[i] ELSE l[i - Len(f)]
      <4>1. PICK a, b : a = f /\ b = l
        OBVIOUS
      <4>2. a \in Seq(S) /\ b \in Seq(S)
        BY <2>2, <2>3, <4>1
      <4>3. /\ a \o b \in Seq(S) /\ Len(a \o b) = Len(a) + Len(b)
            /\ \A i \in 1..(Len(a) + Len(b)) :
                  (a \o b)[i] = IF i <= Len(a) THEN a[i] ELSE b[i - Len(a)]
        BY <4>2, ConcatProperties
      <4> QED BY <2>4, <4>1, <4>3
    <3> HIDE DEF n
    <3>2. Len(g) = n + 1 /\ \A i \in 1..(n + 1) : g[i] = IF i <= n - 1 THEN f[i] ELSE l[i - (n - 1)]
      <4>1. Len(f) = n - 1 /\ Len(l) = 2 /\ n - 1 + 2 = n + 1
        BY <2>1, <2>2, <2>3
      <4> QED BY <3>1, <4>1
    <3>3. ASSUME NEW i \in 1..(n - 1) PROVE g[i] = fs[i]
      <4>1. i \in 1..(n + 1) /\ i <= n - 1
        BY <2>1
      <4> QED BY <2>2, <3>2, <4>1
    <3>4. g[n] = s
      <4>1. n \in 1..(n + 1) /\ ~(n <= n - 1) /\ n - (n - 1) = 1
        BY <2>1
      <4>2. g[n] = l[n - (n - 1)]
        BY <3>2, <4>1
      <4> QED BY <2>3, <4>1, <4>2
    <3>5. g[n + 1] = fs[n]
      <4>1. n + 1 \in 1..(n + 1) /\ ~(n + 1 <= n - 1) /\ n + 1 - (n - 1) = 2
        BY <2>1
      <4>2. g[n + 1] = l[n + 1 - (n - 1)]
        <5>1. PICK k : k = n + 1
          OBVIOUS
        <5>2. k \in 1..(n + 1) /\ ~(k <= n - 1)
          BY <2>1, <5>1
        <5>3. g[k] = l[k - (n - 1)]
          BY <3>2, <5>2
        <5> QED BY <2>1, <5>1, <5>3
      <4> QED BY <2>3, <4>1, <4>2
    <3> QED BY <3>1, <3>2, <3>3, <3>4, <3>5
  <2> HIDE DEF n
  <2>6. Distinct(g)
    <3> SUFFICES ASSUME NEW i \in 1..(n + 1), NEW j \in 1..(n + 1), g[i] = g[j] PROVE i = j
      BY <2>5 DEF Distinct
    <3>1. \A k \in 1..(n + 1) : k # n => g[k] = fs[IF k = n + 1 THEN n ELSE k]
                                         /\ (IF k = n + 1 THEN n ELSE k) \in 1..n
      BY <2>1, <2>5
    <3>2. \A k \in 1..n : fs[k] # s
      BY DEF Listed, n
    <3>3. i # n /\ j # n => (IF i = n + 1 THEN n ELSE i) = (IF j = n + 1 THEN n ELSE j)
      BY <3>1 DEF Distinct, n
    <3>4. (i = n) <=> (j = n)
      BY <2>5, <3>1, <3>2
    <3> QED BY <2>1, <3>3, <3>4
  <2>7. ASSUME NEW x PROVE Listed(g, x) <=> Listed(fs, x) \/ x = s
    <3>1. ASSUME NEW i \in 1..(n + 1), g[i] = x PROVE x = s \/ \E k \in 1..n : fs[k] = x
      <4>1. CASE i \in 1..(n - 1)
        BY <2>1, <2>5, <3>1, <4>1
      <4>2. CASE i = n \/ i = n + 1
        BY <2>1, <2>5, <3>1, <4>2
      <4> QED BY <2>1, <4>1, <4>2
    <3>2. ASSUME NEW k \in 1..n, fs[k] = x PROVE \E i \in 1..(n + 1) : g[i] = x
      <4>1. CASE k \in 1..(n - 1)
        BY <2>1, <2>5, <3>2, <4>1
      <4>2. CASE k = n
        BY <2>1, <2>5, <3>2, <4>2
      <4> QED BY <2>1, <4>1, <4>2
    <3>3. n \in 1..(n + 1) /\ g[n] = s
      BY <2>1, <2>5
    <3> QED BY <2>5, <3>1, <3>2, <3>3 DEF Listed, n
  <2> QED BY <2>5, <2>6, <2>7
<1> QED BY <1>1, <1>2

(* g is fs without its i-th element.                                       *)
Removed(g, fs, i) ==
  /\ Len(g) = Len(fs) - 1
  /\ \A k \in 1..(i - 1) : g[k] = fs[k]
  /\ \A k \in i..(Len(fs) - 1) : g[k] = fs[k + 1]

(* ST_REMOVE_LINK takes one element out of a list.                         *)
LEMMA RemoveFacts ==
  ASSUME NEW S, NEW fs \in Seq(S), Distinct(fs), NEW i \in 1..Len(fs),
         NEW g, g = RemoveAt(fs, i)
  PROVE  /\ g \in Seq(S) /\ Distinct(g) /\ Removed(g, fs, i)
         /\ \A x : Listed(g, x) <=> Listed(fs, x) /\ x # fs[i]
<1> DEFINE n == Len(fs)
           f == SubSeq(fs, 1, i - 1)
           l == SubSeq(fs, i + 1, n)
<1>1. n \in Nat /\ i \in 1..n
  OBVIOUS
<1>2. f \in Seq(S) /\ Len(f) = i - 1 /\ \A k \in 1..(i - 1) : f[k] = fs[k]
  BY <1>1
<1>3. l \in Seq(S) /\ Len(l) = n - i /\ \A k \in 1..(n - i) : l[k] = fs[k + i]
  BY <1>1
<1>4. g = f \o l
  BY DEF RemoveAt
<1> HIDE DEF f, l
<1>5. /\ g \in Seq(S) /\ Len(g) = n - 1
      /\ \A k \in 1..(i - 1) : g[k] = fs[k]
      /\ \A k \in i..(n - 1) : g[k] = fs[k + 1]
  <2>1. g \in Seq(S) /\ Len(g) = Len(f) + Len(l)
    BY <1>2, <1>3, <1>4, ConcatProperties
  <2>2. \A k \in 1..(i - 1) : g[k] = f[k]
    BY <1>1, <1>2, <1>3, <1>4
  <2>3. ASSUME NEW k \in i..(n - 1) PROVE g[k] = fs[k + 1]
    <3>1. k - (i - 1) \in 1..(n - i) /\ k \notin 1..(i - 1) /\ k \in 1..(n - 1)
      BY <1>1
    <3>2. g[k] = l[k - (i - 1)]
      BY <1>1, <1>2, <1>3, <1>4, <3>1
    <3>3. l[k - (i - 1)] = fs[k - (i - 1) + i]
      BY <1>3, <3>1
    <3>4. k - (i - 1) + i = k + 1
      BY <1>1
    <3> QED BY <3>2, <3>3, <3>4
  <2> QED BY <1>1, <1>2, <1>3, <2>1, <2>2, <2>3
<1> DEFINE old(k) == IF k < i THEN k ELSE k + 1
<1>6. \A k \in 1..(n - 1) : g[k] = fs[old(k)] /\ old(k) \in 1..n /\ old(k) # i
  BY <1>1, <1>5
<1>7. Distinct(g)
  <2> SUFFICES ASSUME NEW j \in 1..(n - 1), NEW k \in 1..(n - 1), g[j] = g[k] PROVE j = k
    BY <1>5 DEF Distinct
  <2>1. old(j) = old(k)
    BY <1>6 DEF Distinct
  <2> QED BY <1>1, <2>1
<1>8. ASSUME NEW x PROVE Listed(g, x) <=> Listed(fs, x) /\ x # fs[i]
  <2>1. ASSUME NEW k \in 1..(n - 1), g[k] = x PROVE Listed(fs, x) /\ x # fs[i]
    BY <1>1, <1>6, <2>1 DEF Distinct, Listed
  <2>2. ASSUME NEW k \in 1..n, fs[k] = x, x # fs[i] PROVE \E j \in 1..(n - 1) : g[j] = x
    <3> DEFINE j == IF k < i THEN k ELSE k - 1
    <3>1. k # i
      BY <2>2
    <3>2. j \in 1..(n - 1) /\ old(j) = k
      BY <1>1, <3>1
    <3> QED BY <1>6, <2>2, <3>2
  <2> QED BY <1>5, <2>1, <2>2 DEF Listed
<1> QED BY <1>5, <1>7, <1>8 DEF Removed

Less == {ss \in Nat \X Nat : ss[1] < ss[2]}

(* A set of natural numbers has a least element.                           *)
LEMMA Least ==
  ASSUME NEW S, S \subseteq Nat, S # {} PROVE \E x \in S : \A y \in S : x <= y
<1>1. Less = OpToRel(<, Nat)
  BY Zenon DEF Less, OpToRel
<1>2. IsWellFoundedOn(Less, Nat)
  BY <1>1, NatLessThanWellFounded
<1>3. PICK x \in S : \A y \in S : ~(<<y, x>> \in Less)
  BY <1>2, WFMin
<1>4. ASSUME NEW y \in S PROVE x <= y
  <2>1. <<y, x>> \in Nat \X Nat /\ <<y, x>>[1] = y /\ <<y, x>>[2] = x
    OBVIOUS
  <2>2. ~(y < x)
    BY <1>3, <2>1 DEF Less
  <2> QED BY <2>2
<1> QED BY <1>4

(* _st_stack_new hands out a stack that nobody owns, and takes it out of   *)
(* the list.                                                               *)
LEMMA StackNewFacts ==
  ASSUME TdType, StackInv, NEW size \in Nat, NEW new, new = _st_stack_new(size)
  PROVE  /\ new.stacks \in Seq(Nat) /\ Len(new.stacks) \in {Len(stacks), Len(stacks) + 1}
         /\ new.s \in 1..Len(new.stacks) /\ \A t \in Threads : stk[t] # new.s
         /\ new.free \in Seq(1..Len(new.stacks)) /\ Distinct(new.free)
         /\ \A x \in 1..Len(new.stacks) :
              Listed(new.free, x) <=> x # new.s /\ \A t \in Threads : stk[t] # x
<1> DEFINE i == FirstFit(size)
           fits == {k \in DOMAIN free : stacks[free[k]] >= size}
           N == Len(stacks)
<1>1. /\ stacks \in Seq(Nat) /\ N \in Nat /\ free \in Seq(1..N) /\ DOMAIN free = 1..Len(free)
      /\ \A t \in Threads : stk[t] \in 0..N \cup {NoStack} /\ Threads \subseteq All
  BY DEF TdType, All
<1>2. i = 0 \/ i \in 1..Len(free)
  <2>1. CASE fits = {}
    BY <2>1 DEF FirstFit
  <2>2. CASE fits # {}
    <3>1. fits \subseteq Nat
      BY <1>1
    <3>2. i = CHOOSE k \in fits : \A j \in fits : k <= j
      BY <2>2 DEF FirstFit
    <3>3. \E k \in fits : \A j \in fits : k <= j
      BY <2>2, <3>1, Least
    <3> HIDE DEF fits, i
    <3>4. i \in fits
      BY <3>2, <3>3
    <3> QED BY <1>1, <3>4 DEF fits
  <2> QED BY <2>1, <2>2
<1> HIDE DEF i
<1>3. CASE i # 0
  <2>1. new = [s |-> free[i], free |-> RemoveAt(free, i), stacks |-> stacks]
    BY <1>3 DEF _st_stack_new, i
  <2>2. new.s = free[i] /\ new.free = RemoveAt(free, i) /\ new.stacks = stacks
    BY <2>1
  <2>3. i \in 1..Len(free) /\ free[i] \in 1..N /\ Listed(free, free[i])
    BY <1>1, <1>2, <1>3 DEF Listed
  <2>4. /\ new.free \in Seq(1..N) /\ Distinct(new.free)
        /\ \A x : Listed(new.free, x) <=> Listed(free, x) /\ x # free[i]
    BY <1>1, <2>2, <2>3, RemoveFacts DEF StackInv
  <2> QED BY <1>1, <2>2, <2>3, <2>4 DEF StackInv
<1>4. CASE i = 0
  <2>1. new = [s |-> N + 1, free |-> free, stacks |-> Append(stacks, size)]
    BY <1>4 DEF _st_stack_new, i
  <2>2. new.s = N + 1 /\ new.free = free /\ new.stacks = Append(stacks, size)
    BY <2>1
  <2>3. new.stacks \in Seq(Nat) /\ Len(new.stacks) = N + 1
    BY <1>1, <2>2
  <2>4. \A t \in Threads : stk[t] # N + 1
    BY <1>1 DEF NoStack
  <2>5. free \in Seq(1..(N + 1)) /\ \A k \in 1..Len(free) : free[k] \in 1..N
    <3>1. \A k \in 1..Len(free) : free[k] \in 1..(N + 1)
      BY <1>1
    <3> QED BY <1>1, <3>1
  <2>6. ~Listed(free, N + 1)
    BY <1>1, <2>5 DEF Listed
  <2>7. \A x \in 1..(N + 1) : x # N + 1 => x \in 1..N
    <3>1. N \in Nat
      BY <1>1
    <3> HIDE DEF N
    <3> QED BY <3>1
  <2>8. Distinct(free) /\ \A x \in 1..N : Listed(free, x) <=> \A t \in Threads : stk[t] # x
    BY DEF StackInv
  <2>9. N + 1 \in 1..(N + 1) /\ N + 1 \in Nat /\ N + 1 \notin 1..N
    BY <1>1
  <2> HIDE DEF N
  <2>10. \A x \in 1..(N + 1) : Listed(free, x) <=> x # N + 1 /\ \A t \in Threads : stk[t] # x
    BY <2>6, <2>7, <2>8
  <2> QED BY <2>2, <2>3, <2>4, <2>5, <2>8, <2>9, <2>10 DEF N
<1> QED BY <1>2, <1>3, <1>4

-----------------------------------------------------------------------------
(* The rest of the invariant when only the ownership of stacks changes.    *)
LEMMA StackOnly ==
  ASSUME TdInv, UNCHANGED <<keys, vals, set>>
  PROVE  ValueInv'
BY DEF TdInv, ValueInv, Held

(* st_key_create.                                                          *)
LEMMA KeyStep == ASSUME TdInv, NEW dtor \in BOOLEAN, st_key_create(dtor) PROVE TdInv'
<1>1. /\ keys' = Append(keys, dtor) /\ Len(keys) < KeysMax /\ keys \in Seq(BOOLEAN)
      /\ UNCHANGED <<stacks, free, data, stk, status, joinable, set, vals>>
  BY DEF st_key_create, TdInv, TdType
<1>2. /\ keys' \in Seq(BOOLEAN) /\ Len(keys') = Len(keys) + 1 /\ Len(keys) \in Nat
      /\ \A k \in 1..Len(keys) : keys'[k] = keys[k]
  BY <1>1, AppendProperties
<1>3. TdType'
  BY <1>1, <1>2, TdAssumption DEF TdInv, TdType
<1>4. StackInv' /\ ArrayInv'
  BY <1>1 DEF TdInv, StackInv, ArrayInv, Array
<1>5. ValueInv'
  BY <1>1, <1>2 DEF TdInv, ValueInv, Held
<1> QED BY <1>3, <1>4, <1>5 DEF TdInv

(* A thread that has given its stack back: everything but the values.      *)
LEMMA GiveBack ==
  ASSUME TdInv, NEW t \in Threads, status[t] # "none",
         status' = [status EXCEPT ![t] = "none"],
         free' = _st_stack_free(free, stk[t]), stk' = [stk EXCEPT ![t] = NoStack],
         stacks' = stacks
  PROVE  /\ StackInv' /\ free' \in Seq(1..Len(stacks))
         /\ stk' \in [All -> 0..Len(stacks) \cup {NoStack}]
         /\ status' \in [All -> {"none", "run", "zombie"}]
<1> DEFINE s == stk[t]
<1>1. /\ s \in 1..Len(stacks) /\ free \in Seq(1..Len(stacks)) /\ Distinct(free)
      /\ ~Listed(free, s) /\ t \in All /\ Main # t
  BY TdAssumption DEF TdInv, TdType, StackInv, All
<1>2. /\ free' \in Seq(1..Len(stacks)) /\ Distinct(free')
      /\ \A x : Listed(free', x) <=> Listed(free, x) \/ x = s
  BY <1>1, StackFreeFacts
<1>3. /\ \A u \in Threads : stk'[u] = IF u = t THEN NoStack ELSE stk[u]
      /\ \A u \in Threads : status'[u] = IF u = t THEN "none" ELSE status[u]
      /\ stk'[Main] = stk[Main] /\ status'[Main] = status[Main]
      /\ stk' \in [All -> 0..Len(stacks) \cup {NoStack}]
      /\ status' \in [All -> {"none", "run", "zombie"}]
  BY <1>1 DEF TdInv, TdType, All
<1>4. NoStack \notin 1..Len(stacks)
  BY DEF NoStack
<1>5. \A x \in 1..Len(stacks) : Listed(free', x) <=> \A u \in Threads : stk'[u] # x
  <2> SUFFICES ASSUME NEW x \in 1..Len(stacks)
               PROVE  Listed(free', x) <=> \A u \in Threads : stk'[u] # x
    OBVIOUS
  <2>1. CASE x = s
    BY <1>1, <1>2, <1>3, <1>4, <2>1 DEF TdInv, StackInv
  <2>2. CASE x # s
    BY <1>2, <1>3, <1>4, <2>2 DEF TdInv, StackInv
  <2> QED BY <2>1, <2>2
<1>6. StackInv'
  BY <1>2, <1>3, <1>5 DEF TdInv, StackInv
<1> QED BY <1>2, <1>3, <1>6

(* st_thread_join.                                                         *)
LEMMA JoinStep == ASSUME TdInv, NEW t \in Threads, st_thread_join(t) PROVE TdInv'
<1>1. /\ status[t] = "zombie" /\ status' = [status EXCEPT ![t] = "none"]
      /\ free' = _st_stack_free(free, stk[t]) /\ stk' = [stk EXCEPT ![t] = NoStack]
      /\ UNCHANGED <<stacks, data, joinable, keys, set, vals>>
  BY DEF st_thread_join
<1>2. /\ StackInv' /\ free' \in Seq(1..Len(stacks))
      /\ stk' \in [All -> 0..Len(stacks) \cup {NoStack}]
      /\ status' \in [All -> {"none", "run", "zombie"}]
  BY <1>1, GiveBack
<1>3. TdType'
  BY <1>1, <1>2 DEF TdInv, TdType
<1>4. \A u \in All : u # t => status'[u] = status[u] /\ stk'[u] = stk[u]
  BY <1>1 DEF TdInv, TdType
<1>5. t \in All /\ status'[t] = "none"
  BY <1>1 DEF TdInv, TdType, All
<1>6. ArrayInv'
  BY <1>1, <1>4, <1>5 DEF TdInv, ArrayInv, Array
<1> QED BY <1>1, <1>2, <1>3, <1>6, StackOnly DEF TdInv

(* Destroy counts one destructor call for each value it finds.             *)
LEMMA DestroyFacts ==
  ASSUME vals \in Seq(Values), NEW ks, NEW array, NEW d, d = Destroy(ks, array)
  PROVE  /\ d \in Seq(Values) /\ Len(d) = Len(vals)
         /\ \A v \in 1..Len(vals) :
              /\ d[v].key = vals[v].key
              /\ d[v].n = IF \E k \in ks : array[k] = v /\ keys[k] THEN vals[v].n + 1 ELSE vals[v].n
<1> DEFINE hit(v) == \E k \in ks : array[k] = v /\ keys[k]
           new(v) == IF hit(v) THEN [vals[v] EXCEPT !.n = @ + 1] ELSE vals[v]
<1>1. d = [v \in 1..Len(vals) |-> new(v)] /\ Len(vals) \in Nat
  BY DEF Destroy
<1>2. ASSUME NEW v \in 1..Len(vals)
      PROVE  /\ new(v) \in Values /\ new(v).key = vals[v].key
             /\ new(v).n = IF hit(v) THEN vals[v].n + 1 ELSE vals[v].n
  <2>1. vals[v] \in Values /\ vals[v].n \in Nat
    <3>1. vals[v] \in Values
      OBVIOUS
    <3> QED BY <3>1 DEF Values
  <2> DEFINE a == vals[v].n + 1
  <2>2. a \in Nat /\ [vals[v] EXCEPT !.n = @ + 1] = [vals[v] EXCEPT !.n = a]
    BY <2>1
  <2> HIDE DEF a
  <2>3. /\ [vals[v] EXCEPT !.n = a] \in Values
        /\ [vals[v] EXCEPT !.n = a].key = vals[v].key /\ [vals[v] EXCEPT !.n = a].n = a
    BY <2>1, <2>2 DEF Values
  <2>4. CASE hit(v)
    <3>1. new(v) = [vals[v] EXCEPT !.n = a]
      BY <2>2, <2>4
    <3> HIDE DEF new, hit
    <3> QED BY <2>3, <2>4, <3>1 DEF a
  <2>5. CASE ~hit(v)
    <3>1. new(v) = vals[v]
      BY <2>5
    <3> HIDE DEF new, hit
    <3> QED BY <2>1, <2>5, <3>1
  <2> QED BY <2>4, <2>5
<1> HIDE DEF new, hit
<1>3. d \in Seq(Values) /\ Len(d) = Len(vals)
  BY <1>1, <1>2
<1>4. \A v \in 1..Len(vals) : d[v] = new(v)
  BY <1>1
<1> QED BY <1>2, <1>3, <1>4 DEF hit

(* A running thread's array is nobody else's.                              *)
LEMMA OwnArray ==
  ASSUME TdInv, NEW t \in All, status[t] = "run"
  PROVE  /\ stk[t] \in 0..MaxStacks
         /\ \A u \in All : status[u] = "run" /\ stk[u] = stk[t] => u = t
<1>1. stk[t] \in 0..Len(stacks) /\ Len(stacks) \in Nat
  BY DEF TdInv, TdType, StackInv, All
<1>2. ASSUME NEW u \in All, status[u] = "run", stk[u] = stk[t] PROVE u = t
  <2>1. NoStack \notin 0..Len(stacks)
    BY DEF NoStack
  <2>2. \A w \in Threads : status[w] = "run" => stk[w] \in 1..Len(stacks)
    BY DEF TdInv, StackInv
  <2>3. 0 \notin 1..Len(stacks) /\ stk[Main] = 0
    BY DEF TdInv, StackInv
  <2> QED BY <1>1, <1>2, <2>1, <2>2, <2>3 DEF TdInv, StackInv, All
<1>3. MaxStacks \in Nat /\ Len(stacks) <= MaxStacks
  BY TdAssumption DEF TdInv, TdType
<1> QED BY <1>1, <1>2, <1>3

(* st_thread_create.                                                       *)
LEMMA CreateStep ==
  ASSUME TdInv, NEW t \in Threads, NEW size \in StkSizes, NEW j \in BOOLEAN,
         NEW ok \in BOOLEAN, st_thread_create(t, size, j, ok)
  PROVE  TdInv'
<1> DEFINE sz == RoundUp(size)
           new == _st_stack_new(sz)
<1>1. sz \in Nat
  <2> DEFINE b == IF size = 0 THEN DefaultSize ELSE size
             q == (b + PageSize - 1) \div PageSize
  <2>1. b \in Nat /\ PageSize \in Nat /\ PageSize > 0
    BY TdAssumption
  <2> HIDE DEF b
  <2>2. q \in Nat
    BY <2>1
  <2>3. sz = q * PageSize
    BY DEF RoundUp, b
  <2> HIDE DEF q, sz
  <2> QED BY <2>1, <2>2, <2>3
<1> HIDE DEF sz
<1>2. /\ status[t] = "none" /\ Len(new.stacks) <= MaxStacks /\ stacks' = new.stacks
      /\ data' = [data EXCEPT ![new.s] = NoData]
      /\ UNCHANGED <<keys, set, vals>>
      /\ ok => /\ free' = new.free /\ stk' = [stk EXCEPT ![t] = new.s]
               /\ status' = [status EXCEPT ![t] = "run"]
               /\ joinable' = [joinable EXCEPT ![t] = j]
      /\ ~ok => /\ free' = _st_stack_free(new.free, new.s)
                /\ UNCHANGED <<stk, status, joinable>>
  BY DEF st_thread_create, Cleared, sz
<1>3. /\ new.stacks \in Seq(Nat) /\ Len(new.stacks) \in {Len(stacks), Len(stacks) + 1}
      /\ new.s \in 1..Len(new.stacks) /\ \A u \in Threads : stk[u] # new.s
      /\ new.free \in Seq(1..Len(new.stacks)) /\ Distinct(new.free)
      /\ \A x \in 1..Len(new.stacks) :
           Listed(new.free, x) <=> x # new.s /\ \A u \in Threads : stk[u] # x
  BY <1>1, StackNewFacts DEF TdInv
<1> HIDE DEF new
<1>4. /\ Len(stacks) \in Nat /\ Len(stacks') \in Nat /\ Len(stacks) <= Len(stacks') /\ Len(stacks') <= MaxStacks
      /\ new.s \in 1..Len(stacks') /\ MaxStacks \in Nat /\ new.s \in 0..MaxStacks /\ new.s # 0
      /\ NoStack \notin 1..Len(stacks') /\ new.s # NoStack
  <2>1. /\ Len(stacks) \in Nat /\ MaxStacks \in Nat /\ Len(stacks') = Len(new.stacks)
        /\ Len(stacks') \in {Len(stacks), Len(stacks) + 1} /\ Len(stacks') <= MaxStacks
        /\ new.s \in 1..Len(stacks')
    BY <1>2, <1>3, TdAssumption DEF TdInv, TdType
  <2> QED BY <2>1 DEF NoStack
<1>5. 1..Len(stacks) \subseteq 1..Len(stacks') /\ 0..Len(stacks) \subseteq 0..Len(stacks')
  BY <1>4
<1>6. t \in All /\ t # Main /\ stk[t] = NoStack /\ Main \in All
  BY <1>2, TdAssumption DEF All, TdInv, StackInv
<1>7. data' \in [0..MaxStacks -> [Keys -> 0..Len(vals)]]
  <2>1. NoData \in [Keys -> 0..Len(vals)]
    <3>1. Len(vals) \in Nat
      BY DEF TdInv, TdType
    <3>2. 0 \in 0..Len(vals)
      BY <3>1
    <3> QED BY <3>2 DEF NoData
  <2> QED BY <1>2, <1>4, <2>1 DEF TdInv, TdType
<1>8. \A u \in All : stk[u] # new.s
  BY <1>3, <1>4, <1>6 DEF All, TdInv, StackInv
<1>9. CASE ok
  <2>1. \A u \in All : /\ stk'[u] = IF u = t THEN new.s ELSE stk[u]
                       /\ status'[u] = IF u = t THEN "run" ELSE status[u]
    BY <1>2, <1>6, <1>9 DEF TdInv, TdType
  <2>2. TdType'
    <3>1. stk' \in [All -> 0..Len(stacks') \cup {NoStack}]
      <4>1. new.s \in 0..Len(stacks')
        BY <1>4
      <4> QED BY <1>2, <1>5, <1>6, <1>9, <4>1 DEF TdInv, TdType
    <3>2. joinable' \in [All -> BOOLEAN] /\ status' \in [All -> {"none", "run", "zombie"}]
      BY <1>2, <1>6, <1>9 DEF TdInv, TdType
    <3> QED BY <1>2, <1>3, <1>7, <1>9, <3>1, <3>2 DEF TdInv, TdType
  <2>3. StackInv'
    <3>1. stk'[Main] = 0 /\ status'[Main] # "none"
      BY <1>6, <2>1 DEF TdInv, StackInv
    <3>2. \A u \in Threads : u \in All /\ IF status[u] = "none" THEN stk[u] = NoStack
                                                               ELSE stk[u] \in 1..Len(stacks')
      BY <1>5 DEF TdInv, StackInv, All
    <3>3. \A u \in Threads : IF status'[u] = "none" THEN stk'[u] = NoStack
                                                    ELSE stk'[u] \in 1..Len(stacks')
      BY <1>4, <2>1, <3>2
    <3>4. \A u, w \in Threads : stk'[u] = stk'[w] /\ stk'[u] # NoStack => u = w
      BY <1>3, <2>1, <3>2 DEF TdInv, StackInv
    <3>5. \A x \in 1..Len(stacks') : Listed(free', x) <=> \A u \in Threads : stk'[u] # x
      <4> SUFFICES ASSUME NEW x \in 1..Len(stacks')
                   PROVE  Listed(free', x) <=> \A u \in Threads : stk'[u] # x
        OBVIOUS
      <4>1. Listed(free', x) <=> x # new.s /\ \A u \in Threads : stk[u] # x
        BY <1>2, <1>3, <1>9
      <4>2. x # NoStack
        BY <1>4
      <4> QED BY <1>6, <2>1, <3>2, <4>1, <4>2
    <3> QED BY <1>2, <1>3, <1>9, <3>1, <3>3, <3>4, <3>5 DEF StackInv
  <2>4. ArrayInv'
    <3> SUFFICES ASSUME NEW u \in All
                 PROVE  IF status'[u] = "run" THEN data'[stk'[u]] = set[u] ELSE set[u] = NoData
      BY <1>2 DEF ArrayInv, Array
    <3>1. CASE u = t
      <4>1. data'[new.s] = NoData
        BY <1>2, <1>4 DEF TdInv, TdType
      <4>2. set[t] = NoData
        BY <1>2, <1>6 DEF TdInv, ArrayInv
      <4> QED BY <2>1, <3>1, <4>1, <4>2
    <3>2. CASE u # t /\ status[u] = "run"
      <4>1. data'[stk[u]] = data[stk[u]]
        BY <1>2, <1>8, <3>2, OwnArray DEF TdInv, TdType
      <4> QED BY <2>1, <3>2, <4>1 DEF TdInv, ArrayInv, Array
    <3>3. CASE u # t /\ status[u] # "run"
      BY <2>1, <3>3 DEF TdInv, ArrayInv
    <3> QED BY <3>1, <3>2, <3>3
  <2> QED BY <1>2, <2>2, <2>3, <2>4, StackOnly DEF TdInv
<1>10. CASE ~ok
  <2>1. ~Listed(new.free, new.s) /\ free' = _st_stack_free(new.free, new.s)
    BY <1>2, <1>3, <1>10
  <2>2. /\ free' \in Seq(1..Len(stacks')) /\ Distinct(free')
        /\ \A x : Listed(free', x) <=> Listed(new.free, x) \/ x = new.s
    BY <1>2, <1>3, <2>1, StackFreeFacts
  <2>3. UNCHANGED <<stk, status, joinable>>
    BY <1>2, <1>10
  <2>4. TdType'
    <3>1. stk' \in [All -> 0..Len(stacks') \cup {NoStack}]
      BY <1>5, <2>3 DEF TdInv, TdType
    <3> QED BY <1>2, <1>3, <1>7, <2>2, <2>3, <3>1 DEF TdInv, TdType
  <2>5. StackInv'
    <3>1. \A u \in Threads : IF status'[u] = "none" THEN stk'[u] = NoStack
                                                    ELSE stk'[u] \in 1..Len(stacks')
      BY <1>5, <2>3 DEF TdInv, StackInv
    <3>2. \A x \in 1..Len(stacks') : Listed(free', x) <=> \A u \in Threads : stk'[u] # x
      BY <1>2, <1>3, <2>2, <2>3
    <3> QED BY <2>2, <2>3, <3>1, <3>2 DEF TdInv, StackInv
  <2>6. ArrayInv'
    <3> SUFFICES ASSUME NEW u \in All
                 PROVE  IF status[u] = "run" THEN data'[stk[u]] = set[u] ELSE set[u] = NoData
      BY <1>2, <2>3 DEF ArrayInv, Array
    <3>1. CASE status[u] = "run"
      <4>1. data'[stk[u]] = data[stk[u]]
        BY <1>2, <1>8, <3>1, OwnArray DEF TdInv, TdType
      <4> QED BY <3>1, <4>1 DEF TdInv, ArrayInv, Array
    <3>2. CASE status[u] # "run"
      BY <3>2 DEF TdInv, ArrayInv
    <3> QED BY <3>1, <3>2
  <2> QED BY <1>2, <2>4, <2>5, <2>6, StackOnly DEF TdInv
<1> QED BY <1>9, <1>10

(* st_thread_setspecific.                                                  *)
LEMMA SetSpecificStep ==
  ASSUME TdInv, NEW t \in All, NEW k \in Keys, st_thread_setspecific(t, k)
  PROVE  TdInv'
<1> DEFINE N == Len(vals)
           a == Array(t)[k]
<1>1. PICK v \in {0, a, N + 1} :
        /\ vals' = LET rest == IF v # a THEN Destroy({k}, Array(t)) ELSE vals
                   IN IF v > N THEN Append(rest, [key |-> k, n |-> 0]) ELSE rest
        /\ data' = [data EXCEPT ![stk[t]][k] = v]
        /\ set' = [set EXCEPT ![t][k] = v]
  BY DEF st_thread_setspecific
<1>2. /\ status[t] = "run" /\ k \in 1..Len(keys)
      /\ UNCHANGED <<stacks, free, stk, status, joinable, keys>>
  BY DEF st_thread_setspecific, TdInv, TdType
<1>3. /\ Array(t) = set[t] /\ a = set[t][k] /\ a \in 0..N /\ N \in Nat
      /\ vals \in Seq(Values) /\ set \in [All -> [Keys -> 0..N]]
      /\ data \in [0..MaxStacks -> [Keys -> 0..N]]
  BY <1>2 DEF TdInv, TdType, ArrayInv
<1>4. /\ stk[t] \in 0..MaxStacks
      /\ \A u \in All : status[u] = "run" /\ stk[u] = stk[t] => u = t
      /\ \A u \in All : status[u] = "run" => stk[u] \in 0..MaxStacks
  BY <1>2, OwnArray
<1> HIDE DEF N, a
<1>5. StackInv'
  BY <1>2 DEF TdInv, StackInv
<1>6. ArrayInv'
  <2> SUFFICES ASSUME NEW u \in All
               PROVE  IF status[u] = "run" THEN data'[stk[u]] = set'[u] ELSE set'[u] = NoData
    BY <1>2 DEF ArrayInv, Array
  <2>1. CASE u = t
    <3>1. data'[stk[t]] = [data[stk[t]] EXCEPT ![k] = v] /\ set'[t] = [set[t] EXCEPT ![k] = v]
      BY <1>1, <1>3, <1>4
    <3> QED BY <1>2, <1>3, <2>1, <3>1 DEF Array
  <2>2. CASE u # t
    <3>1. set'[u] = set[u]
      BY <1>1, <1>3, <2>2
    <3>2. status[u] = "run" => data'[stk[u]] = data[stk[u]]
      BY <1>1, <1>3, <1>4, <2>2
    <3> QED BY <3>1, <3>2 DEF TdInv, ArrayInv, Array
  <2> QED BY <2>1, <2>2
<1>7. CASE v = a
  <2>1. vals' = vals
    BY <1>1, <1>3, <1>7
  <2>2. set' = set
    BY <1>1, <1>3, <1>7
  <2>3. data' = data
    BY <1>1, <1>3, <1>4, <1>7 DEF Array, a
  <2>4. TdType'
    BY <1>2, <2>1, <2>2, <2>3 DEF TdInv, TdType
  <2>5. ValueInv'
    BY <1>2, <2>1, <2>2, StackOnly
  <2> QED BY <1>5, <1>6, <2>4, <2>5 DEF TdInv
<1>8. CASE v # a
  <2> DEFINE d == Destroy({k}, set[t])
  <2>1. vals' = IF v > N THEN Append(d, [key |-> k, n |-> 0]) ELSE d
    BY <1>1, <1>3, <1>8
  <2>2. /\ d \in Seq(Values) /\ Len(d) = N
        /\ \A w \in 1..N :
             /\ d[w].key = vals[w].key
             /\ d[w].n = IF a = w /\ keys[k] THEN vals[w].n + 1 ELSE vals[w].n
    <3>1. /\ d \in Seq(Values) /\ Len(d) = N
          /\ \A w \in 1..N :
             /\ d[w].key = vals[w].key
             /\ d[w].n = IF \E j \in {k} : set[t][j] = w /\ keys[j] THEN vals[w].n + 1 ELSE vals[w].n
      <4>1. d = Destroy({k}, set[t]) /\ vals \in Seq(Values)
        BY <1>3
      <4> HIDE DEF d
      <4> QED BY <4>1, DestroyFacts DEF N
    <3>2. \A w : (\E j \in {k} : set[t][j] = w /\ keys[j]) <=> a = w /\ keys[k]
      BY <1>3
    <3> HIDE DEF d, a
    <3>3. ASSUME NEW w \in 1..N
          PROVE  d[w].n = IF a = w /\ keys[k] THEN vals[w].n + 1 ELSE vals[w].n
      BY <3>1, <3>2, Zenon
    <3> QED BY <3>1, <3>3, Zenon
  <2> HIDE DEF d
  <2>3. /\ vals' \in Seq(Values) /\ Len(vals') = IF v = N + 1 THEN N + 1 ELSE N
        /\ \A w \in 1..N : vals'[w] = d[w]
        /\ v = N + 1 => vals'[N + 1] = [key |-> k, n |-> 0]
    <3>1. CASE v = N + 1
      <4>1. vals' = Append(d, [key |-> k, n |-> 0])
        BY <1>3, <2>1, <3>1
      <4>2. [key |-> k, n |-> 0] \in Values
        BY DEF Values
      <4> DEFINE e == [key |-> k, n |-> 0]
      <4> HIDE DEF e
      <4>3. e \in Values /\ vals' = Append(d, e)
        BY <4>1, <4>2 DEF e
      <4>4. /\ vals' \in Seq(Values) /\ Len(vals') = N + 1 /\ vals'[N + 1] = e
            /\ \A w \in 1..N : vals'[w] = d[w]
        BY <1>3, <2>2, <4>3
      <4> QED BY <3>1, <4>4 DEF e
    <3>2. CASE v # N + 1
      <4>1. ~(v > N)
        BY <1>3, <3>2
      <4> QED BY <2>1, <2>2, <3>2, <4>1
    <3> QED BY <3>1, <3>2
  <2>4. /\ \A u \in All, j \in Keys : set'[u][j] = IF u = t /\ j = k THEN v ELSE set[u][j]
        /\ (v = 0 \/ v = N + 1) /\ Len(vals') \in Nat /\ N <= Len(vals') /\ v \in 0..Len(vals')
    BY <1>1, <1>3, <1>8, <2>3
  <2>5. TdType'
    <3>1. 0..N \subseteq 0..Len(vals') /\ v \in 0..Len(vals')
      BY <1>3, <2>3, <2>4
    <3>2. set' \in [All -> [Keys -> 0..Len(vals')]]
      <4>1. [set[t] EXCEPT ![k] = v] \in [Keys -> 0..Len(vals')]
        BY <1>3, <3>1
      <4> DEFINE b == [set[t] EXCEPT ![k] = v]
      <4>2. set' = [set EXCEPT ![t] = b]
        BY <1>1
      <4> HIDE DEF b
      <4>3. \A u \in All : set[u] \in [Keys -> 0..Len(vals')]
        BY <1>3, <3>1
      <4> QED BY <1>3, <4>1, <4>2, <4>3 DEF b
    <3>3. data' \in [0..MaxStacks -> [Keys -> 0..Len(vals')]]
      <4>1. [data[stk[t]] EXCEPT ![k] = v] \in [Keys -> 0..Len(vals')]
        BY <1>3, <1>4, <3>1
      <4> DEFINE b == [data[stk[t]] EXCEPT ![k] = v]
      <4>2. data' = [data EXCEPT ![stk[t]] = b]
        BY <1>1
      <4> HIDE DEF b
      <4>3. \A x \in 0..MaxStacks : data[x] \in [Keys -> 0..Len(vals')]
        BY <1>3, <3>1
      <4> QED BY <1>3, <1>4, <4>1, <4>2, <4>3 DEF b
    <3> QED BY <1>2, <2>3, <3>2, <3>3 DEF TdInv, TdType
  <2>6. /\ \A w \in 1..N : /\ vals[w].key \in 1..Len(keys) /\ vals[w].key \in Keys
                           /\ keys[vals[w].key] => vals[w].n = IF Held(w) THEN 0 ELSE 1
        /\ \A u \in All, j \in Keys : set[u][j] # 0 =>
             /\ set[u][j] \in 1..N
             /\ vals[set[u][j]].key = j
             /\ \A x \in All : set[x][j] = set[u][j] => x = u
    <3>1. \A u \in All, j \in Keys : set[u][j] # 0 => set[u][j] \in 1..N
      BY <1>3
    <3>2. Len(keys) \in Nat /\ KeysMax \in Nat /\ Len(keys) <= KeysMax
      BY TdAssumption DEF TdInv, TdType
    <3>3. \A j \in 1..Len(keys) : j \in Keys
      BY <3>2 DEF Keys
    <3> QED BY <3>1, <3>3 DEF TdInv, ValueInv, N
  <2>7. ASSUME NEW w \in 1..N
        PROVE  /\ vals'[w].key \in 1..Len(keys')
               /\ keys'[vals'[w].key] => vals'[w].n = IF Held(w)' THEN 0 ELSE 1
    <3> DEFINE m == vals[w].key
    <3>1. m \in 1..Len(keys) /\ m \in Keys /\ vals'[w].key = m /\ w # v /\ w # 0
      BY <1>3, <2>2, <2>3, <2>4, <2>6
    <3>2. Held(w) <=> \E u \in All : set[u][m] = w
      BY DEF Held
    <3>3. Held(w)' <=> \E u \in All : set'[u][m] = w
      BY <3>1 DEF Held
    <3> HIDE DEF m
    <3>4. CASE w = a
      <4>1. m = k
        BY <1>3, <2>6, <3>1, <3>4 DEF m
      <4>2. Held(w) /\ ~(\E u \in All : set'[u][m] = w)
        BY <1>3, <2>4, <2>6, <3>1, <3>2, <3>4, <4>1
      <4>3. keys[k] => vals'[w].n = 1
        <5>1. keys[k] => vals[w].n = 0
          BY <2>6, <4>1, <4>2 DEF m
        <5>2. vals'[w].n = IF a = w /\ keys[k] THEN vals[w].n + 1 ELSE vals[w].n
          BY <2>2, <2>3
        <5> QED BY <3>4, <5>1, <5>2
      <4> QED BY <1>2, <3>1, <3>3, <4>1, <4>2, <4>3
    <3>5. CASE w # a
      <4>1. (\E u \in All : set'[u][m] = w) <=> (\E u \in All : set[u][m] = w)
        BY <1>3, <2>4, <3>1, <3>5
      <4>2. vals'[w].n = vals[w].n
        BY <2>2, <2>3, <3>5
      <4> QED BY <1>2, <2>6, <3>1, <3>2, <3>3, <4>1, <4>2 DEF m
    <3> QED BY <3>4, <3>5
  <2>8. ASSUME v = N + 1
        PROVE  /\ vals'[v].key \in 1..Len(keys')
               /\ keys'[vals'[v].key] => vals'[v].n = IF Held(v)' THEN 0 ELSE 1
    <3>1. vals'[v].key = k /\ vals'[v].n = 0
      BY <2>3, <2>8
    <3>2. Held(v)'
      <4>1. set'[t][k] = v
        BY <2>4
      <4> QED BY <3>1, <4>1 DEF Held
    <3> QED BY <1>2, <3>1, <3>2
  <2>9. ASSUME NEW u \in All, NEW j \in Keys, set'[u][j] # 0
        PROVE  /\ vals'[set'[u][j]].key = j
               /\ \A x \in All : set'[x][j] = set'[u][j] => x = u
    <3>1. \A x \in All, i \in Keys : set[x][i] \in 0..N
      BY <1>3
    <3>2. CASE u = t /\ j = k
      <4>1. v = N + 1 /\ set'[u][j] = v /\ vals'[v].key = k
        BY <2>3, <2>4, <2>9, <3>2
      <4>2. \A x \in All : x # t => set'[x][k] # v
        <5>1. N + 1 \notin 0..N
          BY <1>3
        <5> QED BY <2>4, <3>1, <4>1, <5>1
      <4> QED BY <3>2, <4>1, <4>2
    <3>3. CASE ~(u = t /\ j = k)
      <4>1. set'[u][j] = set[u][j] /\ set[u][j] # 0 /\ set[u][j] \in 1..N
        BY <2>4, <2>6, <2>9, <3>3
      <4>2. vals'[set[u][j]].key = j
        BY <2>2, <2>3, <2>6, <4>1
      <4>3. v # set[u][j]
        BY <1>3, <2>4, <4>1
      <4>4. ASSUME NEW x \in All, set'[x][j] = set'[u][j] PROVE x = u
        <5>1. ~(x = t /\ j = k)
          BY <2>4, <4>1, <4>3, <4>4
        <5> QED BY <2>4, <2>6, <4>1, <4>4, <5>1
      <4> QED BY <4>1, <4>2, <4>4
    <3> QED BY <3>2, <3>3
  <2>10. ValueInv'
    <3>1. ASSUME NEW w \in 1..Len(vals')
          PROVE  /\ vals'[w].key \in 1..Len(keys')
                 /\ keys'[vals'[w].key] => vals'[w].n = IF Held(w)' THEN 0 ELSE 1
      <4>1. w \in 1..N \/ (w = v /\ v = N + 1)
        BY <1>3, <2>3
      <4> QED BY <2>7, <2>8, <4>1
    <3> QED BY <2>9, <3>1 DEF ValueInv, Held
  <2> QED BY <1>5, <1>6, <2>5, <2>10 DEF TdInv
<1> QED BY <1>7, <1>8

(* st_thread_exit: every destructor that is due is called, once.           *)
LEMMA ExitStep == ASSUME TdInv, NEW t \in All, st_thread_exit(t) PROVE TdInv'
<1> DEFINE N == Len(vals)
           ks == {k \in DOMAIN keys : Cleaned(Array(t))[k] # Array(t)[k]}
<1>1. /\ status[t] = "run" /\ UNCHANGED <<stacks, joinable, keys>>
      /\ data' = [data EXCEPT ![stk[t]] = Cleaned(@)]
      /\ vals' = Destroy(ks, Array(t))
      /\ set' = [set EXCEPT ![t] = NoData]
  BY DEF st_thread_exit, _st_thread_cleanup
<1>2. /\ Array(t) = set[t] /\ N \in Nat
      /\ vals \in Seq(Values) /\ set \in [All -> [Keys -> 0..N]]
      /\ data \in [0..MaxStacks -> [Keys -> 0..N]]
      /\ keys \in Seq(BOOLEAN) /\ Len(keys) <= KeysMax /\ Len(keys) \in Nat
  BY <1>1 DEF TdInv, TdType, ArrayInv
<1>3. /\ stk[t] \in 0..MaxStacks
      /\ \A u \in All : status[u] = "run" /\ stk[u] = stk[t] => u = t
      /\ \A u \in All : status[u] = "run" => stk[u] \in 0..MaxStacks
  BY <1>1, OwnArray
<1>4. \A k \in 1..Len(keys) : k \in Keys
  BY <1>2, TdAssumption DEF Keys
<1>5. \A k : k \in ks <=> k \in 1..Len(keys) /\ keys[k] /\ set[t][k] # 0
  <2> SUFFICES ASSUME NEW k \in 1..Len(keys)
               PROVE  Cleaned(set[t])[k] # set[t][k] <=> keys[k] /\ set[t][k] # 0
    BY <1>2
  <2>1. Cleaned(set[t])[k] = IF keys[k] THEN 0 ELSE set[t][k]
    BY <1>2, <1>4 DEF Cleaned
  <2> QED BY <2>1
<1> HIDE DEF N, ks
<1>6. /\ vals' \in Seq(Values) /\ Len(vals') = N
      /\ \A w \in 1..N :
           /\ vals'[w].key = vals[w].key
           /\ vals'[w].n = IF \E k \in ks : set[t][k] = w /\ keys[k] THEN vals[w].n + 1 ELSE vals[w].n
  <2>1. vals' = Destroy(ks, set[t])
    BY <1>1, <1>2
  <2> DEFINE d == vals'
             a == set[t]
  <2>2. d = Destroy(ks, a)
    BY <2>1
  <2> HIDE DEF d, a
  <2>3. /\ d \in Seq(Values) /\ Len(d) = N
        /\ \A w \in 1..N :
             /\ d[w].key = vals[w].key
             /\ d[w].n = IF \E k \in ks : a[k] = w /\ keys[k] THEN vals[w].n + 1 ELSE vals[w].n
    <3>1. vals \in Seq(Values) /\ N = Len(vals)
      BY <1>2 DEF N
    <3>2. /\ d \in Seq(Values) /\ Len(d) = Len(vals)
          /\ \A w \in 1..Len(vals) :
               /\ d[w].key = vals[w].key
               /\ d[w].n = IF \E k \in ks : a[k] = w /\ keys[k] THEN vals[w].n + 1 ELSE vals[w].n
      BY <2>2, <3>1, DestroyFacts, ZenonT(30)
    <3> QED BY <3>1, <3>2, Zenon
  <2> QED BY <2>3 DEF d, a
<1>7. NoData \in [Keys -> 0..N]
  <2>1. 0 \in 0..N
    BY <1>2
  <2> QED BY <2>1 DEF NoData
<1>8. \A u \in All : set'[u] = IF u = t THEN NoData ELSE set[u]
  BY <1>1, <1>2
<1>9. set' \in [All -> [Keys -> 0..Len(vals')]]
  BY <1>1, <1>2, <1>6, <1>7
<1>10. data' \in [0..MaxStacks -> [Keys -> 0..Len(vals')]]
  <2> DEFINE c == Cleaned(data[stk[t]])
  <2>1. c \in [Keys -> 0..N]
    <3>1. 0 \in 0..N /\ \A k \in Keys : data[stk[t]][k] \in 0..N
      BY <1>2, <1>3
    <3> QED BY <3>1 DEF Cleaned
  <2>2. data' = [data EXCEPT ![stk[t]] = c]
    BY <1>1
  <2> HIDE DEF c
  <2> QED BY <1>2, <1>6, <2>1, <2>2
<1>11. /\ \A w \in 1..N : /\ vals[w].key \in 1..Len(keys) /\ vals[w].key \in Keys
                          /\ keys[vals[w].key] => vals[w].n = IF Held(w) THEN 0 ELSE 1
       /\ \A u \in All, j \in Keys : set[u][j] # 0 =>
            /\ set[u][j] \in 1..N
            /\ vals[set[u][j]].key = j
            /\ \A x \in All : set[x][j] = set[u][j] => x = u
  <2>1. \A u \in All, j \in Keys : set[u][j] # 0 => set[u][j] \in 1..N
    BY <1>2
  <2> QED BY <1>4, <2>1 DEF TdInv, ValueInv, N
<1>12. \A k \in Keys : NoData[k] = 0
  BY DEF NoData
<1>13. ASSUME NEW w \in 1..N
       PROVE  /\ vals'[w].key \in 1..Len(keys')
              /\ keys'[vals'[w].key] => vals'[w].n = IF Held(w)' THEN 0 ELSE 1
  <2> DEFINE m == vals[w].key
             hit == \E k \in ks : set[t][k] = w /\ keys[k]
  <2>1. m \in 1..Len(keys) /\ m \in Keys /\ vals'[w].key = m /\ w # 0
    BY <1>2, <1>6, <1>11
  <2>2. Held(w) <=> \E u \in All : set[u][m] = w
    BY DEF Held
  <2>3. Held(w)' <=> \E u \in All : set'[u][m] = w
    BY <2>1 DEF Held
  <2>4. vals'[w].n = IF hit THEN vals[w].n + 1 ELSE vals[w].n
    BY <1>6
  <2>5. keys[m] => (hit <=> set[t][m] = w)
    BY <1>4, <1>5, <1>11, <2>1
  <2>6. keys[m] => vals[w].n = IF Held(w) THEN 0 ELSE 1
    BY <1>11
  <2> HIDE DEF m, hit
  <2>7. CASE set[t][m] = w
    <3>1. Held(w) /\ ~(\E u \in All : set'[u][m] = w)
      BY <1>8, <1>11, <1>12, <2>1, <2>2, <2>7
    <3> QED BY <1>1, <2>1, <2>3, <2>4, <2>5, <2>6, <2>7, <3>1
  <2>8. CASE set[t][m] # w
    <3>1. Held(w) <=> (\E u \in All : set'[u][m] = w)
      BY <1>8, <1>12, <2>1, <2>2, <2>8
    <3> QED BY <1>1, <2>1, <2>3, <2>4, <2>5, <2>6, <2>8, <3>1
  <2> QED BY <2>7, <2>8
<1>14. ASSUME NEW u \in All, NEW j \in Keys, set'[u][j] # 0
       PROVE  /\ vals'[set'[u][j]].key = j
              /\ \A x \in All : set'[x][j] = set'[u][j] => x = u
  <2>1. u # t /\ set'[u][j] = set[u][j] /\ set[u][j] # 0 /\ set[u][j] \in 1..N
    BY <1>8, <1>11, <1>12, <1>14
  <2>2. vals'[set'[u][j]].key = j
    <3>1. vals[set[u][j]].key = j
      BY <1>11, <2>1
    <3> QED BY <1>6, <2>1, <3>1
  <2>3. ASSUME NEW x \in All, set'[x][j] = set'[u][j] PROVE x = u
    <3>1. x # t
      BY <1>8, <1>12, <2>1, <2>3
    <3>2. set[x][j] = set[u][j]
      BY <1>8, <2>1, <2>3, <3>1
    <3> QED BY <1>11, <2>1, <3>2
  <2> QED BY <2>2, <2>3
<1>15. ValueInv'
  BY <1>6, <1>13, <1>14 DEF ValueInv, Held
<1>16. ASSUME NEW u \in All, u # t
       PROVE  IF status[u] = "run" THEN data'[stk[u]] = set'[u] ELSE set'[u] = NoData
  <2>1. set'[u] = set[u]
    BY <1>8, <1>16
  <2>2. status[u] = "run" => data'[stk[u]] = data[stk[u]]
    BY <1>1, <1>2, <1>3, <1>16
  <2> QED BY <2>1, <2>2 DEF TdInv, ArrayInv, Array
<1>17. CASE joinable[t] \/ t = Main
  <2>1. status' = [status EXCEPT ![t] = "zombie"] /\ UNCHANGED <<free, stk>>
    BY <1>17 DEF st_thread_exit
  <2>2. /\ status' \in [All -> {"none", "run", "zombie"}]
        /\ \A u \in All : status'[u] = IF u = t THEN "zombie" ELSE status[u]
    BY <2>1 DEF TdInv, TdType
  <2>3. TdType'
    BY <1>1, <1>6, <1>9, <1>10, <2>1, <2>2 DEF TdInv, TdType
  <2>4. StackInv'
    <3>1. Threads \subseteq All /\ Main \in All
      BY DEF All
    <3>2. \A u \in All : status'[u] = "none" <=> status[u] = "none"
      BY <1>1, <2>2
    <3> QED BY <1>1, <2>1, <3>1, <3>2 DEF TdInv, StackInv
  <2>5. ArrayInv'
    BY <1>8, <1>16, <2>1, <2>2 DEF ArrayInv, Array
  <2> QED BY <1>15, <2>3, <2>4, <2>5 DEF TdInv
<1>18. CASE ~(joinable[t] \/ t = Main)
  <2>1. /\ status' = [status EXCEPT ![t] = "none"]
        /\ free' = _st_stack_free(free, stk[t])
        /\ stk' = [stk EXCEPT ![t] = NoStack] /\ t \in Threads
    BY <1>18 DEF st_thread_exit, All
  <2>2. /\ StackInv' /\ free' \in Seq(1..Len(stacks))
        /\ stk' \in [All -> 0..Len(stacks) \cup {NoStack}]
        /\ status' \in [All -> {"none", "run", "zombie"}]
    BY <1>1, <2>1, GiveBack
  <2>3. TdType'
    BY <1>1, <1>6, <1>9, <1>10, <2>2 DEF TdInv, TdType
  <2>4. /\ \A u \in All : u # t => status'[u] = status[u] /\ stk'[u] = stk[u]
        /\ status'[t] = "none"
    BY <2>1 DEF TdInv, TdType
  <2>5. ArrayInv'
    BY <1>8, <1>16, <2>4 DEF ArrayInv, Array
  <2> QED BY <1>15, <2>2, <2>3, <2>5 DEF TdInv
<1> QED BY <1>17, <1>18

-----------------------------------------------------------------------------
(* Nothing exists at first but the primordial thread and its array.        *)
LEMMA TdInitInv == TdInit => TdInv
<1> SUFFICES ASSUME TdInit PROVE TdInv
  OBVIOUS
<1>1. /\ Len(stacks) = 0 /\ Len(free) = 0 /\ Len(vals) = 0 /\ Len(keys) = 0
      /\ stacks \in Seq(Nat) /\ free \in Seq(1..0) /\ vals \in Seq(Values) /\ keys \in Seq(BOOLEAN)
  BY DEF TdInit
<1>2. \A t \in All : set[t] = NoData /\ stk[t] = (IF t = Main THEN 0 ELSE NoStack)
                     /\ status[t] = (IF t = Main THEN "run" ELSE "none")
  BY DEF TdInit
<1>3. Main \in All /\ Main \notin Threads /\ Threads \subseteq All /\ MaxStacks \in Nat /\ KeysMax \in Nat
  BY TdAssumption DEF All
<1>4. NoData \in [Keys -> 0..0] /\ \A k \in Keys : NoData[k] = 0
  BY DEF NoData
<1>5. TdType
  <2>1. 0 \in 0..0 /\ 0 <= MaxStacks /\ 0 <= KeysMax
    BY <1>3
  <2>2. /\ data \in [0..MaxStacks -> [Keys -> 0..0]] /\ set \in [All -> [Keys -> 0..0]]
        /\ stk \in [All -> 0..0 \cup {NoStack}] /\ joinable \in [All -> BOOLEAN]
        /\ status \in [All -> {"none", "run", "zombie"}]
    BY <1>4, <2>1 DEF TdInit
  <2> QED BY <1>1, <2>1, <2>2 DEF TdType
<1>6. StackInv
  BY <1>1, <1>2, <1>3 DEF StackInv, Distinct
<1>7. ArrayInv
  <2>1. data[0] = NoData
    BY <1>3 DEF TdInit
  <2> QED BY <1>2, <2>1 DEF ArrayInv, Array
<1>8. ValueInv
  BY <1>1, <1>2, <1>4 DEF ValueInv
<1> QED BY <1>5, <1>6, <1>7, <1>8 DEF TdInv

(* Stacks have one owner, arrays hold what their threads stored, and       *)
(* destructors have run for exactly the values nobody holds: every         *)
(* operation of key.cpp and stk.cpp, and thread creation, exit and join,   *)
(* keeps this.                                                             *)
THEOREM TdInductive == TdSpec => []TdInv
<1>1. TdInv /\ [TdNext]_tdvars => TdInv'
  <2> SUFFICES ASSUME TdInv, [TdNext]_tdvars PROVE TdInv'
    OBVIOUS
  <2>1. CASE UNCHANGED tdvars
    BY <2>1 DEF tdvars, TdInv, TdType, StackInv, ArrayInv, ValueInv, Array, Held
  <2>2. CASE TdNext
    BY <2>2, KeyStep, SetSpecificStep, CreateStep, ExitStep, JoinStep DEF TdNext
  <2> QED BY <2>1, <2>2
<1> QED BY <1>1, TdInitInv, PTL DEF TdSpec

(* ThreadStorageSound holds in every state: each stack is in the free list *)
(* once or has one owner, a running thread reads what it stored, and each  *)
(* destructor runs once, after the value's last holder is gone.            *)
THEOREM ThreadStorageStaysSound == TdSpec => []ThreadStorageSound
<1>1. TdInv => ThreadStorageSound
  <2> SUFFICES ASSUME TdInv PROVE ThreadStorageSound
    OBVIOUS
  <2>1. DOMAIN stacks = 1..Len(stacks) /\ DOMAIN free = 1..Len(free) /\ DOMAIN vals = 1..Len(vals)
    BY DEF TdInv, TdType
  <2>2. ASSUME NEW s \in 1..Len(stacks)
        PROVE  Cardinality({i \in DOMAIN free : free[i] = s})
                 + Cardinality({t \in Threads : stk[t] = s}) = 1
    <3> DEFINE F == {i \in DOMAIN free : free[i] = s}
               T == {t \in Threads : stk[t] = s}
    <3>1. CASE Listed(free, s)
      <4>1. PICK i \in 1..Len(free) : free[i] = s
        BY <3>1 DEF Listed
      <4>2. F = {i}
        BY <2>1, <4>1 DEF TdInv, StackInv, Distinct
      <4>3. T = {}
        BY <3>1 DEF TdInv, StackInv
      <4> HIDE DEF F, T
      <4>4. Cardinality(F) = 1 /\ Cardinality(T) = 0
        BY <4>2, <4>3, FS_Singleton, FS_EmptySet
      <4> QED BY <4>4 DEF F, T
    <3>2. CASE ~Listed(free, s)
      <4>1. PICK t \in Threads : stk[t] = s
        BY <3>2 DEF TdInv, StackInv
      <4>2. F = {}
        BY <2>1, <3>2 DEF Listed
      <4>3. s # NoStack
        BY DEF NoStack
      <4>4. T = {t}
        BY <4>1, <4>3 DEF TdInv, StackInv
      <4> HIDE DEF F, T
      <4>5. Cardinality(F) = 0 /\ Cardinality(T) = 1
        BY <4>2, <4>4, FS_Singleton, FS_EmptySet
      <4> QED BY <4>5 DEF F, T
    <3> QED BY <3>1, <3>2
  <2>3. \A t \in All : status[t] = "run" => Array(t) = set[t]
    BY DEF TdInv, ArrayInv
  <2>4. \A v \in 1..Len(vals) : keys[vals[v].key] =>
          vals[v].n = IF \E t \in All : set[t][vals[v].key] = v THEN 0 ELSE 1
    BY DEF TdInv, ValueInv, Held
  <2> QED BY <2>1, <2>2, <2>3, <2>4 DEF ThreadStorageSound
<1> QED BY <1>1, TdInductive, PTL

-----------------------------------------------------------------------------
(* The sleep queue, for any threads and any range of the time.             *)

SqRec == [q : Seq(Sleepers), sleep : [Sleepers -> 0..(TimeMod - 1)], max : 0..(TimeMod - 1)]

(* The sums of the differences along a queue.                              *)
IsSums(f, q, sleep) ==
  /\ f \in [0..Len(q) -> Nat]
  /\ f[0] = 0
  /\ \A i \in 1..Len(q) : f[i] = f[i - 1] + sleep[q[i]]

(* A time that is in the range of st_utime_t is not changed.               *)
LEMMA SmallMod == ASSUME NEW n \in 0..(TimeMod - 1) PROVE Utime(n) = n
BY SleepQAssumption DEF Utime

(* Arithmetic of st_utime_t stays in its range.                            *)
LEMMA ModRange == ASSUME NEW n \in Int PROVE Utime(n) \in 0..(TimeMod - 1)
BY SleepQAssumption DEF Utime

(* The types of the fields of a queue.                                     *)
LEMMA SqRecType ==
  ASSUME NEW s \in SqRec
  PROVE  /\ s.q \in Seq(Sleepers) /\ Len(s.q) \in Nat /\ DOMAIN s.q = 1..Len(s.q)
         /\ \A i \in 1..Len(s.q) : /\ s.q[i] \in Sleepers
                                   /\ s.sleep[s.q[i]] \in 0..(TimeMod - 1)
         /\ s.sleep \in [Sleepers -> 0..(TimeMod - 1)]
         /\ s.max \in 0..(TimeMod - 1) /\ TimeMod \in Nat
         /\ s = [q |-> s.q, sleep |-> s.sleep, max |-> s.max]
<1>1. /\ s.q \in Seq(Sleepers) /\ s.sleep \in [Sleepers -> 0..(TimeMod - 1)]
      /\ s.max \in 0..(TimeMod - 1)
      /\ s = [q |-> s.q, sleep |-> s.sleep, max |-> s.max]
  BY DEF SqRec
<1>2. Len(s.q) \in Nat /\ DOMAIN s.q = 1..Len(s.q)
  BY <1>1, LenProperties
<1>3. \A i \in 1..Len(s.q) : s.q[i] \in Sleepers
  BY <1>1, <1>2, ElementOfSeq
<1> QED BY <1>1, <1>2, <1>3, SleepQAssumption

(* f is the recursion over 0..n that starts with v and whose step is G.    *)
Solves(f, n, v, G, V) ==
  /\ f \in [0..n -> V]
  /\ f[0] = v
  /\ \A i \in 1..n : f[i] = G[<<i, f[i - 1]>>]

(* Such a recursion is solved by a function.                               *)
LEMMA Iterates ==
  ASSUME NEW V, NEW n \in Nat, NEW v \in V, NEW G \in [(1..n) \X V -> V]
  PROVE  \E f : Solves(f, n, v, G, V)
<1> DEFINE Bad == {m \in 0..n : ~ \E f : Solves(f, m, v, G, V)}
<1>1. CASE Bad = {}
  BY <1>1
<1>2. CASE Bad # {}
  <2>1. Bad \subseteq Nat
    OBVIOUS
  <2> HIDE DEF Bad
  <2>2. PICK m \in Bad : \A k \in Bad : m <= k
    BY <1>2, <2>1, Least
  <2>3. m \in 0..n /\ ~ \E f : Solves(f, m, v, G, V)
    BY <2>2 DEF Bad
  <2>4. Solves([i \in 0..0 |-> v], 0, v, G, V)
    BY DEF Solves
  <2>5. m # 0
    BY <2>3, <2>4
  <2>6. m - 1 \in 0..n /\ m - 1 \notin Bad /\ m \in 1..n
    BY <2>2, <2>3, <2>5
  <2>7. PICK f : Solves(f, m - 1, v, G, V)
    BY <2>6 DEF Bad
  <2> DEFINE g == [i \in 0..m |-> IF i = m THEN G[<<m, f[m - 1]>>] ELSE f[i]]
  <2>8. G[<<m, f[m - 1]>>] \in V
    BY <2>6, <2>7 DEF Solves
  <2>9. g \in [0..m -> V] /\ g[0] = v
    BY <2>6, <2>7, <2>8 DEF Solves
  <2>10. ASSUME NEW i \in 1..m PROVE g[i] = G[<<i, g[i - 1]>>]
    <3>1. g[i - 1] = f[i - 1] /\ i \in 0..m
      BY <2>6
    <3>2. CASE i = m
      BY <3>1, <3>2
    <3>3. CASE i # m
      <4>1. i \in 1..(m - 1)
        BY <2>6, <3>3
      <4>2. f[i] = G[<<i, f[i - 1]>>]
        BY <2>7, <4>1 DEF Solves
      <4> QED BY <3>1, <3>3, <4>2
    <3> QED BY <3>2, <3>3
  <2>11. Solves(g, m, v, G, V)
    BY <2>9, <2>10 DEF Solves
  <2> QED BY <2>3, <2>11
<1> QED BY <1>1, <1>2

(* Due is the sums of the differences.                                     *)
LEMMA DueSums ==
  ASSUME NEW s \in SqRec PROVE IsSums(Due(s), s.q, s.sleep)
<1> DEFINE n == Len(s.q)
<1>1. n \in Nat /\ \A i \in 1..n : s.sleep[s.q[i]] \in Nat
  BY SqRecType
<1> HIDE DEF n
<1>2. PICK G : G = [p \in (1..n) \X Nat |-> p[2] + s.sleep[s.q[p[1]]]]
  OBVIOUS
<1>3. /\ G \in [(1..n) \X Nat -> Nat]
      /\ \A i \in 1..n, k \in Nat : G[<<i, k>>] = k + s.sleep[s.q[i]]
  BY <1>1, <1>2
<1>4. PICK f \in [0..n -> Nat] : f[0] = 0 /\ \A i \in 1..n : f[i] = G[<<i, f[i - 1]>>]
  <2>1. PICK V, v : V = Nat /\ v = 0
    OBVIOUS
  <2>2. v \in V /\ n \in Nat /\ G \in [(1..n) \X V -> V]
    BY <1>1, <1>3, <2>1
  <2>3. \E f : Solves(f, n, v, G, V)
    BY <2>2, Iterates
  <2> QED BY <2>1, <2>3 DEF Solves
<1>5. ASSUME NEW i \in 1..n PROVE f[i] = f[i - 1] + s.sleep[s.q[i]]
  <2>1. f[i - 1] \in Nat
    BY <1>1, <1>4
  <2> QED BY <1>3, <1>4, <2>1
<1>6. f = [i \in 0..n |-> IF i = 0 THEN 0 ELSE f[i - 1] + s.sleep[s.q[i]]]
  BY <1>1, <1>4, <1>5
<1>7. Due(s) = [i \in 0..n |-> IF i = 0 THEN 0 ELSE Due(s)[i - 1] + s.sleep[s.q[i]]]
  BY <1>6 DEF Due, n
<1> DEFINE d == Due(s)
<1> HIDE DEF d
<1>8. DOMAIN d = 0..n /\ d[0] = 0 /\ \A i \in 1..n : d[i] = d[i - 1] + s.sleep[s.q[i]]
  BY <1>1, <1>7 DEF d
<1> DEFINE Bad == {i \in 0..n : d[i] \notin Nat}
<1>9. Bad = {}
  <2> SUFFICES ASSUME Bad # {} PROVE FALSE
    OBVIOUS
  <2>1. Bad \subseteq Nat
    BY <1>1
  <2> HIDE DEF Bad
  <2>2. PICK m \in Bad : \A k \in Bad : m <= k
    BY <2>1, Least
  <2>3. m \in 0..n /\ d[m] \notin Nat
    BY <2>2 DEF Bad
  <2>4. m \in 1..n /\ m - 1 \in 0..n /\ m - 1 \notin Bad
    BY <1>1, <1>8, <2>2, <2>3
  <2>5. d[m - 1] \in Nat
    BY <2>4 DEF Bad
  <2>6. d[m] = d[m - 1] + s.sleep[s.q[m]] /\ s.sleep[s.q[m]] \in Nat
    BY <1>1, <1>8, <2>4
  <2> QED BY <2>3, <2>5, <2>6
<1>10. d = [i \in 0..n |-> d[i]]
  BY <1>7, <1>8 DEF d
<1>11. d \in [0..n -> Nat]
  BY <1>9, <1>10
<1> QED BY <1>8, <1>11 DEF IsSums, d, n

(* There is one function of sums, and it does not decrease.                *)
LEMMA SumsUnique ==
  ASSUME NEW q, Len(q) \in Nat, NEW sleep, NEW f, NEW g, IsSums(f, q, sleep), IsSums(g, q, sleep)
  PROVE  f = g
<1> DEFINE n == Len(q)
           Bad == {i \in 0..n : f[i] # g[i]}
<1>1. n \in Nat /\ f \in [0..n -> Nat] /\ g \in [0..n -> Nat] /\ f[0] = 0 /\ g[0] = 0
  BY DEF IsSums
<1>2. \A i \in 1..n : f[i] = f[i - 1] + sleep[q[i]] /\ g[i] = g[i - 1] + sleep[q[i]]
  BY DEF IsSums
<1> HIDE DEF n
<1>3. Bad = {}
  <2> SUFFICES ASSUME Bad # {} PROVE FALSE
    OBVIOUS
  <2>1. Bad \subseteq Nat
    BY <1>1
  <2> HIDE DEF Bad
  <2>2. PICK m \in Bad : \A k \in Bad : m <= k
    BY <2>1, Least
  <2>3. m \in 0..n /\ f[m] # g[m]
    BY <2>2 DEF Bad
  <2>4. m \in 1..n /\ m - 1 \in 0..n /\ m - 1 \notin Bad
    BY <1>1, <2>2, <2>3
  <2>5. f[m - 1] = g[m - 1]
    BY <2>4 DEF Bad
  <2> QED BY <1>2, <2>3, <2>4, <2>5
<1>4. \A i \in 0..n : f[i] = g[i]
  BY <1>3
<1>5. f = [i \in 0..n |-> f[i]] /\ g = [i \in 0..n |-> g[i]]
  BY <1>1
<1> QED BY <1>4, <1>5

(* The sums do not decrease along the queue.                               *)
LEMMA SumsGrow ==
  ASSUME NEW s \in SqRec, NEW D, IsSums(D, s.q, s.sleep),
         NEW i \in 0..Len(s.q), NEW j \in 0..Len(s.q), i <= j
  PROVE  D[i] <= D[j]
<1> DEFINE n == Len(s.q)
           Bad == {k \in i..n : ~(D[i] <= D[k])}
<1>1. n \in Nat /\ D \in [0..n -> Nat] /\ i \in 0..n /\ j \in 0..n
  BY SqRecType DEF IsSums
<1>2. \A k \in 1..n : D[k] = D[k - 1] + s.sleep[s.q[k]] /\ s.sleep[s.q[k]] \in Nat
  BY SqRecType DEF IsSums
<1> HIDE DEF n
<1>3. Bad = {}
  <2> SUFFICES ASSUME Bad # {} PROVE FALSE
    OBVIOUS
  <2>1. Bad \subseteq Nat
    BY <1>1
  <2> HIDE DEF Bad
  <2>2. PICK m \in Bad : \A k \in Bad : m <= k
    BY <2>1, Least
  <2>3. m \in i..n /\ ~(D[i] <= D[m])
    BY <2>2 DEF Bad
  <2>4. m \in 1..n /\ m - 1 \in i..n /\ m - 1 \notin Bad
    BY <1>1, <2>2, <2>3
  <2>5. D[i] <= D[m - 1]
    BY <2>4 DEF Bad
  <2>6. D[m] = D[m - 1] + s.sleep[s.q[m]] /\ s.sleep[s.q[m]] \in Nat
    BY <1>2, <2>4
  <2>7. D[i] \in Nat /\ D[m - 1] \in Nat /\ D[m] \in Nat
    <3>1. m - 1 \in 0..n /\ m \in 0..n
      BY <1>1, <2>4
    <3> QED BY <1>1, <3>1
  <2> DEFINE a == D[i]
             b == D[m - 1]
             c == D[m]
             y == s.sleep[s.q[m]]
  <2>8. a \in Nat /\ b \in Nat /\ y \in Nat /\ a <= b /\ c = b + y /\ ~(a <= c)
    BY <2>3, <2>5, <2>6, <2>7
  <2> HIDE DEF a, b, c, y
  <2> QED BY <2>8
<1>4. j \in i..n
  BY <1>1
<1> QED BY <1>3, <1>4

(* What is left of the time at each position of the queue.                 *)
LEMMA RestDef ==
  ASSUME NEW s \in SqRec, NEW time \in 0..(TimeMod - 1), NEW n, n = Len(s.q)
  PROVE  /\ Rest(s, time) \in [1..(n + 1) -> 0..(TimeMod - 1)]
         /\ Rest(s, time)[1] = time
         /\ \A i \in 2..(n + 1) :
               Rest(s, time)[i] = Utime(Rest(s, time)[i - 1] - s.sleep[s.q[i - 1]])
<1>1. n \in Nat /\ \A i \in 1..n : s.sleep[s.q[i]] \in Nat
  BY SqRecType
<1> DEFINE V == 0..(TimeMod - 1)
<1>2. PICK G : G = [p \in (1..n) \X V |-> Utime(p[2] - s.sleep[s.q[p[1]]])]
  OBVIOUS
<1>3. ASSUME NEW i \in 1..n, NEW v \in V PROVE Utime(v - s.sleep[s.q[i]]) \in V
  <2>1. v - s.sleep[s.q[i]] \in Int
    BY <1>1
  <2> QED BY <2>1, ModRange
<1>4. /\ G \in [(1..n) \X V -> V]
      /\ \A i \in 1..n, v \in V : G[<<i, v>>] = Utime(v - s.sleep[s.q[i]])
  BY <1>1, <1>2, <1>3
<1>5. PICK f : Solves(f, n, time, G, V)
  BY <1>1, <1>4, Iterates
<1> DEFINE r == [i \in 1..(n + 1) |-> f[i - 1]]
<1>6. r \in [1..(n + 1) -> V] /\ r[1] = time
  BY <1>1, <1>5 DEF Solves
<1>7. ASSUME NEW i \in 2..(n + 1) PROVE r[i] = Utime(r[i - 1] - s.sleep[s.q[i - 1]])
  <2>1. i - 1 \in 1..n /\ i - 1 \in 1..(n + 1) /\ i \in 1..(n + 1)
    BY <1>1
  <2>2. r[i] = f[i - 1] /\ r[i - 1] = f[i - 1 - 1] /\ r[i - 1] \in V
    BY <1>6, <2>1
  <2>3. f[i - 1] = G[<<i - 1, f[i - 1 - 1]>>]
    BY <1>5, <2>1 DEF Solves
  <2> QED BY <1>4, <2>1, <2>2, <2>3
<1> HIDE DEF r
<1>8. r = [i \in 1..(n + 1) |-> IF i = 1 THEN time ELSE Utime(r[i - 1] - s.sleep[s.q[i - 1]])]
  BY <1>1, <1>6, <1>7
<1> DEFINE g == Rest(s, time)
<1>9. g = [i \in 1..(n + 1) |-> IF i = 1 THEN time ELSE Utime(g[i - 1] - s.sleep[s.q[i - 1]])]
  BY <1>8 DEF Rest
<1> HIDE DEF g
<1>10. /\ DOMAIN g = 1..(n + 1) /\ g[1] = time
       /\ \A i \in 2..(n + 1) : g[i] = Utime(g[i - 1] - s.sleep[s.q[i - 1]])
  <2>1. DOMAIN g = 1..(n + 1)
    BY <1>9
  <2>2. 1 \in 1..(n + 1)
    BY <1>1
  <2>3. g[1] = time
    BY <1>9, <2>2
  <2>4. ASSUME NEW i \in 2..(n + 1) PROVE g[i] = Utime(g[i - 1] - s.sleep[s.q[i - 1]])
    <3>1. i \in 1..(n + 1) /\ i # 1
      BY <1>1
    <3> QED BY <1>9, <3>1
  <2> QED BY <2>1, <2>3, <2>4
<1> DEFINE Bad == {i \in 1..(n + 1) : g[i] \notin V}
<1>11. Bad = {}
  <2> SUFFICES ASSUME Bad # {} PROVE FALSE
    OBVIOUS
  <2>1. Bad \subseteq Nat
    BY <1>1
  <2> HIDE DEF Bad
  <2>2. PICK m \in Bad : \A k \in Bad : m <= k
    BY <2>1, Least
  <2>3. m \in 1..(n + 1) /\ g[m] \notin V
    BY <2>2 DEF Bad
  <2>4. m \in 2..(n + 1) /\ m - 1 \in 1..n /\ m - 1 \in 1..(n + 1) /\ m - 1 \notin Bad
    BY <1>1, <1>10, <2>2, <2>3
  <2>5. g[m - 1] \in V
    BY <2>4 DEF Bad
  <2>6. g[m] = Utime(g[m - 1] - s.sleep[s.q[m - 1]])
    BY <1>10, <2>4
  <2> QED BY <1>3, <2>3, <2>4, <2>5, <2>6
<1>12. g \in [1..(n + 1) -> V]
  <2>1. g = [i \in 1..(n + 1) |-> g[i]]
    BY <1>9, <1>10
  <2> QED BY <1>11, <2>1
<1> QED BY <1>10, <1>12 DEF g

(* As long as the loop goes on, what is left is the time minus the sum.    *)
Passed(s, r, i) == \A j \in 1..(i - 1) : r[j] >= s.sleep[s.q[j]]

(* Up to the position where the loop stops, nothing wraps.                 *)
LEMMA RestIs ==
  ASSUME NEW s \in SqRec, NEW time \in 0..(TimeMod - 1), NEW D, IsSums(D, s.q, s.sleep),
         NEW n, n = Len(s.q), NEW i \in 1..(n + 1), NEW r, r = Rest(s, time), Passed(s, r, i)
  PROVE  r[i] = time - D[i - 1] /\ D[i - 1] <= time
<1>1. n \in Nat /\ D \in [0..n -> Nat] /\ D[0] = 0 /\ TimeMod \in Nat
  BY SqRecType DEF IsSums
<1>2. \A k \in 1..n : D[k] = D[k - 1] + s.sleep[s.q[k]] /\ s.sleep[s.q[k]] \in 0..(TimeMod - 1)
  BY SqRecType DEF IsSums
<1>3. /\ r \in [1..(n + 1) -> 0..(TimeMod - 1)] /\ r[1] = time
      /\ \A k \in 2..(n + 1) : r[k] = Utime(r[k - 1] - s.sleep[s.q[k - 1]])
  BY RestDef
<1> DEFINE Bad == {k \in 1..i : r[k] # time - D[k - 1]}
<1>4. Bad = {}
  <2> SUFFICES ASSUME Bad # {} PROVE FALSE
    OBVIOUS
  <2>1. Bad \subseteq Nat
    BY <1>1
  <2> HIDE DEF Bad
  <2>2. PICK m \in Bad : \A k \in Bad : m <= k
    BY <2>1, Least
  <2>3. m \in 1..i /\ r[m] # time - D[m - 1]
    BY <2>2 DEF Bad
  <2>4. m # 1
    BY <1>1, <1>3, <2>3
  <2>5. m \in 2..(n + 1) /\ m - 1 \in 1..i /\ m - 1 \notin Bad /\ m - 1 \in 1..(i - 1) /\ m - 1 \in 1..n
    BY <1>1, <2>2, <2>3, <2>4
  <2>6. r[m - 1] = time - D[m - 1 - 1]
    BY <2>5 DEF Bad
  <2>7. r[m] = Utime(r[m - 1] - s.sleep[s.q[m - 1]]) /\ r[m - 1] \in 0..(TimeMod - 1)
    <3>1. m - 1 \in 1..(n + 1)
      BY <1>1, <2>5
    <3> QED BY <1>3, <2>5, <3>1
  <2>8. r[m - 1] >= s.sleep[s.q[m - 1]] /\ s.sleep[s.q[m - 1]] \in 0..(TimeMod - 1)
    BY <1>2, <2>5 DEF Passed
  <2>9. r[m - 1] - s.sleep[s.q[m - 1]] \in 0..(TimeMod - 1)
    BY <1>1, <2>7, <2>8
  <2>10. r[m] = r[m - 1] - s.sleep[s.q[m - 1]]
    BY <2>7, <2>9, SmallMod
  <2>11. D[m - 1] = D[m - 1 - 1] + s.sleep[s.q[m - 1]] /\ D[m - 1 - 1] \in Nat
    <3>1. m - 1 - 1 \in 0..n
      BY <1>1, <2>5
    <3> QED BY <1>1, <1>2, <2>5, <3>1
  <2> DEFINE a == D[m - 1 - 1]
             b == D[m - 1]
             y == s.sleep[s.q[m - 1]]
             e == r[m]
  <2>12. a \in Nat /\ y \in Nat /\ b = a + y /\ e = time - a - y /\ e # time - b
    BY <2>3, <2>6, <2>8, <2>10, <2>11
  <2> HIDE DEF a, b, y, e
  <2> QED BY <1>1, <2>12
<1>5. r[i] = time - D[i - 1] /\ r[i] \in 0..(TimeMod - 1) /\ D[i - 1] \in Nat
  <2>1. i \in 1..i /\ i - 1 \in 0..n
    BY <1>1
  <2> QED BY <1>1, <1>3, <1>4, <2>1
<1> QED BY <1>1, <1>5

(* The loop stops at the first sleeper that is due later.                  *)
LEMMA ScanFacts ==
  ASSUME NEW s \in SqRec, NEW time \in 0..(TimeMod - 1), NEW D, IsSums(D, s.q, s.sleep),
         NEW n, n = Len(s.q), NEW pos, pos = Scan(s, time)
  PROVE  /\ pos \in 1..(n + 1)
         /\ Rest(s, time)[pos] = time - D[pos - 1] /\ D[pos - 1] <= time
         /\ pos <= n => time < D[pos]
<1>1. n \in Nat /\ D \in [0..n -> Nat] /\ D[0] = 0 /\ TimeMod \in Nat
  BY SqRecType DEF IsSums
<1>2. \A k \in 1..n : D[k] = D[k - 1] + s.sleep[s.q[k]] /\ s.sleep[s.q[k]] \in 0..(TimeMod - 1)
  BY SqRecType DEF IsSums
<1>3. PICK r : r = Rest(s, time)
  OBVIOUS
<1>4. r \in [1..(n + 1) -> 0..(TimeMod - 1)]
  BY <1>3, RestDef
<1> DEFINE Stop(i) == i = n + 1 \/ r[i] < s.sleep[s.q[i]]
           First(i) == Stop(i) /\ \A j \in 1..(i - 1) : r[j] >= s.sleep[s.q[j]]
<1>5. \E i \in 1..(n + 1) : First(i)
  <2> DEFINE S == {i \in 1..(n + 1) : Stop(i)}
  <2>1. S \subseteq Nat /\ S # {}
    <3>1. n + 1 \in S
      BY <1>1
    <3> QED BY <1>1, <3>1
  <2> HIDE DEF S
  <2>2. PICK i \in S : \A k \in S : i <= k
    BY <2>1, Least
  <2>3. i \in 1..(n + 1) /\ Stop(i)
    BY <2>2 DEF S
  <2>4. ASSUME NEW j \in 1..(i - 1) PROVE r[j] >= s.sleep[s.q[j]]
    <3>1. j \in 1..(n + 1) /\ j \in 1..n /\ j \notin S
      BY <1>1, <2>2, <2>3
    <3>2. ~(r[j] < s.sleep[s.q[j]])
      BY <3>1 DEF S
    <3>3. r[j] \in Int
      <4>1. r[j] \in 0..(TimeMod - 1)
        BY <1>4, <3>1
      <4> QED BY <1>1, <4>1
    <3>4. s.sleep[s.q[j]] \in Int
      <4>1. s.sleep[s.q[j]] \in 0..(TimeMod - 1)
        BY <1>2, <3>1
      <4> QED BY <1>1, <4>1
    <3> QED BY <3>2, <3>3, <3>4
  <2> QED BY <2>3, <2>4
<1>6. pos = CHOOSE i \in 1..(n + 1) : First(i)
  BY <1>3 DEF Scan
<1> HIDE DEF First
<1>7. pos \in 1..(n + 1) /\ First(pos)
  BY <1>5, <1>6
<1>8. r[pos] = time - D[pos - 1] /\ D[pos - 1] <= time
  <2>1. Passed(s, r, pos)
    BY <1>7 DEF First, Passed
  <2> QED BY <1>3, <1>7, <2>1, RestIs
<1>9. ASSUME pos <= n PROVE time < D[pos]
  <2>1. pos \in 1..n /\ r[pos] < s.sleep[s.q[pos]]
    BY <1>1, <1>7, <1>9 DEF First
  <2>2. D[pos] = D[pos - 1] + s.sleep[s.q[pos]] /\ D[pos - 1] \in Nat /\ s.sleep[s.q[pos]] \in Nat
    <3>1. pos - 1 \in 0..n
      BY <1>1, <2>1
    <3>2. D[pos - 1] \in Nat
      BY <1>1, <3>1
    <3> QED BY <1>1, <1>2, <2>1, <3>2
  <2> QED BY <1>1, <1>8, <2>1, <2>2
<1> QED BY <1>3, <1>7, <1>8, <1>9

(* The queue as the other threads see it.                                  *)
Left(s) == [t \in Range(s.q) |-> Due(s)[CHOOSE i \in DOMAIN s.q : s.q[i] = t]]

GoodQ(s) == s \in SqRec /\ Distinct(s.q) /\ s.max = Due(s)[Len(s.q)]

(* The elements of a sequence.                                             *)
LEMMA RangeIs ==
  ASSUME NEW S, NEW q \in Seq(S)
  PROVE  /\ \A x : x \in Range(q) <=> \E i \in 1..Len(q) : q[i] = x
         /\ Range(q) \subseteq S
<1>1. DOMAIN q = 1..Len(q) /\ \A i \in 1..Len(q) : q[i] \in S
  BY LenProperties, ElementOfSeq
<1> QED BY <1>1 DEF Range

(* The time left to a sleeper is the sum at its position.                  *)
LEMMA LeftIs ==
  ASSUME NEW s \in SqRec, Distinct(s.q), NEW i \in 1..Len(s.q)
  PROVE  s.q[i] \in Range(s.q) /\ Left(s)[s.q[i]] = Due(s)[i]
<1>1. DOMAIN s.q = 1..Len(s.q) /\ s.q \in Seq(Sleepers)
  BY SqRecType
<1>2. s.q[i] \in Range(s.q)
  BY <1>1 DEF Range
<1>3. (CHOOSE k \in DOMAIN s.q : s.q[k] = s.q[i]) = i
  BY <1>1 DEF Distinct
<1> QED BY <1>2, <1>3 DEF Left

IsLeft(f, s) ==
  /\ f = [t \in Range(s.q) |-> f[t]]
  /\ \A i \in 1..Len(s.q) : f[s.q[i]] = Due(s)[i]

(* It is the only function with the sums at these positions.               *)
LEMMA LeftEquals ==
  ASSUME NEW s \in SqRec, Distinct(s.q), NEW f, IsLeft(f, s)
  PROVE  Left(s) = f
<1>1. s.q \in Seq(Sleepers)
  BY SqRecType
<1>2. ASSUME NEW t \in Range(s.q) PROVE Left(s)[t] = f[t]
  <2>1. PICK i \in 1..Len(s.q) : s.q[i] = t
    BY <1>1, RangeIs
  <2> QED BY <2>1, LeftIs DEF IsLeft
<1>3. Left(s) = [t \in Range(s.q) |-> Left(s)[t]]
  BY DEF Left
<1> QED BY <1>2, <1>3 DEF IsLeft

(* g is q with t at position p.                                            *)
Inserted(g, q, p, t) ==
  /\ p \in 1..(Len(q) + 1) /\ Len(g) = Len(q) + 1
  /\ \A k \in 1..(p - 1) : g[k] = q[k]
  /\ g[p] = t
  /\ \A k \in (p + 1)..(Len(q) + 1) : g[k] = q[k - 1]

(* Append inserts at the end.                                              *)
LEMMA AppendInserts ==
  ASSUME NEW S, NEW q \in Seq(S), NEW t \in S
  PROVE  Append(q, t) \in Seq(S) /\ Inserted(Append(q, t), q, Len(q) + 1, t)
<1>1. Len(q) \in Nat
  BY LenProperties
<1>2. /\ Append(q, t) \in Seq(S) /\ Len(Append(q, t)) = Len(q) + 1
      /\ \A k \in 1..Len(q) : Append(q, t)[k] = q[k]
      /\ Append(q, t)[Len(q) + 1] = t
  BY AppendProperties
<1> QED BY <1>1, <1>2 DEF Inserted

(* ST_INSERT_BEFORE inserts where it is told.                              *)
LEMMA InsertAtInserts ==
  ASSUME NEW S, NEW q \in Seq(S), NEW t \in S, NEW p \in 1..(Len(q) + 1)
  PROVE  InsertAt(q, p, t) \in Seq(S) /\ Inserted(InsertAt(q, p, t), q, p, t)
<1> DEFINE n == Len(q)
           a == SubSeq(q, 1, p - 1)
           b == SubSeq(q, p, n)
           c == a \o <<t>>
           g == c \o b
<1>1. n \in Nat
  OBVIOUS
<1>2. a \in Seq(S) /\ Len(a) = p - 1 /\ \A k \in 1..(p - 1) : a[k] = q[k]
  BY <1>1
<1>3. b \in Seq(S) /\ Len(b) = n - p + 1 /\ \A k \in 1..(n - p + 1) : b[k] = q[k + p - 1]
  BY <1>1
<1>4. g = InsertAt(q, p, t)
  BY DEF InsertAt
<1> HIDE DEF a, b
<1>5. <<t>> \in Seq(S) /\ Len(<<t>>) = 1 /\ <<t>>[1] = t
  OBVIOUS
<1>6. c \in Seq(S) /\ Len(c) = p /\ c[p] = t /\ \A k \in 1..(p - 1) : c[k] = q[k]
  <2>1. c \in Seq(S) /\ Len(c) = Len(a) + Len(<<t>>)
    BY <1>2, <1>5, ConcatProperties
  <2>2. \A k \in 1..(p - 1) : c[k] = a[k]
    BY <1>2, <1>5
  <2>3. c[p] = t
    BY <1>1, <1>2, <1>5
  <2> QED BY <1>1, <1>2, <1>5, <2>1, <2>2, <2>3
<1> HIDE DEF c
<1>7. g \in Seq(S) /\ Len(g) = n + 1 /\ \A k \in 1..p : g[k] = c[k]
  <2>1. g \in Seq(S) /\ Len(g) = Len(c) + Len(b)
    BY <1>3, <1>6, ConcatProperties
  <2>2. \A k \in 1..p : g[k] = c[k]
    BY <1>3, <1>6
  <2> QED BY <1>1, <1>3, <1>6, <2>1, <2>2
<1>8. ASSUME NEW k \in (p + 1)..(n + 1) PROVE g[k] = q[k - 1]
  <2>1. k - p \in 1..(n - p + 1) /\ k \notin 1..p /\ k \in 1..(n + 1) /\ k - p + p - 1 = k - 1
    BY <1>1
  <2>2. g[k] = b[k - p]
    BY <1>1, <1>3, <1>6, <2>1
  <2>3. b[k - p] = q[k - p + p - 1]
    BY <1>3, <2>1
  <2> QED BY <2>1, <2>2, <2>3
<1> HIDE DEF g
<1>9. g[p] = t /\ \A k \in 1..(p - 1) : g[k] = q[k]
  BY <1>1, <1>6, <1>7
<1>10. Inserted(g, q, p, t)
  BY <1>1, <1>7, <1>8, <1>9 DEF Inserted
<1> QED BY <1>4, <1>7, <1>10

(* An insertion adds one sleeper and keeps the others.                     *)
LEMMA InsertedFacts ==
  ASSUME NEW S, NEW q \in Seq(S), NEW t \in S, NEW g \in Seq(S), NEW p, Inserted(g, q, p, t),
         Distinct(q), t \notin Range(q)
  PROVE  Distinct(g) /\ Range(g) = Range(q) \cup {t}
<1> DEFINE n == Len(q)
<1>1. n \in Nat /\ p \in 1..(n + 1) /\ Len(g) = n + 1
  BY LenProperties DEF Inserted
<1>2. /\ \A k \in 1..(p - 1) : g[k] = q[k]
      /\ g[p] = t
      /\ \A k \in (p + 1)..(n + 1) : g[k] = q[k - 1]
  BY DEF Inserted
<1> HIDE DEF n
<1> DEFINE old(k) == IF k < p THEN k ELSE k - 1
<1>3. \A k \in 1..(n + 1) : k # p => old(k) \in 1..n /\ g[k] = q[old(k)]
  BY <1>1, <1>2
<1>4. \A k \in 1..n : q[k] # t
  BY RangeIs DEF n
<1>5. ASSUME NEW j \in 1..(n + 1), NEW k \in 1..(n + 1), g[j] = g[k] PROVE j = k
  <2>1. CASE j # p /\ k # p
    <3>1. old(j) = old(k)
      BY <1>3, <1>5, <2>1 DEF Distinct, n
    <3> QED BY <1>1, <2>1, <3>1
  <2>2. CASE j = p \/ k = p
    BY <1>2, <1>3, <1>4, <1>5, <2>2
  <2> QED BY <2>1, <2>2
<1>6. ASSUME NEW x PROVE x \in Range(g) <=> x \in Range(q) \/ x = t
  <2>1. ASSUME NEW k \in 1..(n + 1), g[k] = x PROVE x = t \/ \E i \in 1..n : q[i] = x
    BY <1>2, <1>3, <2>1
  <2>2. ASSUME NEW k \in 1..n, q[k] = x PROVE \E i \in 1..(n + 1) : g[i] = x
    <3>1. CASE k < p
      BY <1>1, <1>2, <2>2, <3>1
    <3>2. CASE ~(k < p)
      <4>1. k + 1 \in (p + 1)..(n + 1) /\ k + 1 \in 1..(n + 1) /\ k + 1 - 1 = k
        BY <1>1, <3>2
      <4>2. g[k + 1] = x
        BY <1>2, <2>2, <4>1
      <4> QED BY <4>1, <4>2
    <3> QED BY <3>1, <3>2
  <2>3. p \in 1..(n + 1) /\ g[p] = t
    BY <1>1, <1>2
  <2>4. x \in Range(g) <=> \E i \in 1..(n + 1) : g[i] = x
    BY <1>1, RangeIs
  <2>5. x \in Range(q) <=> \E i \in 1..n : q[i] = x
    BY RangeIs DEF n
  <2> QED BY <2>1, <2>2, <2>3, <2>4, <2>5
<1> QED BY <1>1, <1>5, <1>6 DEF Distinct

(* The differences of u are those of s, with t due at x in position p.     *)
Joined(u, s, D, p, t, x) ==
  /\ u \in SqRec /\ Inserted(u.q, s.q, p, t)
  /\ D[p - 1] <= x /\ u.sleep[t] = x - D[p - 1]
  /\ p <= Len(s.q) => x < D[p] /\ u.sleep[s.q[p]] = D[p] - x
  /\ \A k \in 1..Len(s.q) : k # p => u.sleep[s.q[k]] = s.sleep[s.q[k]]
  /\ u.max = IF p <= Len(s.q) THEN s.max ELSE x

(* _st_add_sleep_q puts the thread behind those that are not due later,    *)
(* and no difference wraps.                                                *)
LEMMA AddJoins ==
  ASSUME NEW s, GoodQ(s), NEW D, D = Due(s), NEW t \in Sleepers, t \notin Range(s.q),
         NEW x \in 0..(TimeMod - 1), NEW u, u = _st_add_sleep_q(s, t, x)
  PROVE  \E p : Joined(u, s, D, p, t, x)
<1> DEFINE n == Len(s.q)
<1>1. s \in SqRec /\ Distinct(s.q) /\ s.max = D[n] /\ IsSums(D, s.q, s.sleep)
  BY DueSums DEF GoodQ
<1>2. /\ n \in Nat /\ s.q \in Seq(Sleepers) /\ s.sleep \in [Sleepers -> 0..(TimeMod - 1)]
      /\ s.max \in 0..(TimeMod - 1) /\ TimeMod \in Nat
      /\ \A k \in 1..n : s.q[k] \in Sleepers
  BY <1>1, SqRecType
<1>3. /\ D \in [0..n -> Nat]
      /\ \A k \in 1..n : D[k] = D[k - 1] + s.sleep[s.q[k]]
  BY <1>1 DEF IsSums
<1>4. \A k \in 1..n : s.q[k] # t
  BY <1>2, RangeIs
<1> HIDE DEF n
<1>5. CASE x >= s.max
  <2>1. u = [q |-> Append(s.q, t), sleep |-> [s.sleep EXCEPT ![t] = Utime(x - s.max)], max |-> x]
    BY <1>5 DEF _st_add_sleep_q
  <2>2. x - s.max \in 0..(TimeMod - 1)
    BY <1>2, <1>5
  <2>3. Utime(x - s.max) = x - s.max
    BY <2>2, SmallMod
  <2>4. /\ u.q = Append(s.q, t) /\ u.sleep = [s.sleep EXCEPT ![t] = x - s.max] /\ u.max = x
        /\ u = [q |-> u.q, sleep |-> u.sleep, max |-> u.max]
    BY <2>1, <2>3
  <2>5. u.q \in Seq(Sleepers) /\ Inserted(u.q, s.q, n + 1, t)
    BY <1>2, <2>4, AppendInserts DEF n
  <2>6. u.sleep \in [Sleepers -> 0..(TimeMod - 1)] /\ u.sleep[t] = x - s.max
    BY <1>2, <2>2, <2>4
  <2>7. u \in SqRec
    BY <2>4, <2>5, <2>6 DEF SqRec
  <2>8. \A k \in 1..n : u.sleep[s.q[k]] = s.sleep[s.q[k]]
    BY <1>2, <1>4, <2>4
  <2>9. n + 1 - 1 = n /\ ~(n + 1 <= n)
    BY <1>2
  <2>10. D[n + 1 - 1] <= x /\ u.sleep[t] = x - D[n + 1 - 1]
    BY <1>1, <1>2, <1>5, <2>6, <2>9
  <2> QED BY <2>4, <2>5, <2>7, <2>8, <2>9, <2>10 DEF Joined, n
<1>6. CASE ~(x >= s.max)
  <2> DEFINE p == Scan(s, x)
             sl == Rest(s, x)[p]
  <2>1. p \in 1..(n + 1) /\ sl = x - D[p - 1] /\ D[p - 1] <= x /\ (p <= n => x < D[p])
    BY <1>1, ScanFacts DEF n
  <2>2. u = [q |-> InsertAt(s.q, p, t),
             sleep |-> [s.sleep EXCEPT ![t] = sl, ![s.q[p]] = Utime(@ - sl)],
             max |-> s.max]
    BY <1>6 DEF _st_add_sleep_q
  <2> HIDE DEF p, sl
  <2>3. p \in 1..n
    <3>1. p # n + 1
      <4>1. SUFFICES ASSUME p = n + 1 PROVE FALSE
        OBVIOUS
      <4>2. D[n] <= x
        BY <1>2, <2>1, <4>1
      <4> QED BY <1>1, <1>2, <1>6, <4>2
    <3> QED BY <1>2, <2>1, <3>1
  <2>4. /\ D[p - 1] \in Nat /\ D[p] \in Nat /\ D[p] = D[p - 1] + s.sleep[s.q[p]]
        /\ s.q[p] \in Sleepers /\ s.q[p] # t /\ s.sleep[s.q[p]] \in 0..(TimeMod - 1)
    <3>1. p - 1 \in 0..n /\ p \in 0..n
      BY <1>2, <2>3
    <3>2. s.q[p] \in Sleepers /\ s.q[p] # t
      BY <1>2, <1>4, <2>3
    <3> QED BY <1>2, <1>3, <2>3, <3>1, <3>2
  <2>5. sl \in 0..(TimeMod - 1) /\ s.sleep[s.q[p]] - sl \in 0..(TimeMod - 1)
        /\ s.sleep[s.q[p]] - sl = D[p] - x
    <3>1. p <= n
      BY <1>2, <2>3
    <3>2. PICK a \in Nat, b \in Nat, c \in 0..(TimeMod - 1) :
              a = D[p - 1] /\ b = D[p] /\ c = s.sleep[s.q[p]]
      BY <2>4
    <3>3. b = a + c /\ a <= x /\ x < b /\ sl = x - a
      BY <2>1, <2>4, <3>1, <3>2
    <3>4. sl \in 0..(TimeMod - 1) /\ c - sl \in 0..(TimeMod - 1) /\ c - sl = b - x
      BY <1>2, <3>3
    <3> QED BY <3>2, <3>4
  <2>6. Utime(s.sleep[s.q[p]] - sl) = s.sleep[s.q[p]] - sl
    BY <2>5, SmallMod
  <2>7. /\ u.q = InsertAt(s.q, p, t) /\ u.max = s.max
        /\ u.sleep = [s.sleep EXCEPT ![t] = sl, ![s.q[p]] = Utime(@ - sl)]
        /\ u = [q |-> u.q, sleep |-> u.sleep, max |-> u.max]
    BY <2>2
  <2>8. u.q \in Seq(Sleepers) /\ Inserted(u.q, s.q, p, t)
    BY <1>2, <2>1, <2>7, InsertAtInserts DEF n
  <2>9. /\ u.sleep[t] = sl /\ u.sleep[s.q[p]] = s.sleep[s.q[p]] - sl
        /\ \A y \in Sleepers : y # t /\ y # s.q[p] => u.sleep[y] = s.sleep[y]
    BY <1>2, <2>4, <2>6, <2>7
  <2>10. u.sleep \in [Sleepers -> 0..(TimeMod - 1)]
    <3>1. u.sleep = [y \in Sleepers |-> u.sleep[y]]
      BY <1>2, <2>7
    <3>2. \A y \in Sleepers : u.sleep[y] \in 0..(TimeMod - 1)
      BY <1>2, <2>5, <2>9
    <3> QED BY <3>1, <3>2
  <2>11. u \in SqRec
    BY <1>2, <2>7, <2>8, <2>10 DEF SqRec
  <2>12. \A k \in 1..n : k # p => u.sleep[s.q[k]] = s.sleep[s.q[k]]
    BY <1>1, <1>2, <1>4, <2>3, <2>9 DEF Distinct, n
  <2>13. p <= n
    BY <1>2, <2>3
  <2>14. Joined(u, s, D, p, t, x)
    BY <2>1, <2>5, <2>7, <2>8, <2>9, <2>11, <2>12, <2>13 DEF Joined, n
  <2> QED BY <2>14
<1> QED BY <1>5, <1>6

(* The sums after an insertion: the others' are the same.                  *)
LEMMA JoinedSums ==
  ASSUME NEW s, GoodQ(s), NEW D, D = Due(s), NEW t \in Sleepers, t \notin Range(s.q),
         NEW x \in 0..(TimeMod - 1), NEW u, NEW p, Joined(u, s, D, p, t, x)
  PROVE  Due(u) = [k \in 0..(Len(s.q) + 1) |->
                     IF k < p THEN D[k] ELSE IF k = p THEN x ELSE D[k - 1]]
<1> DEFINE n == Len(s.q)
           E == [k \in 0..(n + 1) |-> IF k < p THEN D[k] ELSE IF k = p THEN x ELSE D[k - 1]]
<1>1. s \in SqRec /\ IsSums(D, s.q, s.sleep)
  BY DueSums DEF GoodQ
<1>2. n \in Nat /\ s.q \in Seq(Sleepers) /\ TimeMod \in Nat
  BY <1>1, SqRecType
<1>3. /\ D \in [0..n -> Nat] /\ D[0] = 0
      /\ \A k \in 1..n : D[k] = D[k - 1] + s.sleep[s.q[k]]
  BY <1>1 DEF IsSums
<1>4. /\ u \in SqRec /\ p \in 1..(n + 1) /\ Len(u.q) = n + 1
      /\ D[p - 1] <= x /\ u.sleep[t] = x - D[p - 1]
      /\ p <= n => u.sleep[s.q[p]] = D[p] - x
      /\ \A k \in 1..n : k # p => u.sleep[s.q[k]] = s.sleep[s.q[k]]
  BY DEF Joined, Inserted
<1>5. /\ \A k \in 1..(p - 1) : u.q[k] = s.q[k]
      /\ u.q[p] = t
      /\ \A k \in (p + 1)..(n + 1) : u.q[k] = s.q[k - 1]
  BY DEF Joined, Inserted
<1> HIDE DEF n
<1>6. E \in [0..(n + 1) -> Nat] /\ E[0] = 0
  <2>1. ASSUME NEW k \in 0..(n + 1) PROVE E[k] \in Nat
    <3>1. CASE k < p
      <4>1. k \in 0..n
        BY <1>2, <1>4, <3>1
      <4> QED BY <1>3, <3>1, <4>1
    <3>2. CASE k = p
      BY <1>2, <3>2
    <3>3. CASE k > p
      <4>1. k - 1 \in 0..n
        BY <1>2, <1>4, <3>3
      <4> QED BY <1>3, <1>4, <3>3, <4>1
    <3> QED BY <1>4, <3>1, <3>2, <3>3
  <2> QED BY <1>2, <1>3, <1>4, <2>1
<1>7. ASSUME NEW k \in 1..(n + 1) PROVE E[k] = E[k - 1] + u.sleep[u.q[k]]
  <2>1. k - 1 \in 0..(n + 1) /\ k \in 0..(n + 1)
    BY <1>2
  <2>2. CASE k < p
    <3>1. k \in 1..n /\ k \in 1..(p - 1) /\ k - 1 < p /\ k # p
      BY <1>2, <1>4, <2>2
    <3>2. E[k] = D[k] /\ E[k - 1] = D[k - 1]
      BY <2>1, <2>2, <3>1
    <3>3. u.sleep[u.q[k]] = s.sleep[s.q[k]]
      BY <1>4, <1>5, <3>1
    <3> QED BY <1>3, <3>1, <3>2, <3>3
  <2>3. CASE k = p
    <3>1. E[k] = x /\ E[k - 1] = D[k - 1] /\ u.sleep[u.q[k]] = x - D[k - 1]
      BY <1>4, <1>5, <2>1, <2>3
    <3>2. D[k - 1] \in Nat
      BY <1>2, <1>3
    <3> QED BY <1>2, <3>1, <3>2
  <2>4. CASE k = p + 1
    <3>1. p \in 1..n /\ p <= n /\ k \in (p + 1)..(n + 1) /\ k - 1 = p /\ ~(k < p) /\ k # p /\ ~(p < p)
      BY <1>2, <1>4, <2>4
    <3>2. E[k] = D[p] /\ E[k - 1] = x
      BY <2>1, <3>1
    <3>3. u.sleep[u.q[k]] = D[p] - x
      BY <1>4, <1>5, <3>1
    <3>4. D[p] \in Nat
      BY <1>2, <1>3, <3>1
    <3> QED BY <1>2, <3>2, <3>3, <3>4
  <2>5. CASE k > p + 1
    <3>1. k - 1 \in 1..n /\ k - 1 # p /\ k \in (p + 1)..(n + 1) /\ ~(k < p) /\ k # p /\ ~(k - 1 < p)
      BY <1>2, <1>4, <2>5
    <3>2. E[k] = D[k - 1] /\ E[k - 1] = D[k - 1 - 1]
      BY <2>1, <3>1
    <3>3. u.sleep[u.q[k]] = s.sleep[s.q[k - 1]]
      BY <1>4, <1>5, <3>1
    <3> QED BY <1>3, <3>1, <3>2, <3>3
  <2> QED BY <1>4, <2>2, <2>3, <2>4, <2>5
<1> HIDE DEF E
<1>8. IsSums(E, u.q, u.sleep)
  BY <1>4, <1>6, <1>7 DEF IsSums
<1>9. IsSums(Due(u), u.q, u.sleep) /\ Len(u.q) \in Nat
  BY <1>4, DueSums, SqRecType
<1>10. Due(u) = E
  BY <1>8, <1>9, SumsUnique
<1> QED BY <1>10 DEF E, n

LeftWith(s, t, x) == [y \in Range(s.q) \cup {t} |-> IF y = t THEN x ELSE Left(s)[y]]

(* A thread that goes to sleep has its timeout left, and no other sleeper  *)
(* wakes earlier or later for it.                                          *)
LEMMA AddFacts ==
  ASSUME NEW s, GoodQ(s), NEW t \in Sleepers, t \notin Range(s.q),
         NEW x \in 0..(TimeMod - 1), NEW u, u = _st_add_sleep_q(s, t, x)
  PROVE  /\ GoodQ(u)
         /\ Left(u) = LeftWith(s, t, x)
<1> DEFINE n == Len(s.q)
           f == [y \in Range(s.q) \cup {t} |-> IF y = t THEN x ELSE Left(s)[y]]
<1>1. PICK D : D = Due(s)
  OBVIOUS
<1>2. PICK p : Joined(u, s, D, p, t, x)
  BY <1>1, AddJoins
<1>3. s \in SqRec /\ Distinct(s.q) /\ s.max = D[n]
  BY <1>1 DEF GoodQ
<1>4. n \in Nat /\ s.q \in Seq(Sleepers) /\ \A k \in 1..n : s.q[k] # t
  BY <1>3, SqRecType, RangeIs
<1>5. /\ u \in SqRec /\ Inserted(u.q, s.q, p, t) /\ p \in 1..(n + 1) /\ Len(u.q) = n + 1
      /\ u.max = IF p <= n THEN s.max ELSE x
  BY <1>2 DEF Joined, Inserted
<1>6. /\ \A k \in 1..(p - 1) : u.q[k] = s.q[k]
      /\ u.q[p] = t
      /\ \A k \in (p + 1)..(n + 1) : u.q[k] = s.q[k - 1]
  BY <1>5 DEF Inserted
<1>7. Due(u) = [k \in 0..(n + 1) |-> IF k < p THEN D[k] ELSE IF k = p THEN x ELSE D[k - 1]]
  BY <1>1, <1>2, JoinedSums
<1>8. u.q \in Seq(Sleepers)
  BY <1>5, SqRecType
<1>9. Distinct(u.q) /\ Range(u.q) = Range(s.q) \cup {t}
  BY <1>3, <1>4, <1>5, <1>8, InsertedFacts
<1> HIDE DEF n
<1>10. u.max = Due(u)[n + 1]
  <2>1. n + 1 \in 0..(n + 1) /\ ~(n + 1 < p) /\ n + 1 - 1 = n /\ (p <= n <=> n + 1 # p)
    BY <1>4, <1>5
  <2>2. Due(u)[n + 1] = IF n + 1 = p THEN x ELSE D[n]
    BY <1>4, <1>5, <1>7, <2>1
  <2>3. CASE n + 1 = p
    BY <1>4, <1>5, <2>1, <2>2, <2>3
  <2>4. CASE n + 1 # p
    BY <1>3, <1>4, <1>5, <2>1, <2>2, <2>4
  <2> QED BY <2>3, <2>4
<1>11. IsLeft(f, u)
  <2>1. f = [y \in Range(u.q) |-> f[y]]
    BY <1>9
  <2>2. ASSUME NEW k \in 1..(n + 1) PROVE f[u.q[k]] = Due(u)[k]
    <3>1. k \in 0..(n + 1)
      BY <1>4
    <3>2. CASE k < p
      <4>1. k \in 1..n /\ k \in 1..(p - 1)
        BY <1>4, <1>5, <3>2
      <4>2. u.q[k] = s.q[k] /\ s.q[k] # t /\ s.q[k] \in Range(s.q) /\ Left(s)[s.q[k]] = D[k]
        BY <1>1, <1>3, <1>4, <1>6, <4>1, LeftIs DEF n
      <4> QED BY <1>7, <3>1, <3>2, <4>2
    <3>3. CASE k = p
      BY <1>6, <1>7, <3>1, <3>3
    <3>4. CASE k > p
      <4>1. k - 1 \in 1..n /\ k \in (p + 1)..(n + 1) /\ ~(k < p) /\ k # p
        BY <1>4, <1>5, <3>4
      <4>2. /\ u.q[k] = s.q[k - 1] /\ s.q[k - 1] # t /\ s.q[k - 1] \in Range(s.q)
            /\ Left(s)[s.q[k - 1]] = D[k - 1]
        BY <1>1, <1>3, <1>4, <1>6, <4>1, LeftIs DEF n
      <4> QED BY <1>7, <3>1, <4>1, <4>2
    <3> QED BY <1>5, <3>2, <3>3, <3>4
  <2> HIDE DEF f
  <2> QED BY <1>5, <2>1, <2>2 DEF IsLeft
<1>12. Left(u) = f
  BY <1>5, <1>9, <1>11, LeftEquals
<1> QED BY <1>5, <1>9, <1>10, <1>12 DEF GoodQ, LeftWith

(* The differences of u are those of s without the k-th.                   *)
Parted(u, s, D, k) ==
  /\ u \in SqRec /\ k \in 1..Len(s.q) /\ Removed(u.q, s.q, k)
  /\ k < Len(s.q) => u.sleep[s.q[k + 1]] = D[k + 1] - D[k - 1]
  /\ \A i \in 1..Len(s.q) : i # k /\ i # k + 1 => u.sleep[s.q[i]] = s.sleep[s.q[i]]
  /\ u.max = IF k < Len(s.q) THEN s.max ELSE D[k - 1]

(* What _st_del_sleep_q leaves, with the k-th sleeper taken off.           *)
DelIs(u, s, k, e) ==
  /\ u.q = RemoveAt(s.q, k) /\ u = [q |-> u.q, sleep |-> u.sleep, max |-> u.max]
  /\ k = Len(s.q) \/ e => u.sleep = s.sleep
  /\ ~(k = Len(s.q) \/ e) =>
        u.sleep = [s.sleep EXCEPT ![s.q[k + 1]] = Utime(@ + s.sleep[s.q[k]])]
  /\ k # Len(s.q) /\ ~e => u.max = s.max
  /\ k = Len(s.q) /\ k = 1 => u.max = 0
  /\ (k = Len(s.q) \/ e) /\ ~(k = Len(s.q) /\ k = 1) =>
        u.max = Utime(s.max - s.sleep[s.q[k]])

(* The fields after _st_del_sleep_q.                                       *)
LEMMA DelFields ==
  ASSUME NEW s \in SqRec, Distinct(s.q), NEW k \in 1..Len(s.q), NEW e \in BOOLEAN
  PROVE  DelIs(_st_del_sleep_q(s, s.q[k], e), s, k, e)
<1>0. PICK u : u = _st_del_sleep_q(s, s.q[k], e)
  OBVIOUS
<1>1. DOMAIN s.q = 1..Len(s.q)
  BY SqRecType
<1>2. (CHOOSE i \in DOMAIN s.q : s.q[i] = s.q[k]) = k
  BY <1>1 DEF Distinct
<1>3. PICK t : t = s.q[k]
  OBVIOUS
<1>4. PICK m : m = CHOOSE i \in DOMAIN s.q : s.q[i] = t
  OBVIOUS
<1>5. m = k
  BY <1>2, <1>3, <1>4
<1>6. u = [q |-> RemoveAt(s.q, m),
           sleep |-> IF m = Len(s.q) \/ e THEN s.sleep
                     ELSE [s.sleep EXCEPT ![s.q[m + 1]] = Utime(@ + s.sleep[t])],
           max |-> IF ~(m = Len(s.q)) /\ ~e THEN s.max
                   ELSE IF m = Len(s.q) /\ m = 1 THEN 0 ELSE Utime(s.max - s.sleep[t])]
  BY <1>0, <1>3, <1>4 DEF _st_del_sleep_q
<1> QED BY <1>0, <1>3, <1>5, <1>6 DEF DelIs

(* _st_del_sleep_q gives the difference of a cancelled sleeper to the one  *)
(* behind it, and no sum wraps.                                            *)
LEMMA CancelParts ==
  ASSUME NEW s, GoodQ(s), NEW D, D = Due(s), NEW k \in 1..Len(s.q),
         NEW e, e = FALSE, NEW u, u = _st_del_sleep_q(s, s.q[k], e)
  PROVE  /\ Parted(u, s, D, k) /\ Distinct(u.q)
         /\ Range(u.q) = Range(s.q) \ {s.q[k]}
<1> DEFINE n == Len(s.q)
<1>1. s \in SqRec /\ Distinct(s.q) /\ s.max = D[n] /\ IsSums(D, s.q, s.sleep)
  BY DueSums DEF GoodQ
<1>2. /\ n \in Nat /\ s.q \in Seq(Sleepers) /\ s.sleep \in [Sleepers -> 0..(TimeMod - 1)]
      /\ s.max \in 0..(TimeMod - 1) /\ TimeMod \in Nat /\ DOMAIN s.q = 1..n
      /\ \A i \in 1..n : s.q[i] \in Sleepers
  BY <1>1, SqRecType
<1>3. /\ D \in [0..n -> Nat] /\ D[0] = 0
      /\ \A i \in 1..n : D[i] = D[i - 1] + s.sleep[s.q[i]]
  BY <1>1 DEF IsSums
<1>6. /\ u.q = RemoveAt(s.q, k) /\ u = [q |-> u.q, sleep |-> u.sleep, max |-> u.max]
      /\ k = n => u.sleep = s.sleep
      /\ k # n => u.sleep = [s.sleep EXCEPT ![s.q[k + 1]] = Utime(@ + s.sleep[s.q[k]])]
      /\ k # n => u.max = s.max
      /\ k = n /\ k = 1 => u.max = 0
      /\ k = n /\ k # 1 => u.max = Utime(s.max - s.sleep[s.q[k]])
  <2>1. e \in BOOLEAN /\ k \in 1..n
    OBVIOUS
  <2>2. DelIs(u, s, k, e)
    BY <1>1, <2>1, DelFields
  <2> QED BY <2>2 DEF DelIs
<1>7. /\ u.q \in Seq(Sleepers) /\ Distinct(u.q) /\ Removed(u.q, s.q, k)
      /\ \A x : Listed(u.q, x) <=> Listed(s.q, x) /\ x # s.q[k]
  <2>1. /\ s.q \in Seq(Sleepers) /\ Distinct(s.q) /\ k \in 1..Len(s.q)
        /\ u.q = RemoveAt(s.q, k)
    BY <1>1, <1>2, <1>6
  <2> QED BY <2>1, RemoveFacts
<1>8. Range(u.q) = Range(s.q) \ {s.q[k]}
  <2>1. \A x : x \in Range(u.q) <=> Listed(u.q, x)
    BY <1>7, RangeIs DEF Listed
  <2>2. \A x : x \in Range(s.q) <=> Listed(s.q, x)
    BY <1>2, RangeIs DEF Listed
  <2> QED BY <1>7, <2>1, <2>2
<1>9. /\ k \in 1..n /\ k - 1 \in 0..n /\ k \in 0..n
      /\ D[k - 1] \in Nat /\ D[k] \in Nat /\ D[k] = D[k - 1] + s.sleep[s.q[k]]
      /\ s.sleep[s.q[k]] \in 0..(TimeMod - 1)
  <2>1. k \in 1..n /\ k - 1 \in 0..n /\ k \in 0..n /\ s.q[k] \in Sleepers
    BY <1>2
  <2> QED BY <1>2, <1>3, <2>1
<1> HIDE DEF n
<1>10. CASE k = n
  <2>1. u.sleep = s.sleep
    BY <1>6, <1>10
  <2>2. u.max = D[k - 1] /\ u.max \in 0..(TimeMod - 1)
    <3>1. CASE k = 1
      <4>1. u.max = 0
        BY <1>6, <1>10, <3>1
      <4>2. k - 1 = 0 /\ 0 \in 0..(TimeMod - 1)
        BY <3>1, SleepQAssumption
      <4> QED BY <1>3, <4>1, <4>2
    <3>2. CASE k # 1
      <4>1. u.max = Utime(s.max - s.sleep[s.q[k]])
        BY <1>6, <1>10, <3>2
      <4>2. /\ s.max - s.sleep[s.q[k]] = D[k - 1]
            /\ s.max - s.sleep[s.q[k]] \in 0..(TimeMod - 1)
        <5>1. s.max = D[k]
          BY <1>1, <1>10 DEF n
        <5> DEFINE a == D[k - 1]
                   b == D[k]
                   y == s.sleep[s.q[k]]
        <5>2. a \in Nat /\ y \in Nat /\ b = a + y /\ b = s.max
          BY <1>9, <5>1
        <5> HIDE DEF a, b, y
        <5>3. s.max - y = a /\ s.max - y \in 0..(TimeMod - 1)
          BY <1>2, <5>2
        <5> QED BY <5>3 DEF a, y
      <4> QED BY <4>1, <4>2, SmallMod
    <3> QED BY <3>1, <3>2
  <2>3. u \in SqRec
    BY <1>2, <1>6, <1>7, <2>1, <2>2 DEF SqRec
  <2>4. ~(k < n)
    BY <1>9, <1>10
  <2>5. Parted(u, s, D, k)
    BY <1>7, <1>9, <2>1, <2>2, <2>3, <2>4 DEF Parted, n
  <2> QED BY <1>7, <1>8, <2>5
<1>11. CASE k # n
  <2>1. k < n /\ k + 1 \in 1..n /\ k + 1 - 1 = k /\ k + 1 \in 0..n /\ n \in 0..n /\ k + 1 <= n
    BY <1>2, <1>9, <1>11
  <2>2. D[k + 1] <= D[n]
    BY <1>1, <2>1, SumsGrow DEF n
  <2>3. /\ s.q[k + 1] \in Sleepers /\ D[k + 1] \in Nat
        /\ D[k + 1] = D[k] + s.sleep[s.q[k + 1]] /\ s.sleep[s.q[k + 1]] \in 0..(TimeMod - 1)
    <3>1. s.q[k + 1] \in Sleepers
      BY <1>2, <2>1
    <3>2. D[k + 1] = D[k + 1 - 1] + s.sleep[s.q[k + 1]]
      BY <1>3, <2>1
    <3> QED BY <1>2, <1>3, <2>1, <3>1, <3>2
  <2>4. /\ s.sleep[s.q[k + 1]] + s.sleep[s.q[k]] = D[k + 1] - D[k - 1]
        /\ s.sleep[s.q[k + 1]] + s.sleep[s.q[k]] \in 0..(TimeMod - 1)
    <3>1. D[k + 1] <= s.max
      BY <1>1, <2>2 DEF n
    <3> DEFINE a == D[k - 1]
               b == D[k]
               c == D[k + 1]
               x == s.sleep[s.q[k]]
               y == s.sleep[s.q[k + 1]]
    <3>2. a \in Nat /\ b \in Nat /\ c \in Nat /\ b = a + x /\ c = b + y /\ c <= s.max
      BY <1>9, <2>3, <3>1
    <3>3. x \in Nat /\ y \in Nat
      BY <1>9, <2>3
    <3> HIDE DEF a, b, c, x, y
    <3>4. y + x = c - a /\ y + x \in 0..(TimeMod - 1)
      BY <1>2, <3>2, <3>3
    <3> QED BY <3>4 DEF a, c, x, y
  <2>5. Utime(s.sleep[s.q[k + 1]] + s.sleep[s.q[k]]) = D[k + 1] - D[k - 1]
    BY <2>4, SmallMod
  <2>6. /\ u.max = s.max
        /\ u.sleep = [s.sleep EXCEPT ![s.q[k + 1]] = Utime(@ + s.sleep[s.q[k]])]
    BY <1>6, <1>11
  <2>7. /\ u.sleep = [y \in Sleepers |-> u.sleep[y]]
        /\ u.sleep[s.q[k + 1]] = D[k + 1] - D[k - 1]
        /\ \A y \in Sleepers : y # s.q[k + 1] => u.sleep[y] = s.sleep[y]
    BY <1>2, <2>3, <2>5, <2>6
  <2>8. u.sleep \in [Sleepers -> 0..(TimeMod - 1)]
    <3>1. \A y \in Sleepers : u.sleep[y] \in 0..(TimeMod - 1)
      BY <1>2, <2>4, <2>7
    <3> QED BY <2>7, <3>1
  <2>9. u \in SqRec
    BY <1>2, <1>6, <1>7, <2>6, <2>8 DEF SqRec
  <2>10. \A i \in 1..n : i # k + 1 => u.sleep[s.q[i]] = s.sleep[s.q[i]]
    BY <1>1, <1>2, <2>1, <2>7 DEF Distinct, n
  <2>11. Parted(u, s, D, k)
    BY <1>7, <1>9, <2>1, <2>6, <2>7, <2>9, <2>10 DEF Parted, n
  <2> QED BY <1>7, <1>8, <2>11
<1> QED BY <1>10, <1>11

SumsWithout(D, n, k) == [i \in 0..(n - 1) |-> IF i < k THEN D[i] ELSE D[i + 1]]

(* The sums after a removal: the others' are the same.                     *)
LEMMA PartedSums ==
  ASSUME NEW s, GoodQ(s), NEW D, D = Due(s), NEW u, NEW k, Parted(u, s, D, k),
         NEW n, n = Len(s.q)
  PROVE  Due(u) = SumsWithout(D, n, k)
<1> DEFINE E == [i \in 0..(n - 1) |-> IF i < k THEN D[i] ELSE D[i + 1]]
<1>1. s \in SqRec /\ IsSums(D, s.q, s.sleep)
  BY DueSums DEF GoodQ
<1>2. n \in Nat /\ s.q \in Seq(Sleepers)
  BY <1>1, SqRecType
<1>3. /\ D \in [0..n -> Nat] /\ D[0] = 0
      /\ \A i \in 1..n : D[i] = D[i - 1] + s.sleep[s.q[i]]
  BY <1>1 DEF IsSums
<1>4. /\ u \in SqRec /\ k \in 1..n /\ Len(u.q) = n - 1
      /\ k < n => u.sleep[s.q[k + 1]] = D[k + 1] - D[k - 1]
      /\ \A i \in 1..n : i # k /\ i # k + 1 => u.sleep[s.q[i]] = s.sleep[s.q[i]]
  BY DEF Parted, Removed
<1>5. /\ \A i \in 1..(k - 1) : u.q[i] = s.q[i]
      /\ \A i \in k..(n - 1) : u.q[i] = s.q[i + 1]
  BY DEF Parted, Removed
<1>6. E \in [0..(n - 1) -> Nat] /\ E[0] = 0
  <2>1. ASSUME NEW i \in 0..(n - 1) PROVE E[i] \in Nat
    <3>1. i \in 0..n /\ i + 1 \in 0..n
      BY <1>2
    <3> QED BY <1>3, <3>1
  <2> QED BY <1>2, <1>3, <1>4, <2>1
<1>7. ASSUME NEW i \in 1..(n - 1) PROVE E[i] = E[i - 1] + u.sleep[u.q[i]]
  <2>1. i - 1 \in 0..(n - 1) /\ i \in 0..(n - 1)
    BY <1>2
  <2>2. CASE i < k
    <3>1. i \in 1..n /\ i \in 1..(k - 1) /\ i - 1 < k /\ i # k /\ i # k + 1
      BY <1>2, <1>4, <2>2
    <3>2. E[i] = D[i] /\ E[i - 1] = D[i - 1]
      BY <2>1, <2>2, <3>1
    <3>3. u.sleep[u.q[i]] = s.sleep[s.q[i]]
      BY <1>4, <1>5, <3>1
    <3> QED BY <1>3, <3>1, <3>2, <3>3
  <2>3. CASE i = k
    <3>1. k < n /\ i \in k..(n - 1) /\ i - 1 < k /\ ~(i < k) /\ k + 1 \in 0..n /\ k - 1 \in 0..n
      BY <1>2, <1>4, <2>3
    <3>2. E[i] = D[k + 1] /\ E[i - 1] = D[k - 1]
      BY <2>1, <2>3, <3>1
    <3>3. u.sleep[u.q[i]] = D[k + 1] - D[k - 1]
      BY <1>4, <1>5, <2>3, <3>1
    <3>4. D[k + 1] \in Nat /\ D[k - 1] \in Nat
      BY <1>3, <3>1
    <3> QED BY <3>2, <3>3, <3>4
  <2>4. CASE i > k
    <3>1. /\ i + 1 \in 1..n /\ i \in k..(n - 1) /\ ~(i < k) /\ ~(i - 1 < k)
          /\ i + 1 # k /\ i + 1 # k + 1 /\ i - 1 + 1 = i /\ i + 1 - 1 = i
      BY <1>2, <1>4, <2>4
    <3>2. E[i] = D[i + 1] /\ E[i - 1] = D[i]
      BY <2>1, <3>1
    <3>3. u.sleep[u.q[i]] = s.sleep[s.q[i + 1]]
      BY <1>4, <1>5, <3>1
    <3> QED BY <1>3, <3>1, <3>2, <3>3
  <2> QED BY <1>4, <2>2, <2>3, <2>4
<1> HIDE DEF E
<1>8. IsSums(E, u.q, u.sleep)
  BY <1>4, <1>6, <1>7 DEF IsSums
<1>9. IsSums(Due(u), u.q, u.sleep) /\ Len(u.q) \in Nat
  BY <1>4, DueSums, SqRecType
<1>10. Due(u) = E
  BY <1>8, <1>9, SumsUnique
<1> QED BY <1>10 DEF E, SumsWithout

LeftWithout(s, t) == [y \in Range(s.q) \ {t} |-> Left(s)[y]]

(* Cancelling a sleeper changes the time of no other.                      *)
LEMMA CancelFacts ==
  ASSUME NEW s, GoodQ(s), NEW t \in Range(s.q), NEW e, e = FALSE,
         NEW u, u = _st_del_sleep_q(s, t, e)
  PROVE  /\ GoodQ(u)
         /\ Left(u) = LeftWithout(s, t)
<1> DEFINE n == Len(s.q)
           f == [y \in Range(s.q) \ {t} |-> Left(s)[y]]
<1>1. PICK D : D = Due(s)
  OBVIOUS
<1>2. s \in SqRec /\ Distinct(s.q) /\ s.max = D[n]
  BY <1>1 DEF GoodQ
<1>3. n \in Nat /\ s.q \in Seq(Sleepers)
  BY <1>2, SqRecType
<1>4. PICK k \in 1..n : s.q[k] = t
  BY <1>3, RangeIs
<1>5. Parted(u, s, D, k) /\ Distinct(u.q) /\ Range(u.q) = Range(s.q) \ {t}
  BY <1>1, <1>4, CancelParts
<1>6. /\ u \in SqRec /\ k \in 1..n /\ Len(u.q) = n - 1
      /\ u.max = IF k < n THEN s.max ELSE D[k - 1]
      /\ \A i \in 1..(k - 1) : u.q[i] = s.q[i]
      /\ \A i \in k..(n - 1) : u.q[i] = s.q[i + 1]
  BY <1>5 DEF Parted, Removed
<1>7. Due(u) = [i \in 0..(n - 1) |-> IF i < k THEN D[i] ELSE D[i + 1]]
  <2>1. D = Due(s) /\ n = Len(s.q) /\ Parted(u, s, D, k)
    BY <1>1, <1>5
  <2> HIDE DEF n
  <2>2. Due(u) = SumsWithout(D, n, k)
    BY <2>1, PartedSums
  <2> QED BY <2>2 DEF SumsWithout
<1> HIDE DEF n
<1>8. u.max = Due(u)[n - 1]
  <2>1. n - 1 \in 0..(n - 1) /\ n - 1 + 1 = n /\ (k < n => ~(n - 1 < k)) /\ (~(k < n) => n - 1 < k /\ n = k)
    BY <1>3, <1>6
  <2>2. CASE k < n
    BY <1>2, <1>3, <1>6, <1>7, <2>1, <2>2
  <2>3. CASE ~(k < n)
    BY <1>3, <1>6, <1>7, <2>1, <2>3
  <2> QED BY <2>2, <2>3
<1>9. IsLeft(f, u)
  <2>1. f = [y \in Range(u.q) |-> f[y]]
    BY <1>5
  <2>2. ASSUME NEW i \in 1..(n - 1) PROVE f[u.q[i]] = Due(u)[i]
    <3> DEFINE j == IF i < k THEN i ELSE i + 1
    <3>1. j \in 1..n /\ j # k /\ u.q[i] = s.q[j]
      <4>1. CASE i < k
        <5>1. i \in 1..(k - 1) /\ i \in 1..n /\ i # k
          BY <1>3, <1>6, <4>1
        <5> QED BY <1>6, <4>1, <5>1
      <4>2. CASE ~(i < k)
        <5>1. i \in k..(n - 1) /\ i + 1 \in 1..n /\ i + 1 # k
          BY <1>3, <1>6, <4>2
        <5> QED BY <1>6, <4>2, <5>1
      <4> QED BY <4>1, <4>2
    <3>2. Due(u)[i] = D[j]
      <4>1. i \in 0..(n - 1)
        BY <1>3
      <4> QED BY <1>7, <4>1
    <3> HIDE DEF j
    <3>3. s.q[j] \in Range(s.q) /\ Left(s)[s.q[j]] = D[j]
      BY <1>1, <1>2, <3>1, LeftIs DEF n
    <3>4. s.q[j] # t
      BY <1>2, <1>4, <3>1 DEF Distinct, n
    <3> QED BY <3>1, <3>2, <3>3, <3>4
  <2> HIDE DEF f
  <2> QED BY <1>6, <2>1, <2>2 DEF IsLeft
<1>10. Left(u) = f
  BY <1>5, <1>6, <1>9, LeftEquals
<1> QED BY <1>5, <1>6, <1>8, <1>10 DEF GoodQ, LeftWithout

(* The queue without its first i sleepers.                                 *)
Tailed(s, D, i) == [q |-> SubSeq(s.q, i + 1, Len(s.q)), sleep |-> s.sleep,
                    max |-> D[Len(s.q)] - D[i]]

TailIs(r, s, D, n, i) ==
  /\ r \in SqRec /\ Distinct(r.q) /\ Len(r.q) = n - i
  /\ r.q = SubSeq(s.q, i + 1, n) /\ r.sleep = s.sleep /\ r.max = D[n] - D[i]
  /\ \A k \in 1..(n - i) : r.q[k] = s.q[k + i]

(* The fields of that queue.                                               *)
LEMMA TailedFields ==
  ASSUME NEW s, GoodQ(s), NEW D, D = Due(s), NEW n, n = Len(s.q), NEW i \in 0..n
  PROVE  TailIs(Tailed(s, D, i), s, D, n, i)
<1>0. PICK r : r = Tailed(s, D, i)
  OBVIOUS
<1>1. s \in SqRec /\ Distinct(s.q) /\ s.max = D[n] /\ IsSums(D, s.q, s.sleep)
  BY DueSums DEF GoodQ
<1>2. /\ n \in Nat /\ s.q \in Seq(Sleepers) /\ s.sleep \in [Sleepers -> 0..(TimeMod - 1)]
      /\ s.max \in 0..(TimeMod - 1) /\ TimeMod \in Nat
  BY <1>1, SqRecType
<1>3. D \in [0..n -> Nat]
  BY <1>1 DEF IsSums
<1>4. D[i] <= D[n] /\ D[i] \in Nat /\ D[n] \in Nat
  <2>1. n \in 0..n /\ i <= n
    BY <1>2
  <2> QED BY <1>1, <1>3, <2>1, SumsGrow
<1>5. /\ r.q = SubSeq(s.q, i + 1, n) /\ r.sleep = s.sleep /\ r.max = D[n] - D[i]
      /\ r = [q |-> r.q, sleep |-> r.sleep, max |-> r.max]
  BY <1>0 DEF Tailed
<1>6. r.q \in Seq(Sleepers) /\ Len(r.q) = n - i /\ \A k \in 1..(n - i) : r.q[k] = s.q[k + i]
  <2>1. PICK g : g = SubSeq(s.q, i + 1, n)
    OBVIOUS
  <2>2. g \in Seq(Sleepers) /\ Len(g) = n - i /\ \A k \in 1..(n - i) : g[k] = s.q[k + i]
    BY <1>2, <2>1
  <2> QED BY <1>5, <2>1, <2>2
<1>7. r.max \in 0..(TimeMod - 1)
  BY <1>1, <1>2, <1>4, <1>5
<1>8. r \in SqRec
  BY <1>2, <1>5, <1>6, <1>7 DEF SqRec
<1>9. Distinct(r.q)
  <2> SUFFICES ASSUME NEW j \in 1..(n - i), NEW k \in 1..(n - i), r.q[j] = r.q[k] PROVE j = k
    BY <1>6 DEF Distinct
  <2>1. j + i \in 1..n /\ k + i \in 1..n
    BY <1>2
  <2>2. j + i = k + i
    BY <1>1, <1>6, <2>1 DEF Distinct
  <2> QED BY <2>2
<1> QED BY <1>0, <1>5, <1>6, <1>8, <1>9 DEF TailIs

(* The expiry of the first sleeper shortens the queue by one.              *)
LEMMA TailedStep ==
  ASSUME NEW s, GoodQ(s), NEW D, D = Due(s), NEW n, n = Len(s.q), NEW i \in 1..n
  PROVE  _st_del_sleep_q(Tailed(s, D, i - 1), s.q[i], TRUE) = Tailed(s, D, i)
<1>1. s \in SqRec /\ Distinct(s.q) /\ s.max = D[n] /\ IsSums(D, s.q, s.sleep)
  BY DueSums DEF GoodQ
<1>2. n \in Nat /\ TimeMod \in Nat /\ i - 1 \in 0..n /\ i \in 0..n /\ n - (i - 1) = n - i + 1
  BY <1>1, SqRecType
<1>3. /\ D \in [0..n -> Nat] /\ D[i] = D[i - 1] + s.sleep[s.q[i]]
  BY <1>1 DEF IsSums
<1>4. PICK r, v : r = Tailed(s, D, i - 1) /\ v = Tailed(s, D, i)
  OBVIOUS
<1>5. /\ r \in SqRec /\ Distinct(r.q) /\ Len(r.q) = n - (i - 1)
      /\ r.sleep = s.sleep /\ r.max = D[n] - D[i - 1]
      /\ \A k \in 1..(n - (i - 1)) : r.q[k] = s.q[k + (i - 1)]
  <2>1. TailIs(Tailed(s, D, i - 1), s, D, n, i - 1)
    BY <1>2, TailedFields
  <2> QED BY <1>4, <2>1 DEF TailIs
<1>6. /\ v \in SqRec /\ Len(v.q) = n - i
      /\ v.sleep = s.sleep /\ v.max = D[n] - D[i]
      /\ \A k \in 1..(n - i) : v.q[k] = s.q[k + i]
  <2>1. TailIs(Tailed(s, D, i), s, D, n, i)
    BY <1>2, TailedFields
  <2> QED BY <1>4, <2>1 DEF TailIs
<1>7. 1 \in 1..Len(r.q) /\ r.q[1] = s.q[i]
  BY <1>2, <1>5
<1>8. PICK e, u : e = TRUE /\ u = _st_del_sleep_q(r, r.q[1], e)
  OBVIOUS
<1>9. DelIs(u, r, 1, e)
  <2>1. e \in BOOLEAN
    BY <1>8
  <2> QED BY <1>5, <1>7, <1>8, <2>1, DelFields
<1>10. /\ u.q = RemoveAt(r.q, 1) /\ u = [q |-> u.q, sleep |-> u.sleep, max |-> u.max]
       /\ u.sleep = r.sleep
       /\ Len(r.q) = 1 => u.max = 0
       /\ Len(r.q) # 1 => u.max = Utime(r.max - r.sleep[r.q[1]])
  BY <1>8, <1>9 DEF DelIs
<1>11. r.q \in Seq(Sleepers) /\ v.q \in Seq(Sleepers)
  BY <1>5, <1>6, SqRecType
<1>12. u.q \in Seq(Sleepers) /\ Removed(u.q, r.q, 1)
  <2>1. PICK h, g : h = r.q /\ g = u.q
    OBVIOUS
  <2>2. h \in Seq(Sleepers) /\ Distinct(h) /\ 1 \in 1..Len(h) /\ g = RemoveAt(h, 1)
    BY <1>5, <1>7, <1>10, <1>11, <2>1
  <2>3. g \in Seq(Sleepers) /\ Removed(g, h, 1)
    BY <2>2, RemoveFacts
  <2> QED BY <2>1, <2>3
<1>13. Len(u.q) = n - i /\ \A k \in 1..(n - i) : u.q[k] = s.q[k + i]
  <2>1. Len(u.q) = n - i /\ \A k \in 1..(n - i) : u.q[k] = r.q[k + 1]
    BY <1>2, <1>5, <1>12 DEF Removed
  <2>2. ASSUME NEW k \in 1..(n - i) PROVE r.q[k + 1] = s.q[k + i]
    <3>1. k + 1 \in 1..(n - (i - 1)) /\ k + 1 + (i - 1) = k + i
      BY <1>2
    <3> QED BY <1>5, <3>1
  <2> QED BY <2>1, <2>2
<1>14. u.q = v.q
  <2>1. Len(u.q) = Len(v.q) /\ \A k \in 1..Len(u.q) : u.q[k] = v.q[k]
    BY <1>6, <1>13
  <2> QED BY <1>11, <1>12, <2>1, SeqEqual
<1>15. u.max = v.max
  <2>1. CASE Len(r.q) = 1
    <3>1. i = n
      <4>1. n - (i - 1) = 1
        BY <1>5, <2>1
      <4> QED BY <1>2, <4>1
    <3>2. D[n] \in Nat
      BY <1>2, <1>3
    <3> QED BY <1>6, <1>10, <2>1, <3>1, <3>2
  <2>2. CASE Len(r.q) # 1
    <3>1. D[n] \in Nat /\ D[i] \in Nat /\ D[i - 1] \in Nat /\ s.sleep[s.q[i]] \in Nat
      <4>1. n \in 0..n
        BY <1>2
      <4> QED BY <1>1, <1>2, <1>3, <4>1, SqRecType
    <3>2. r.max - r.sleep[r.q[1]] = D[n] - D[i]
      BY <1>3, <1>5, <1>7, <3>1
    <3>3. v.max \in 0..(TimeMod - 1)
      BY <1>6, SqRecType
    <3>4. Utime(v.max) = v.max
      BY <3>3, SmallMod
    <3> QED BY <1>6, <1>10, <2>2, <3>2, <3>4
  <2> QED BY <2>1, <2>2
<1>16. v = [q |-> v.q, sleep |-> v.sleep, max |-> v.max]
  BY <1>6, SqRecType
<1>17. u = v
  BY <1>5, <1>6, <1>10, <1>14, <1>15, <1>16
<1> QED BY <1>4, <1>7, <1>8, <1>17

(* Deleting n sleepers one by one leaves the queue without them.           *)
LEMMA DeletedIs ==
  ASSUME NEW s, GoodQ(s), NEW D, D = Due(s), NEW n, n = Len(s.q), NEW m \in 0..n
  PROVE  Deleted(s, m) = Tailed(s, D, m)
<1> DEFINE g == [i \in 0..m |-> Tailed(s, D, i)]
           Eq(f) == f = [i \in 0..m |-> IF i = 0 THEN s
                                        ELSE _st_del_sleep_q(f[i - 1], s.q[i], TRUE)]
           del == CHOOSE f : Eq(f)
<1>1. s \in SqRec /\ s.max = D[n] /\ D[0] = 0 /\ D \in [0..n -> Nat]
  BY DueSums DEF GoodQ, IsSums
<1>2. n \in Nat /\ s.q \in Seq(Sleepers) /\ s = [q |-> s.q, sleep |-> s.sleep, max |-> s.max]
  BY <1>1, SqRecType
<1>3. Tailed(s, D, 0) = s
  <2>1. SubSeq(s.q, 1, Len(s.q)) = s.q
    BY <1>2, SubSeqFull
  <2>2. n \in 0..n
    BY <1>2
  <2>3. D[n] - D[0] = s.max
    BY <1>1, <2>2
  <2> QED BY <1>2, <2>1, <2>3 DEF Tailed
<1>4. \A i \in 1..m : i \in 1..n /\ i - 1 \in 0..m
  BY <1>2
<1>5. \A i \in 1..m : _st_del_sleep_q(Tailed(s, D, i - 1), s.q[i], TRUE) = Tailed(s, D, i)
  BY <1>4, TailedStep
<1>6. Eq(g)
  <2>1. ASSUME NEW i \in 0..m
        PROVE  g[i] = IF i = 0 THEN s ELSE _st_del_sleep_q(g[i - 1], s.q[i], TRUE)
    <3>1. CASE i = 0
      BY <1>3, <3>1
    <3>2. CASE i # 0
      <4>1. i \in 1..m /\ i - 1 \in 0..m
        BY <3>2
      <4> QED BY <1>5, <3>2, <4>1
    <3> QED BY <3>1, <3>2
  <2> QED BY <2>1
<1> HIDE DEF Eq
<1>7. Eq(del)
  BY <1>6
<1>8. Deleted(s, m) = del[m]
  BY DEF Deleted, Eq
<1> HIDE DEF del
<1>9. del[0] = s /\ \A i \in 1..m : del[i] = _st_del_sleep_q(del[i - 1], s.q[i], TRUE)
  <2>1. del = [i \in 0..m |-> IF i = 0 THEN s ELSE _st_del_sleep_q(del[i - 1], s.q[i], TRUE)]
    BY <1>7 DEF Eq
  <2>2. 0 \in 0..m /\ \A i \in 1..m : i \in 0..m /\ i # 0
    BY <1>2
  <2> QED BY <2>1, <2>2, Zenon
<1> DEFINE Bad == {i \in 0..m : del[i] # Tailed(s, D, i)}
<1>10. Bad = {}
  <2> SUFFICES ASSUME Bad # {} PROVE FALSE
    OBVIOUS
  <2>1. Bad \subseteq Nat
    BY <1>2
  <2> HIDE DEF Bad
  <2>2. PICK k \in Bad : \A j \in Bad : k <= j
    BY <2>1, Least
  <2>3. k \in 0..m /\ del[k] # Tailed(s, D, k)
    BY <2>2 DEF Bad
  <2>4. k # 0
    BY <1>3, <1>9, <2>3
  <2>5. k \in 1..m /\ k - 1 \in 0..m /\ k - 1 \notin Bad
    BY <1>2, <2>2, <2>3, <2>4
  <2>6. del[k - 1] = Tailed(s, D, k - 1)
    BY <2>5 DEF Bad
  <2> QED BY <1>5, <1>9, <2>3, <2>5, <2>6
<1>11. m \in 0..m
  BY <1>2
<1> QED BY <1>8, <1>10, <1>11

(* u is s after x has passed and its first m sleepers have expired.        *)
Advanced(u, s, D, n, m, x) ==
  /\ u \in SqRec /\ Distinct(u.q) /\ m \in 0..n /\ Len(u.q) = n - m
  /\ \A k \in 1..(n - m) : u.q[k] = s.q[k + m]
  /\ D[m] <= x
  /\ m < n => x < D[m + 1] /\ u.sleep[s.q[m + 1]] = D[m + 1] - x
  /\ \A k \in (m + 2)..n : u.sleep[s.q[k]] = s.sleep[s.q[k]]
  /\ u.max = IF m = n THEN 0 ELSE D[n] - x

(* The loop of _st_vp_check_clock does this, and nothing wraps.            *)
LEMMA ExpireAdvances ==
  ASSUME NEW s, GoodQ(s), NEW D, D = Due(s), NEW n, n = Len(s.q),
         NEW x \in 0..(TimeMod - 1), NEW r, r = Expire(s, x)
  PROVE  \E m : Advanced(r.s, s, D, n, m, x) /\ r.woken = SubSeq(s.q, 1, m)
<1>1. s \in SqRec /\ Distinct(s.q) /\ s.max = D[n] /\ IsSums(D, s.q, s.sleep)
  BY DueSums DEF GoodQ
<1>2. /\ n \in Nat /\ s.q \in Seq(Sleepers) /\ s.sleep \in [Sleepers -> 0..(TimeMod - 1)]
      /\ s.max \in 0..(TimeMod - 1) /\ TimeMod \in Nat
      /\ \A k \in 1..n : s.q[k] \in Sleepers
  BY <1>1, SqRecType
<1>3. /\ D \in [0..n -> Nat] /\ D[0] = 0
      /\ \A k \in 1..n : D[k] = D[k - 1] + s.sleep[s.q[k]]
  BY <1>1 DEF IsSums
<1>4. PICK pos, m : pos = Scan(s, x) /\ m = pos - 1
  OBVIOUS
<1>5. pos \in 1..(n + 1) /\ Rest(s, x)[pos] = x - D[pos - 1] /\ D[pos - 1] <= x
      /\ (pos <= n => x < D[pos])
  BY <1>1, <1>4, ScanFacts
<1>6. /\ m \in 0..n /\ pos = m + 1 /\ D[m] <= x /\ (m < n => x < D[m + 1])
      /\ Rest(s, x)[m + 1] = x - D[m]
  BY <1>2, <1>4, <1>5
<1>7. PICK del, rest : del = Deleted(s, m) /\ rest = Rest(s, x)[m + 1]
  OBVIOUS
<1>8. r = [s |-> IF m = Len(s.q) THEN del
                 ELSE [del EXCEPT !.sleep[s.q[m + 1]] = Utime(@ - rest), !.max = Utime(@ - rest)],
           woken |-> SubSeq(s.q, 1, m)]
  BY <1>4, <1>7 DEF Expire
<1>9. PICK u : u = r.s
  OBVIOUS
<1>10. /\ r.woken = SubSeq(s.q, 1, m)
       /\ u = IF m = n THEN del
              ELSE [del EXCEPT !.sleep[s.q[m + 1]] = Utime(@ - rest), !.max = Utime(@ - rest)]
  <2>1. PICK v : v = IF m = Len(s.q) THEN del
                     ELSE [del EXCEPT !.sleep[s.q[m + 1]] = Utime(@ - rest), !.max = Utime(@ - rest)]
    OBVIOUS
  <2>2. PICK w : w = SubSeq(s.q, 1, m)
    OBVIOUS
  <2>3. r = [s |-> v, woken |-> w]
    BY <1>8, <2>1, <2>2, Zenon
  <2>4. r.s = v /\ r.woken = w
    BY <2>3
  <2> QED BY <1>9, <2>1, <2>2, <2>4, Zenon
<1>11. /\ del \in SqRec /\ Distinct(del.q) /\ Len(del.q) = n - m
       /\ del.sleep = s.sleep /\ del.max = D[n] - D[m]
       /\ \A k \in 1..(n - m) : del.q[k] = s.q[k + m]
  <2>1. del = Tailed(s, D, m)
    BY <1>6, <1>7, DeletedIs
  <2>2. TailIs(Tailed(s, D, m), s, D, n, m)
    BY <1>6, TailedFields
  <2> QED BY <2>1, <2>2 DEF TailIs
<1>12. D[n] \in Nat /\ D[m] \in Nat
  BY <1>2, <1>3, <1>6
<1>13. CASE m = n
  <2>1. u = del /\ ~(m < n) /\ D[n] - D[m] = 0
    BY <1>2, <1>6, <1>10, <1>12, <1>13
  <2>2. Advanced(u, s, D, n, m, x)
    BY <1>6, <1>11, <1>13, <2>1 DEF Advanced
  <2> QED BY <1>9, <1>10, <2>2
<1>14. CASE m # n
  <2>1. m < n /\ m + 1 \in 1..n /\ m + 1 - 1 = m /\ m + 1 \in 0..n /\ n \in 0..n /\ m + 1 <= n
    BY <1>2, <1>6, <1>14
  <2>2. D[m + 1] <= D[n]
    BY <1>1, <2>1, SumsGrow
  <2>3. /\ s.q[m + 1] \in Sleepers /\ D[m + 1] \in Nat
        /\ D[m + 1] = D[m] + s.sleep[s.q[m + 1]]
    <3>1. D[m + 1] = D[m + 1 - 1] + s.sleep[s.q[m + 1]]
      <4>1. PICK k \in 1..n : k = m + 1
        BY <2>1
      <4>2. D[k] = D[k - 1] + s.sleep[s.q[k]]
        BY <1>3
      <4> QED BY <1>2, <1>6, <4>1, <4>2
    <3> QED BY <1>2, <1>3, <2>1, <3>1
  <2>4. s.sleep[s.q[m + 1]] \in 0..(TimeMod - 1)
    BY <1>2, <2>3
  <2>5. x < D[m + 1] /\ rest = x - D[m]
    BY <1>6, <1>7, <2>1
  <2> DEFINE a == D[m]
             b == D[m + 1]
             c == D[n]
             y == s.sleep[s.q[m + 1]]
  <2>6. /\ a \in Nat /\ b \in Nat /\ c \in Nat /\ y \in 0..(TimeMod - 1) /\ c \in 0..(TimeMod - 1)
        /\ b = a + y /\ b <= c /\ a <= x /\ x < b /\ rest = x - a
    BY <1>1, <1>2, <1>6, <1>12, <2>2, <2>3, <2>4, <2>5
  <2> HIDE DEF a, b, c, y
  <2>7. /\ y - rest = b - x /\ y - rest \in 0..(TimeMod - 1)
        /\ c - a - rest = c - x /\ c - a - rest \in 0..(TimeMod - 1)
    BY <1>2, <2>6
  <2>8. Utime(y - rest) = b - x /\ Utime(c - a - rest) = c - x
    BY <2>7, SmallMod
  <2>9. u = [del EXCEPT !.sleep[s.q[m + 1]] = Utime(@ - rest), !.max = Utime(@ - rest)]
    BY <1>10, <1>14
  <2>10. del = [q |-> del.q, sleep |-> del.sleep, max |-> del.max] /\ del.q \in Seq(Sleepers)
    BY <1>11, SqRecType
  <2>11. /\ u = [q |-> u.q, sleep |-> u.sleep, max |-> u.max]
         /\ u.q = del.q
         /\ u.sleep = [del.sleep EXCEPT ![s.q[m + 1]] = Utime(@ - rest)]
         /\ u.max = Utime(del.max - rest)
    BY <2>9, <2>10
  <2>12. u.max = c - x
    BY <1>11, <2>8, <2>11 DEF a, c
  <2>13. /\ u.sleep[s.q[m + 1]] = b - x
         /\ u.sleep = [z \in Sleepers |-> u.sleep[z]]
         /\ \A z \in Sleepers : z # s.q[m + 1] => u.sleep[z] = s.sleep[z]
    <3>1. PICK z, v : z = s.q[m + 1] /\ v = b - x
      OBVIOUS
    <3>2. z \in Sleepers /\ Utime(s.sleep[z] - rest) = v
      BY <2>3, <2>8, <3>1 DEF y
    <3>3. u.sleep = [s.sleep EXCEPT ![z] = v]
      BY <1>11, <2>11, <3>1, <3>2
    <3>4. /\ u.sleep[z] = v /\ u.sleep = [w \in Sleepers |-> u.sleep[w]]
          /\ \A w \in Sleepers : w # z => u.sleep[w] = s.sleep[w]
      BY <1>2, <3>2, <3>3
    <3> QED BY <3>1, <3>4
  <2>14. u.sleep \in [Sleepers -> 0..(TimeMod - 1)]
    <3>1. \A z \in Sleepers : u.sleep[z] \in 0..(TimeMod - 1)
      BY <1>2, <2>7, <2>13
    <3> QED BY <2>13, <3>1
  <2>15. u.max \in 0..(TimeMod - 1)
    BY <2>7, <2>12
  <2>16. u \in SqRec
    BY <2>10, <2>11, <2>14, <2>15 DEF SqRec
  <2>17. ASSUME NEW k \in (m + 2)..n PROVE u.sleep[s.q[k]] = s.sleep[s.q[k]]
    <3>1. k \in 1..n /\ k # m + 1
      BY <1>2, <1>6
    <3>2. s.q[k] # s.q[m + 1] /\ s.q[k] \in Sleepers
      BY <1>1, <1>2, <2>1, <3>1 DEF Distinct
    <3> QED BY <2>13, <3>2
  <2>18. Advanced(u, s, D, n, m, x)
    BY <1>6, <1>11, <1>14, <2>11, <2>12, <2>13, <2>16, <2>17 DEF Advanced, b, c
  <2> QED BY <1>9, <1>10, <2>18
<1> QED BY <1>13, <1>14

SumsAfter(D, n, m, x) == [i \in 0..(n - m) |-> IF i = 0 THEN 0 ELSE D[i + m] - x]

(* The sums afterwards: all have x less.                                   *)
LEMMA AdvancedSums ==
  ASSUME NEW s, GoodQ(s), NEW D, D = Due(s), NEW n, n = Len(s.q),
         NEW x \in 0..(TimeMod - 1), NEW u, NEW m, Advanced(u, s, D, n, m, x)
  PROVE  Due(u) = SumsAfter(D, n, m, x)
<1> DEFINE E == [i \in 0..(n - m) |-> IF i = 0 THEN 0 ELSE D[i + m] - x]
<1>1. s \in SqRec /\ IsSums(D, s.q, s.sleep)
  BY DueSums DEF GoodQ
<1>2. n \in Nat /\ TimeMod \in Nat
  BY <1>1, SqRecType
<1>3. /\ D \in [0..n -> Nat] /\ D[0] = 0
      /\ \A k \in 1..n : D[k] = D[k - 1] + s.sleep[s.q[k]]
  BY <1>1 DEF IsSums
<1>4. /\ u \in SqRec /\ m \in 0..n /\ Len(u.q) = n - m
      /\ \A k \in 1..(n - m) : u.q[k] = s.q[k + m]
      /\ m < n => x < D[m + 1] /\ u.sleep[s.q[m + 1]] = D[m + 1] - x
      /\ \A k \in (m + 2)..n : u.sleep[s.q[k]] = s.sleep[s.q[k]]
  BY DEF Advanced
<1>5. ASSUME NEW i \in 0..(n - m) PROVE E[i] \in Nat
  <2>1. CASE i = 0
    BY <2>1
  <2>2. CASE i # 0
    <3>1. m < n /\ m + 1 \in 0..n /\ i + m \in 0..n /\ m + 1 <= i + m
      BY <1>2, <1>4, <2>2
    <3>2. D[m + 1] <= D[i + m]
      BY <1>1, <3>1, SumsGrow
    <3>3. D[i + m] \in Nat /\ D[m + 1] \in Nat /\ x < D[m + 1]
      BY <1>3, <1>4, <3>1
    <3>4. D[i + m] - x \in Nat
      BY <1>2, <3>2, <3>3
    <3> QED BY <2>2, <3>4
  <2> QED BY <2>1, <2>2
<1>6. ASSUME NEW i \in 1..(n - m) PROVE E[i] = E[i - 1] + u.sleep[u.q[i]]
  <2>1. /\ i \in 0..(n - m) /\ i - 1 \in 0..(n - m) /\ i # 0 /\ i + m \in 1..n /\ i + m \in 0..n
        /\ i - 1 + m = i + m - 1 /\ i + m - 1 \in 0..n
    BY <1>2, <1>4
  <2>2. E[i] = D[i + m] - x /\ u.q[i] = s.q[i + m] /\ D[i + m] \in Nat /\ D[i + m - 1] \in Nat
    BY <1>3, <1>4, <2>1
  <2>3. CASE i = 1
    <3>1. m < n /\ i + m = m + 1 /\ i - 1 = 0
      BY <1>2, <1>4, <2>3
    <3>2. E[i - 1] = 0
      BY <2>1, <3>1
    <3>3. u.sleep[u.q[i]] = D[i + m] - x
      BY <1>4, <2>2, <3>1
    <3>4. D[i + m] - x \in Int
      BY <2>2
    <3> QED BY <2>2, <3>2, <3>3, <3>4
  <2>4. CASE i # 1
    <3>1. i + m \in (m + 2)..n /\ i - 1 # 0
      BY <1>2, <1>4, <2>4
    <3>2. E[i - 1] = D[i + m - 1] - x
      BY <2>1, <3>1
    <3>3. u.sleep[u.q[i]] = s.sleep[s.q[i + m]]
      BY <1>4, <2>2, <3>1
    <3>4. D[i + m] = D[i + m - 1] + s.sleep[s.q[i + m]]
      <4>1. PICK k \in 1..n : k = i + m
        BY <2>1
      <4>2. D[k] = D[k - 1] + s.sleep[s.q[k]]
        BY <1>3
      <4> QED BY <1>2, <1>4, <4>1, <4>2
    <3>5. s.sleep[s.q[i + m]] \in Nat
      BY <1>1, <2>1, SqRecType
    <3> QED BY <2>2, <3>2, <3>3, <3>4, <3>5
  <2> QED BY <2>3, <2>4
<1>7. E \in [0..(n - m) -> Nat] /\ E[0] = 0
  <2>1. 0 \in 0..(n - m)
    BY <1>2, <1>4
  <2> QED BY <1>5, <2>1
<1> HIDE DEF E
<1>8. IsSums(E, u.q, u.sleep)
  BY <1>4, <1>6, <1>7 DEF IsSums
<1>9. IsSums(Due(u), u.q, u.sleep) /\ Len(u.q) \in Nat
  BY <1>4, DueSums, SqRecType
<1>10. Due(u) = E
  BY <1>8, <1>9, SumsUnique
<1> QED BY <1>10 DEF E, SumsAfter

(* The sleepers with at most x left.                                       *)
Over(s, x) == {t \in Range(s.q) : Left(s)[t] <= x}

InOrder(w, L) == \A i, j \in DOMAIN w : i < j => L[w[i]] <= L[w[j]]

(* _st_vp_check_clock wakes exactly the sleepers that are due, in order,   *)
(* and takes the elapsed time off the others.                              *)
LEMMA ExpireFacts ==
  ASSUME NEW s, GoodQ(s), NEW x \in 0..(TimeMod - 1), NEW r, r = Expire(s, x)
  PROVE  /\ GoodQ(r.s)
         /\ Left(r.s) = [t \in Range(s.q) \ Over(s, x) |-> Left(s)[t] - x]
         /\ IsInjective(r.woken) /\ Range(r.woken) = Over(s, x)
         /\ InOrder(r.woken, Left(s))
<1>1. PICK D, n, u, w : D = Due(s) /\ n = Len(s.q) /\ u = r.s /\ w = r.woken
  OBVIOUS
<1>2. PICK m : Advanced(u, s, D, n, m, x) /\ w = SubSeq(s.q, 1, m)
  BY <1>1, ExpireAdvances
<1>3. s \in SqRec /\ Distinct(s.q) /\ IsSums(D, s.q, s.sleep)
  BY <1>1, DueSums DEF GoodQ
<1>4. /\ n \in Nat /\ s.q \in Seq(Sleepers) /\ TimeMod \in Nat /\ D \in [0..n -> Nat]
  BY <1>1, <1>3, SqRecType DEF IsSums
<1>5. /\ u \in SqRec /\ Distinct(u.q) /\ m \in 0..n /\ Len(u.q) = n - m
      /\ \A k \in 1..(n - m) : u.q[k] = s.q[k + m]
      /\ D[m] <= x /\ (m < n => x < D[m + 1])
      /\ u.max = IF m = n THEN 0 ELSE D[n] - x
  BY <1>2 DEF Advanced
<1>6. Due(u) = [i \in 0..(n - m) |-> IF i = 0 THEN 0 ELSE D[i + m] - x]
  <2>1. D = Due(s) /\ n = Len(s.q) /\ Advanced(u, s, D, n, m, x)
    BY <1>1, <1>2
  <2>2. Due(u) = SumsAfter(D, n, m, x)
    BY <2>1, AdvancedSums
  <2> QED BY <2>2 DEF SumsAfter
<1>7. \A i \in 1..n : s.q[i] \in Range(s.q) /\ Left(s)[s.q[i]] = D[i]
  BY <1>1, <1>3, LeftIs
<1>8. \A t : t \in Range(s.q) <=> \E i \in 1..n : s.q[i] = t
  BY <1>1, <1>4, RangeIs
<1>9. \A t : t \in Range(u.q) <=> \E i \in 1..(n - m) : u.q[i] = t
  <2>1. u.q \in Seq(Sleepers)
    BY <1>5, SqRecType
  <2> QED BY <1>5, <2>1, RangeIs
<1>10. ASSUME NEW i \in 1..n PROVE D[i] <= x <=> i <= m
  <2>1. i \in 0..n /\ m \in 0..n
    BY <1>4, <1>5
  <2>2. D[i] \in Nat /\ D[m] \in Nat
    BY <1>4, <2>1
  <2>3. CASE i <= m
    <3>1. D[i] <= D[m]
      BY <1>1, <1>3, <2>1, <2>3, SumsGrow
    <3> QED BY <1>4, <1>5, <2>2, <2>3, <3>1
  <2>4. CASE ~(i <= m)
    <3>1. m + 1 \in 0..n /\ m + 1 <= i /\ m < n
      BY <1>4, <1>5, <2>4
    <3>2. D[m + 1] <= D[i]
      BY <1>1, <1>3, <2>1, <3>1, SumsGrow
    <3>3. D[m + 1] \in Nat /\ x < D[m + 1]
      BY <1>4, <1>5, <3>1
    <3> QED BY <1>4, <2>2, <2>4, <3>2, <3>3
  <2> QED BY <2>3, <2>4
<1>11. \A t : t \in Over(s, x) <=> \E i \in 1..n : i <= m /\ s.q[i] = t
  BY <1>7, <1>8, <1>10 DEF Over
<1>12. GoodQ(u)
  <2>1. u.max = Due(u)[n - m]
    <3>1. n - m \in 0..(n - m) /\ (n - m = 0 <=> m = n) /\ n - m + m = n
      BY <1>4, <1>5
    <3>2. Due(u)[n - m] = IF n - m = 0 THEN 0 ELSE D[n - m + m] - x
      BY <1>6, <3>1
    <3>3. CASE m = n
      BY <1>5, <3>1, <3>2, <3>3
    <3>4. CASE m # n
      BY <1>5, <3>1, <3>2, <3>4
    <3> QED BY <3>3, <3>4
  <2> QED BY <1>5, <2>1 DEF GoodQ
<1>13. Range(u.q) = Range(s.q) \ Over(s, x)
  <2>1. ASSUME NEW t, t \in Range(u.q) PROVE t \in Range(s.q) /\ t \notin Over(s, x)
    <3>1. PICK i \in 1..(n - m) : u.q[i] = t
      BY <1>9, <2>1
    <3>2. i + m \in 1..n /\ ~(i + m <= m) /\ s.q[i + m] = t
      <4>1. i + m \in 1..n /\ ~(i + m <= m)
        <5>1. m \in 0..n /\ n \in Nat
          BY <1>4, <1>5
        <5> QED BY <5>1
      <4> QED BY <1>5, <3>1, <4>1
    <3>3. t \in Range(s.q)
      BY <1>8, <3>2
    <3>4. ASSUME NEW k \in 1..n, k <= m, s.q[k] = t PROVE FALSE
      <4>1. k = i + m
        BY <1>1, <1>3, <3>2, <3>4 DEF Distinct
      <4> QED BY <3>2, <3>4, <4>1
    <3> QED BY <1>11, <3>3, <3>4
  <2>2. ASSUME NEW t \in Range(s.q), t \notin Over(s, x) PROVE t \in Range(u.q)
    <3>1. PICK i \in 1..n : s.q[i] = t
      BY <1>8
    <3>2. ~(i <= m)
      BY <1>11, <2>2, <3>1
    <3>3. i - m \in 1..(n - m) /\ i - m + m = i
      BY <1>4, <1>5, <3>2
    <3>4. u.q[i - m] = s.q[i]
      BY <1>5, <3>3
    <3> QED BY <1>9, <3>1, <3>3, <3>4
  <2> QED BY <2>1, <2>2
<1>14. Left(u) = [t \in Range(s.q) \ Over(s, x) |-> Left(s)[t] - x]
  <2> DEFINE f == [t \in Range(s.q) \ Over(s, x) |-> Left(s)[t] - x]
  <2>1. f = [t \in Range(u.q) |-> f[t]]
    BY <1>13
  <2>2. ASSUME NEW i \in 1..(n - m) PROVE f[u.q[i]] = Due(u)[i]
    <3>1. i + m \in 1..n /\ i \in 0..(n - m) /\ i # 0
      <4>1. n \in Nat /\ m \in 0..n
        BY <1>4, <1>5
      <4> QED BY <4>1
    <3>2. u.q[i] = s.q[i + m] /\ u.q[i] \in Range(u.q)
      BY <1>5, <1>9
    <3>3. Left(s)[u.q[i]] = D[i + m]
      BY <1>7, <3>1, <3>2
    <3>4. f[u.q[i]] = Left(s)[u.q[i]] - x
      BY <1>13, <3>2
    <3>5. Due(u)[i] = D[i + m] - x
      BY <1>6, <3>1
    <3> QED BY <3>3, <3>4, <3>5
  <2> HIDE DEF f
  <2>3. IsLeft(f, u)
    BY <1>5, <2>1, <2>2 DEF IsLeft
  <2>4. Left(u) = f
    BY <1>5, <2>3, LeftEquals
  <2> QED BY <2>4 DEF f
<1>15. w \in Seq(Sleepers) /\ Len(w) = m /\ DOMAIN w = 1..m /\ \A k \in 1..m : w[k] = s.q[k]
  BY <1>1, <1>2, <1>4, <1>5
<1>16. IsInjective(w)
  <2> SUFFICES ASSUME NEW j \in 1..m, NEW k \in 1..m, w[j] = w[k] PROVE j = k
    BY <1>15 DEF IsInjective
  <2>1. j \in 1..n /\ k \in 1..n
    BY <1>4, <1>5
  <2>2. s.q[j] = s.q[k]
    BY <1>15
  <2> QED BY <1>1, <1>3, <2>1, <2>2 DEF Distinct
<1>17. Range(w) = Over(s, x)
  <2>1. \A t : t \in Range(w) <=> \E i \in 1..m : w[i] = t
    BY <1>15, RangeIs
  <2>2. \A i : i \in 1..m <=> i \in 1..n /\ i <= m
    BY <1>4, <1>5
  <2> QED BY <1>11, <1>15, <2>1, <2>2
<1>18. InOrder(w, Left(s))
  <2> SUFFICES ASSUME NEW i \in 1..m, NEW j \in 1..m, i < j
               PROVE  Left(s)[w[i]] <= Left(s)[w[j]]
    BY <1>15 DEF InOrder
  <2>1. i \in 1..n /\ j \in 1..n /\ i \in 0..n /\ j \in 0..n /\ i <= j
    BY <1>4, <1>5
  <2>2. D[i] <= D[j]
    BY <1>1, <1>3, <2>1, SumsGrow
  <2>3. Left(s)[w[i]] = D[i] /\ Left(s)[w[j]] = D[j]
    BY <1>7, <1>15, <2>1
  <2> QED BY <2>2, <2>3
<1> QED BY <1>1, <1>12, <1>14, <1>16, <1>17, <1>18

(* The inductive invariant of the sleep queue.                             *)
SqInv ==
  /\ GoodQ(sq)
  /\ clock \in 0..(TimeMod - 1) /\ last_clock \in 0..(TimeMod - 1)

(* The invariant holds of the empty queue.                                 *)
LEMMA SqInitGood ==
  ASSUME SqInit PROVE SqInv /\ Left(sq) = <<>>
<1>1. PICK s : s = sq
  OBVIOUS
<1>2. s = [q |-> <<>>, sleep |-> [t \in Sleepers |-> 0], max |-> 0]
  BY <1>1 DEF SqInit
<1>3. 0 \in 0..(TimeMod - 1)
  BY SleepQAssumption
<1>4. s.q = <<>> /\ s.sleep = [t \in Sleepers |-> 0] /\ s.max = 0
      /\ s = [q |-> s.q, sleep |-> s.sleep, max |-> s.max]
  BY <1>2
<1>5. s.q \in Seq(Sleepers) /\ Len(s.q) = 0
  BY <1>4, EmptySeq
<1>6. s.sleep \in [Sleepers -> 0..(TimeMod - 1)]
  BY <1>3, <1>4
<1>7. s \in SqRec
  BY <1>3, <1>4, <1>5, <1>6 DEF SqRec
<1>8. Distinct(s.q) /\ Due(s)[0] = 0
  <2>1. IsSums(Due(s), s.q, s.sleep)
    BY <1>7, DueSums
  <2> QED BY <1>5, <2>1 DEF Distinct, IsSums
<1>9. GoodQ(s)
  BY <1>4, <1>5, <1>7, <1>8 DEF GoodQ
<1>10. Range(s.q) = {}
  BY <1>5, RangeIs
<1>11. Left(s) = <<>>
  BY <1>10 DEF Left
<1> QED BY <1>1, <1>3, <1>9, <1>11 DEF SqInit, SqInv

(* A thread going to sleep keeps it.                                       *)
LEMMA SleepStep ==
  ASSUME SqInv, NEW t \in Sleepers, NEW x \in 0..(TimeMod - 1), Sleep(t, x)
  PROVE  /\ SqInv' /\ t \notin Range(sq.q)
         /\ Left(sq') = LeftWith(sq, t, x)
         /\ expired' = <<>> /\ UNCHANGED <<clock, last_clock>>
<1>1. PICK s, u : s = sq /\ u = sq'
  OBVIOUS
<1>2. GoodQ(s) /\ t \notin Range(s.q) /\ u = _st_add_sleep_q(s, t, x)
  BY <1>1 DEF SqInv, Sleep, OnSleepQ
<1>3. GoodQ(u) /\ Left(u) = LeftWith(s, t, x)
  BY <1>2, AddFacts
<1> QED BY <1>1, <1>2, <1>3 DEF SqInv, Sleep

(* Cancelling a sleeper keeps it.                                          *)
LEMMA CancelStep ==
  ASSUME SqInv, NEW t \in Sleepers, Cancel(t)
  PROVE  /\ SqInv' /\ t \in Range(sq.q)
         /\ Left(sq') = LeftWithout(sq, t)
         /\ expired' = <<>> /\ UNCHANGED <<clock, last_clock>>
<1>1. PICK s, u, e : s = sq /\ u = sq' /\ e = FALSE
  OBVIOUS
<1>2. GoodQ(s) /\ t \in Range(s.q) /\ e = FALSE /\ u = _st_del_sleep_q(s, t, e)
  BY <1>1 DEF SqInv, Cancel, OnSleepQ
<1>3. GoodQ(u) /\ Left(u) = LeftWithout(s, t)
  BY <1>2, CancelFacts
<1> QED BY <1>1, <1>2, <1>3 DEF SqInv, Cancel

(* Reading the clock keeps it.                                             *)
LEMMA CheckClockStep ==
  ASSUME SqInv, _st_vp_check_clock, NEW x, x = Utime(clock - last_clock)
  PROVE  /\ SqInv'
         /\ Left(sq') = [t \in Range(sq.q) \ Over(sq, x) |-> Left(sq)[t] - x]
         /\ IsInjective(expired') /\ Range(expired') = Over(sq, x)
         /\ InOrder(expired', Left(sq))
         /\ last_clock' = clock /\ UNCHANGED clock
<1>1. PICK s, u, r : s = sq /\ u = sq' /\ r = Expire(sq, x)
  OBVIOUS
<1>2. clock - last_clock \in Int
  BY SleepQAssumption DEF SqInv
<1>3. x \in 0..(TimeMod - 1)
  BY <1>2, ModRange
<1>4. /\ GoodQ(s) /\ r = Expire(s, x) /\ u = r.s /\ expired' = r.woken
      /\ last_clock' = clock /\ clock' = clock
  BY <1>1 DEF SqInv, _st_vp_check_clock, st_utime
<1>5. /\ GoodQ(r.s)
      /\ Left(r.s) = [t \in Range(s.q) \ Over(s, x) |-> Left(s)[t] - x]
      /\ IsInjective(r.woken) /\ Range(r.woken) = Over(s, x)
      /\ InOrder(r.woken, Left(s))
  BY <1>3, <1>4, ExpireFacts
<1>6. SqInv'
  BY <1>1, <1>4, <1>5 DEF SqInv
<1> QED BY <1>1, <1>4, <1>5, <1>6

(* The passing of time keeps it.                                           *)
LEMMA TickStep ==
  ASSUME SqInv, Tick PROVE SqInv'
<1>1. clock + 1 \in Int
  BY SleepQAssumption DEF SqInv
<1>2. clock' \in 0..(TimeMod - 1)
  BY <1>1, ModRange DEF Tick
<1> QED BY <1>2 DEF SqInv, Tick

(* The timeouts of st_usleep and st_sleep are values of st_utime_t.        *)
LEMMA TimeoutRange ==
  /\ \A usecs \in Usecs : usecs \in 0..(TimeMod - 1)
  /\ NO_TIMEOUT \in 0..(TimeMod - 1)
  /\ \A secs \in Secs : Utime(secs * PerSecond) \in 0..(TimeMod - 1)
<1>1. \A secs \in Secs : secs \in Int /\ secs * PerSecond \in Int
  BY SleepQAssumption
<1> QED BY <1>1, SleepQAssumption, ModRange DEF NO_TIMEOUT

(* One step of the queue is one of: a thread goes to sleep, a sleeper is   *)
(* cancelled, the clock is read, time passes.                              *)
LEMMA SqNextCases ==
  ASSUME SqNext
  PROVE  \/ \E t \in Sleepers, x \in 0..(TimeMod - 1) : Sleep(t, x)
         \/ \E t \in Sleepers : Cancel(t)
         \/ _st_vp_check_clock
         \/ Tick
BY TimeoutRange, Zenon DEF SqNext, st_usleep, st_sleep

(* The invariant of the sleep queue is inductive.                          *)
THEOREM SqInductive == SqInv /\ [SqNext]_sqvars => SqInv'
<1> SUFFICES ASSUME SqInv, [SqNext]_sqvars PROVE SqInv'
  OBVIOUS
<1>1. CASE SqNext
  BY <1>1, SqNextCases, SleepStep, CancelStep, CheckClockStep, TickStep
<1>2. CASE UNCHANGED sqvars
  BY <1>2 DEF SqInv, sqvars
<1> QED BY <1>1, <1>2

(* It holds in every state.                                                *)
LEMMA SqInvariant == SqSpec => []SqInv
<1>1. SqInit => SqInv
  BY SqInitGood
<1> QED BY <1>1, SqInductive, PTL DEF SqSpec

(* sleep_max is always the exact sum of the differences.                   *)
THEOREM SleepMaxStaysSum == SqSpec => []SleepMaxIsSum
<1>1. SqInv => SleepMaxIsSum
  BY DEF SqInv, GoodQ, SleepMaxIsSum
<1> QED BY <1>1, SqInvariant, PTL

(* The sleep queue implements independent timers.                          *)
THEOREM SleepQIsTimers == SqSpec => ImplementsTimers
<1>1. TimeLeft = Left(sq)
  BY DEF TimeLeft, Left
<1>2. SqInit => Timer!Init
  BY <1>1, SqInitGood DEF Timer!Init, SqInit
<1>3. ASSUME SqInv, [SqNext]_sqvars PROVE [Timer!Next]_(Timer!vars)
  <2>1. TimeLeft' = Left(sq') /\ DOMAIN TimeLeft = Range(sq.q) /\ TimeMod - 1 + 1 = TimeMod
    BY SleepQAssumption DEF TimeLeft, Left
  <2>2. ASSUME NEW t \in Sleepers, NEW x \in 0..(TimeMod - 1), Sleep(t, x) PROVE Timer!Next
    <3>1. Timer!Set(t, x)
      <4>1. /\ t \notin Range(sq.q) /\ Left(sq') = LeftWith(sq, t, x)
            /\ expired' = <<>> /\ UNCHANGED <<clock, last_clock>>
        BY <1>3, <2>2, SleepStep
      <4> QED BY <1>1, <2>1, <4>1, Zenon DEF Timer!Set, Timer!Sleeping, LeftWith
    <3> QED BY <3>1 DEF Timer!Next
  <2>3. ASSUME NEW t \in Sleepers, Cancel(t) PROVE Timer!Next
    <3>1. Timer!Cancel(t)
      BY <1>1, <1>3, <2>1, <2>3, CancelStep
         DEF Timer!Cancel, Timer!Sleeping, Timer!Restrict, LeftWithout
    <3> QED BY <3>1 DEF Timer!Next
  <2>4. CASE _st_vp_check_clock
    <3>1. Timer!Account
      <4>1. PICK x : x = Utime(clock - last_clock)
        OBVIOUS
      <4>2. /\ Left(sq') = [t \in Range(sq.q) \ Over(sq, x) |-> Left(sq)[t] - x]
            /\ IsInjective(expired') /\ Range(expired') = Over(sq, x)
            /\ InOrder(expired', Left(sq)) /\ last_clock' = clock /\ UNCHANGED clock
        BY <1>3, <2>4, <4>1, CheckClockStep
      <4>3. x = (clock - last_clock) % (TimeMod - 1 + 1)
        BY <2>1, <4>1 DEF Utime
      <4>4. Over(sq, x) = {t \in DOMAIN TimeLeft : TimeLeft[t] <= x}
        BY <1>1, <2>1 DEF Over
      <4> QED BY <1>1, <2>1, <4>2, <4>3, <4>4, Zenon DEF Timer!Account, Timer!Sleeping, InOrder, Timer!IsInjective, IsInjective, Timer!Range, Range
    <3> QED BY <3>1 DEF Timer!Next
  <2>5. CASE Tick
    BY <1>1, <2>1, <2>5 DEF Timer!Next, Timer!Tick, Tick, Utime
  <2>6. CASE UNCHANGED sqvars
    BY <1>1, <2>1, <2>6 DEF sqvars, Timer!vars
  <2>7. CASE SqNext
    BY <2>2, <2>3, <2>4, <2>5, <2>7, SqNextCases
  <2> QED BY <1>3, <2>6, <2>7
<1> QED BY <1>2, <1>3, SqInvariant, PTL DEF SqSpec, ImplementsTimers, Timer!Spec
=============================================================================
