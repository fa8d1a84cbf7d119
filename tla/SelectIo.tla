------------------------------ MODULE SelectIo ------------------------------
(***************************************************************************)
(* The original State Threads scheduler (sched.c) and its I/O calls (io.c):*)
(* a thread whose system call would block puts its descriptors on the I/O  *)
(* queue and gives up the processor; the idle thread calls select(2) for   *)
(* all of them when no thread can run, and puts the threads whose          *)
(* descriptors are ready, and those whose time is up, on the run queue.    *)
(*                                                                         *)
(* Threads are cooperative: whatever a thread does between two blocking    *)
(* points is one step.  Descriptors are the operating system's small       *)
(* integers (the WIN32 table fds[] is the identity), and closing one frees *)
(* its number for the next open.  avail counts the units of data, space or *)
(* pending connections that a descriptor offers in a direction.            *)
(***************************************************************************)
EXTENDS Integers, Sequences, FiniteSets, SequencesExt

CONSTANTS
    Threads,
    NumFds,     \* descriptors are 0..NumFds - 1
    MaxCalls,   \* bound: calls made by the threads
    MaxBytes,   \* bound: units moved by one st_write or st_read_fully
    MaxEvents,  \* bound: readiness events and opens of the environment
    Idle, None

Fds    == 0..NumFds - 1
Events == {"in", "out"}      \* POLLIN, POLLOUT
Pds    == Fds \X Events

(* A call: the descriptor/event pairs it waits for, the units it still has *)
(* to move (0 for a plain st_poll), whether it must move all of them, and  *)
(* whether it has a timeout.  A thread in a call has been made runnable    *)
(* for a ready descriptor when its request is off the I/O queue.           *)
Calls == [pds : SUBSET Pds, need : 0..MaxBytes, all : BOOLEAN, timed : BOOLEAN]
NewCall(pds, n, all, timed) == [pds |-> pds, need |-> n, all |-> all, timed |-> timed]

ASSUME SelectIoAssumption ==
    /\ {NumFds, MaxCalls, MaxBytes, MaxEvents} \subseteq Nat \ {0}
    /\ IsFiniteSet(Threads) /\ Idle \notin Threads
    /\ None \notin Calls

VARIABLES
    cur,      \* the running thread, or Idle
    runq,     \* the run queue
    ioq,      \* threads whose pollq_t is linked on the I/O queue, in order
    sleepq,   \* threads with a timeout, earliest first
    call,     \* the I/O call a thread is in
    intr,     \* threads with _ST_FL_INTERRUPT
    cnt,      \* _ST_FD_READ_CNT and _ST_FD_WRITE_CNT
    fdset,    \* _ST_FD_READ_SET and _ST_FD_WRITE_SET, as descriptor/event pairs
    maxfd,    \* _ST_MAX_OSFD
    open,     \* open descriptors
    avail,    \* what the kernel offers on a descriptor in a direction
    left,     \* calls the threads may still make
    events    \* environment events so far

svars == <<cur, runq, ioq, sleepq, call, intr>>
pvars == <<cnt, fdset, maxfd>>
kvars == <<open, avail, left, events>>
vars  == <<svars, pvars, kvars>>

Init ==
    /\ cur = Idle
    /\ runq = SetToSeq(Threads)
    /\ ioq = <<>> /\ sleepq = <<>>
    /\ call = [t \in Threads |-> None]
    /\ intr = {}
    /\ cnt = [pd \in Pds |-> 0] /\ fdset = {} /\ maxfd = -1
    /\ open = Fds
    /\ avail = [pd \in Pds |-> 0]
    /\ left = MaxCalls
    /\ events = 0

(* The queue q after the threads that are not in S have been unlinked.     *)
IsKept(r, q, S) ==
    /\ ToSet(r) = ToSet(q) \cap S
    /\ \A i, j \in 1..Len(r) : i < j =>
          \E k, l \in 1..Len(q) : k < l /\ q[k] = r[i] /\ q[l] = r[j]
Keep(q, S) == CHOOSE r \in BoundedSeq(Threads, Len(q)) : IsKept(r, q, S)
Rem(q, t)  == Keep(q, Threads \ {t})

(* _st_vp_schedule: the head of the run queue, or the idle thread.         *)
_st_vp_schedule(q) ==
    IF q # <<>> THEN cur' = Head(q) /\ runq' = Tail(q)
                ELSE cur' = Idle /\ runq' = q

-----------------------------------------------------------------------------
(* st_poll.                                                                *)

(* Defect: a descriptor above the highest one selected so far is forgotten.*)
WatchLow(pds) ==
    /\ cnt' = [pd \in Pds |-> IF pd \in pds THEN cnt[pd] + 1 ELSE cnt[pd]]
    /\ fdset' = fdset \cup pds
    /\ maxfd' = IF maxfd = -1 THEN Max({pd[1] : pd \in pds}) ELSE maxfd

(* Count every descriptor/event pair and enter it in the select set.       *)
Watch(pds) ==
    /\ cnt' = [pd \in Pds |-> IF pd \in pds THEN cnt[pd] + 1 ELSE cnt[pd]]
    /\ fdset' = fdset \cup pds
    /\ maxfd' = Max({maxfd} \cup {pd[1] : pd \in pds})

(* The threads of ts whose calls wait for a pair.                          *)
Waiters(ts, pd) == {t \in ts : pd \in call[t].pds}

(* Defect: the pair leaves the select set although others wait for it.     *)
UnwatchedAlways(ts) ==
    /\ cnt' = [pd \in Pds |-> cnt[pd] - Cardinality(Waiters(ts, pd))]
    /\ fdset' = {pd \in fdset : Waiters(ts, pd) = {}}

(* The requests of the threads ts leave the I/O queue: a pair leaves the   *)
(* select set with its last request.                                       *)
Unwatched(ts) ==
    /\ cnt' = [pd \in Pds |-> cnt[pd] - Cardinality(Waiters(ts, pd))]
    /\ fdset' = {pd \in fdset : Waiters(ts, pd) = {} \/ cnt[pd] # Cardinality(Waiters(ts, pd))}

(* The first half of st_poll: link the request, go to sleep for the        *)
(* timeout and switch.  An interrupt that is already there ends the call.  *)
PollWait(t, c) ==
    IF t \in intr
    THEN /\ intr' = intr \ {t}
         /\ call' = [call EXCEPT ![t] = None]
         /\ UNCHANGED <<cur, runq, ioq, sleepq, pvars>>
    ELSE /\ Watch(c.pds)
         /\ ioq' = Append(ioq, t)
         /\ call' = [call EXCEPT ![t] = c]
         /\ IF c.timed
            THEN \E k \in 1..Len(sleepq) + 1 : sleepq' = InsertAt(sleepq, k, t)
            ELSE UNCHANGED sleepq
         /\ _st_vp_schedule(runq)
         /\ UNCHANGED intr

(* One turn of the loop of an I/O call: the system call fails on a closed  *)
(* descriptor, moves some units, or would block; then, and when the call   *)
(* must move more, the thread waits in st_netfd_poll.                      *)
Attempt(t, c) ==
    \E pd \in c.pds :
       \/ /\ pd[1] \notin open
          /\ call' = [call EXCEPT ![t] = None]
          /\ UNCHANGED <<cur, runq, ioq, sleepq, intr, pvars, avail>>
       \/ /\ pd[1] \in open
          /\ \E n \in 1..Min({avail[pd], c.need}) :
                /\ avail' = [avail EXCEPT ![pd] = @ - n]
                /\ IF ~c.all \/ n = c.need
                   THEN /\ call' = [call EXCEPT ![t] = None]
                        /\ UNCHANGED <<cur, runq, ioq, sleepq, intr, pvars>>
                   ELSE PollWait(t, [c EXCEPT !.need = @ - n])
       \/ /\ pd[1] \in open /\ avail[pd] = 0
          /\ PollWait(t, c)
          /\ UNCHANGED avail

(* st_poll goes on after the switch.  A request that is still on the I/O   *)
(* queue timed out or was interrupted: it is taken off and the call ends.  *)
(* A notified thread with an interrupt ends its call too; otherwise a      *)
(* plain st_poll returns and an I/O call tries again.                      *)
PollResume(t) ==
    /\ cur = t /\ call[t] # None
    /\ \/ /\ Contains(ioq, t)
          /\ Unwatched({t})
          /\ ioq' = Rem(ioq, t)
          /\ intr' = intr \ {t}
          /\ call' = [call EXCEPT ![t] = None]
          /\ UNCHANGED <<cur, runq, sleepq, maxfd, avail>>
       \/ /\ ~Contains(ioq, t) /\ (t \in intr \/ call[t].need = 0)
          /\ intr' = intr \ {t}
          /\ call' = [call EXCEPT ![t] = None]
          /\ UNCHANGED <<cur, runq, ioq, sleepq, pvars, avail>>
       \/ /\ ~Contains(ioq, t) /\ t \notin intr /\ call[t].need > 0
          /\ Attempt(t, call[t])
    /\ UNCHANGED <<open, left, events>>

-----------------------------------------------------------------------------
(* The I/O calls of io.c.                                                  *)

IoCall(t, fd, e, n, all, timed) ==
    /\ cur = t /\ call[t] = None /\ left > 0
    /\ left' = left - 1
    /\ Attempt(t, NewCall({<<fd, e>>}, n, all, timed))
    /\ UNCHANGED <<open, events>>

(* One unit, in: also st_accept and st_recvfrom.                           *)
st_read(t, fd, timed)          == IoCall(t, fd, "in", 1, FALSE, timed)
(* All of n units, in.                                                     *)
st_read_fully(t, fd, n, timed) == IoCall(t, fd, "in", n, TRUE, timed)
(* One unit, out: also st_sendto.                                          *)
st_connect(t, fd, timed)       == IoCall(t, fd, "out", 1, FALSE, timed)
(* All of n units, out: also st_writev.                                    *)
st_write(t, fd, n, timed)      == IoCall(t, fd, "out", n, TRUE, timed)

(* st_poll called by the program, on several descriptors at once.          *)
st_poll(t, pds, timed) ==
    /\ cur = t /\ call[t] = None /\ left > 0
    /\ left' = left - 1
    /\ PollWait(t, NewCall(pds, 0, FALSE, timed))
    /\ UNCHANGED <<open, avail, events>>

(* st_netfd_close: the number is free at once, whoever waits for it.       *)
st_netfd_close(t, fd) ==
    /\ cur = t /\ call[t] = None /\ left > 0 /\ fd \in open
    /\ left' = left - 1
    /\ open' = open \ {fd}
    /\ avail' = [pd \in Pds |-> IF pd[1] = fd THEN 0 ELSE avail[pd]]
    /\ UNCHANGED <<svars, pvars, events>>

(* st_open, or a socket of the program, takes the lowest free number.      *)
st_open(t) ==
    /\ cur = t /\ call[t] = None /\ left > 0 /\ open # Fds
    /\ left' = left - 1
    /\ open' = open \cup {Min(Fds \ open)}
    /\ UNCHANGED <<svars, pvars, avail, events>>

(* Defect: the interrupted thread stays on the sleep queue.                *)
st_thread_interrupt_asleep(t, u) ==
    /\ cur = t /\ call[t] = None /\ u # t /\ u \notin intr /\ left > 0
    /\ left' = left - 1
    /\ intr' = intr \cup {u}
    /\ runq' = IF Contains(ioq, u) /\ ~Contains(runq, u) THEN Append(runq, u) ELSE runq
    /\ UNCHANGED <<cur, ioq, sleepq, call, pvars, open, avail, events>>

(* st_thread_interrupt: a thread that waits for I/O is made runnable; its  *)
(* request stays on the I/O queue until it runs.                           *)
st_thread_interrupt(t, u) ==
    /\ cur = t /\ call[t] = None /\ u # t /\ u \notin intr /\ left > 0
    /\ left' = left - 1
    /\ intr' = intr \cup {u}
    /\ IF Contains(ioq, u) /\ ~Contains(runq, u)
       THEN runq' = Append(runq, u) /\ sleepq' = Rem(sleepq, u)
       ELSE UNCHANGED <<runq, sleepq>>
    /\ UNCHANGED <<cur, ioq, call, pvars, open, avail, events>>

(* st_thread_exit: the thread is not linked anywhere any more.             *)
st_thread_exit(t) ==
    /\ cur = t /\ call[t] = None
    /\ _st_vp_schedule(runq)
    /\ UNCHANGED <<ioq, sleepq, call, intr, pvars, kvars>>

-----------------------------------------------------------------------------
(* The idle thread.                                                        *)

(* Pairs select(2) looks at, and those it finds ready; it fails when one   *)
(* of them is closed.                                                      *)
Selected == {pd \in fdset : pd[1] <= maxfd}
Ready    == {pd \in Selected : avail[pd] > 0}
BadFd    == \E pd \in Selected : pd[1] \notin open

TopFd(ts) == Max({-1} \cup UNION {{pd[1] : pd \in call[t].pds} : t \in ts})

(* Threads whose request has a ready descriptor; none if select fails.     *)
Notified == IF BadFd THEN {} ELSE {t \in ToSet(ioq) : call[t].pds \cap Ready # {}}

(* _st_vp_idle: after a successful select every notified request leaves    *)
(* the I/O queue, its counts are given back and its thread becomes         *)
(* runnable; maxfd is recomputed over the rest.  After EBADF the queue is  *)
(* searched for the bad descriptor (_st_find_bad_fd), which only           *)
(* recomputes maxfd: its notify flag is never set.  A select that times    *)
(* out changes nothing.                                                    *)
_st_vp_idle ==
    /\ ioq' = Keep(ioq, Threads \ Notified)
    /\ Unwatched(Notified)
    /\ maxfd' = IF BadFd \/ Ready # {} THEN TopFd(ToSet(ioq) \ Notified) ELSE maxfd

(* _st_idle_thread_start: select, then _st_vp_check_clock wakes the first  *)
(* k sleepers, then the next thread runs.                                  *)
IdleStep(k) ==
    /\ cur = Idle
    /\ \/ runq # <<>> /\ k = 0
          /\ UNCHANGED <<ioq, sleepq, pvars>>
          /\ _st_vp_schedule(runq)
       \/ /\ runq = <<>> /\ ioq # <<>>
          /\ _st_vp_idle
          /\ LET sleep == Keep(sleepq, Threads \ Notified)
             IN  /\ k <= Len(sleep)
                 /\ sleepq' = SubSeq(sleep, k + 1, Len(sleep))
                 /\ _st_vp_schedule(Keep(ioq, Notified) \o SubSeq(sleep, 1, k))
    /\ UNCHANGED <<call, intr, kvars>>

(* Data, space or a connection arrives.                                    *)
Arrive(pd) ==
    /\ events < MaxEvents /\ pd[1] \in open
    /\ events' = events + 1
    /\ avail' = [avail EXCEPT ![pd] = @ + 1]
    /\ UNCHANGED <<svars, pvars, open, left>>

-----------------------------------------------------------------------------
Step(t) ==
    \/ \E fd \in Fds, tm \in BOOLEAN :
          \/ st_read(t, fd, tm) \/ st_connect(t, fd, tm)
          \/ \E n \in 2..MaxBytes : st_read_fully(t, fd, n, tm) \/ st_write(t, fd, n, tm)
    \/ \E a, b \in Fds, tm \in BOOLEAN :
          a # b /\ st_poll(t, {<<a, "in">>, <<b, "out">>}, tm)
    \/ PollResume(t) \/ st_open(t) \/ st_thread_exit(t)
    \/ \E fd \in Fds : st_netfd_close(t, fd)
    \/ \E u \in Threads : st_thread_interrupt(t, u)

Next ==
    \/ \E t \in Threads : Step(t)
    \/ \E k \in 0..Cardinality(Threads) : IdleStep(k)
    \/ \E pd \in Pds : Arrive(pd)

Spec == Init /\ [][Next]_vars

(* The running thread goes on, the idle thread calls select again and      *)
(* again, and time passes.                                                 *)
FairSpec ==
    /\ Spec
    /\ WF_vars(\E t \in {cur} \cap Threads : Step(t))
    /\ WF_vars(IdleStep(0))
    /\ WF_vars(\E k \in 1..Cardinality(Threads) : IdleStep(k))

-----------------------------------------------------------------------------
Waiting(t) == Contains(ioq, t) /\ ~Contains(runq, t) /\ cur # t

(* The bookkeeping behind select(2): a pair is counted once for every      *)
(* request on the I/O queue that waits for it, it is in the select set     *)
(* exactly as long as its count is positive, and no descriptor of the set  *)
(* is above maxfd, where select would not look (the counts of st_poll,     *)
(* _st_vp_idle and the timeout path of st_poll in sched.c).                *)
SelectSetExact ==
    /\ \A pd \in Pds : cnt[pd] = Cardinality(Waiters(ToSet(ioq), pd))
    /\ fdset = {pd \in Pds : cnt[pd] > 0}
    /\ \A pd \in fdset : pd[1] <= maxfd

(* No thread is linked twice or on two queues: the run queue and the sleep *)
(* queue share one link field of the thread (sched.c, st_thread_t.links),  *)
(* and the running thread is on neither.                                   *)
LinkedOnce ==
    /\ IsInjective(runq) /\ IsInjective(sleepq) /\ IsInjective(ioq)
    /\ ToSet(runq) \cap ToSet(sleepq) = {}
    /\ cur \notin ToSet(runq) \cup ToSet(sleepq)

(* A thread whose descriptor is ready gets to run, however many others     *)
(* share the descriptor, unless a descriptor somebody waits for has been   *)
(* closed, after which select fails for everybody (_st_find_bad_fd).       *)
(* With a timeout it gets to run in any case.                              *)
WaitersServed ==
    \A t \in Threads :
        /\ (Waiting(t) /\ \E pd \in call[t].pds : avail[pd] > 0)
              ~> (~Waiting(t) \/ BadFd \/ \A pd \in call[t].pds : avail[pd] = 0)
        /\ (Waiting(t) /\ call[t].timed) ~> ~Waiting(t)
=============================================================================
