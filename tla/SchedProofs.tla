----------------------------- MODULE SchedProofs -----------------------------
(***************************************************************************)
(* Proofs about module Sched for any number of threads, condition          *)
(* variables, mutexes and producers.  The invariant IInv is inductive as   *)
(* long as no thread that does I/O is interrupted (NoIoInterrupts); every  *)
(* safety property of the scheduler follows from it.                       *)
(*                                                                         *)
(* Steps first turn an action's EXCEPTs into facts about the thread it is  *)
(* about and about all others; each conjunct of IInv that the action can   *)
(* disturb is then a step of its own.                                      *)
(***************************************************************************)
EXTENDS Sched, SequenceTheorems, FiniteSetTheorems, TLAPS

-----------------------------------------------------------------------------
(* Queues as sequences without repetition *)

(* What ST_INSERT_BEFORE at the end of a queue (common.h) does to it. *)
LEMMA AppendFacts ==
    ASSUME NEW S, NEW q \in Seq(S), NEW x \in S
    PROVE  /\ Append(q, x) \in Seq(S)
           /\ Append(q, x) # <<>>
           /\ Range(Append(q, x)) = Range(q) \cup {x}
           /\ IsInjective(q) /\ x \notin Range(q) => IsInjective(Append(q, x))
<1>1. /\ Append(q, x) \in Seq(S)
      /\ Append(q, x) # <<>>
      /\ Len(q) \in Nat
      /\ DOMAIN q = 1 .. Len(q)
      /\ DOMAIN Append(q, x) = 1 .. Len(q) + 1
      /\ \A i \in 1 .. Len(q) : Append(q, x)[i] = q[i]
      /\ Append(q, x)[Len(q) + 1] = x
  OBVIOUS
<1>2. Range(Append(q, x)) = Range(q) \cup {x}
  <2>1. ASSUME NEW y \in Range(Append(q, x)) PROVE y \in Range(q) \cup {x}
    BY <1>1 DEF Range
  <2>2. ASSUME NEW y \in Range(q) PROVE y \in Range(Append(q, x))
    BY <1>1 DEF Range
  <2>3. x \in Range(Append(q, x))
    BY <1>1 DEF Range
  <2> QED BY <2>1, <2>2, <2>3
<1>3. ASSUME IsInjective(q), x \notin Range(q) PROVE IsInjective(Append(q, x))
  <2>1. \A i \in 1 .. Len(q) : q[i] # x
    BY <1>1, <1>3 DEF Range
  <2> SUFFICES ASSUME NEW i \in 1 .. Len(q) + 1, NEW j \in 1 .. Len(q) + 1,
                      Append(q, x)[i] = Append(q, x)[j]
               PROVE  i = j
    BY <1>1 DEF IsInjective
  <2>2. CASE i \in 1 .. Len(q) /\ j \in 1 .. Len(q)
    BY <1>1, <1>3, <2>2 DEF IsInjective
  <2>3. CASE i = Len(q) + 1 \/ j = Len(q) + 1
    BY <1>1, <2>1, <2>3
  <2> QED BY <1>1, <2>2, <2>3
<1> QED BY <1>1, <1>2, <1>3

(* What taking the first element off a queue does to it. *)
LEMMA TailFacts ==
    ASSUME NEW S, NEW q \in Seq(S), q # <<>>
    PROVE  /\ Tail(q) \in Seq(S)
           /\ Head(q) \in S
           /\ Head(q) \in Range(q)
           /\ IsInjective(q) => /\ IsInjective(Tail(q))
                                /\ Range(Tail(q)) = Range(q) \ {Head(q)}
<1>1. /\ Tail(q) \in Seq(S)
      /\ Head(q) \in S
      /\ Head(q) = q[1]
      /\ Len(q) \in Nat /\ Len(q) >= 1
      /\ DOMAIN q = 1 .. Len(q)
      /\ Len(Tail(q)) = Len(q) - 1
      /\ DOMAIN Tail(q) = 1 .. Len(q) - 1
      /\ \A i \in 1 .. Len(q) - 1 : Tail(q)[i] = q[i + 1]
  OBVIOUS
<1>2. Head(q) \in Range(q)
  BY <1>1 DEF Range
<1>3. ASSUME IsInjective(q) PROVE IsInjective(Tail(q))
  BY <1>1, <1>3 DEF IsInjective
<1>4. ASSUME IsInjective(q) PROVE Range(Tail(q)) = Range(q) \ {Head(q)}
  <2>1. ASSUME NEW x \in Range(Tail(q)) PROVE x \in Range(q) \ {Head(q)}
    BY <1>1, <1>4 DEF IsInjective, Range
  <2>2. ASSUME NEW x \in Range(q), x # Head(q) PROVE x \in Range(Tail(q))
    <3>1. PICK i \in 1 .. Len(q) : q[i] = x
      BY <1>1 DEF Range
    <3>2. i - 1 \in 1 .. Len(q) - 1 /\ Tail(q)[i - 1] = x
      BY <1>1, <2>2, <3>1
    <3> QED BY <1>1, <3>2 DEF Range
  <2> QED BY <2>1, <2>2
<1> QED BY <1>1, <1>2, <1>3, <1>4

(* What ST_REMOVE_LINK of a linked element does to a queue. *)
LEMMA UnlinkFacts ==
    ASSUME NEW S, NEW q \in Seq(S), IsInjective(q), NEW t \in Range(q)
    PROVE  /\ Unlink(q, t) \in Seq(S)
           /\ Len(Unlink(q, t)) = Len(q) - 1
           /\ IsInjective(Unlink(q, t))
           /\ Range(Unlink(q, t)) = Range(q) \ {t}
<1> DEFINE k == CHOOSE i \in DOMAIN q : q[i] = t
           u == [i \in 1 .. Len(q) - 1 |-> IF i < k THEN q[i] ELSE q[i + 1]]
<1>1. /\ Len(q) \in Nat
      /\ DOMAIN q = 1 .. Len(q)
      /\ \A i \in 1 .. Len(q) : q[i] \in S
  OBVIOUS
<1>2. k \in 1 .. Len(q) /\ q[k] = t
  BY <1>1 DEF Range
<1> HIDE DEF k
<1>3. Unlink(q, t) = u
  BY DEF Unlink, k
<1>4. /\ DOMAIN u = 1 .. Len(q) - 1
      /\ Len(q) - 1 \in Nat
      /\ \A i \in 1 .. Len(q) - 1 : u[i] = IF i < k THEN q[i] ELSE q[i + 1]
  BY <1>1, <1>2
<1>5. u \in Seq(S) /\ Len(u) = Len(q) - 1
  <2>1. u \in [1 .. Len(q) - 1 -> S]
    BY <1>1, <1>2, <1>4
  <2> QED BY <2>1, <1>4
<1> HIDE DEF u
<1>6. IsInjective(u)
  <2> SUFFICES ASSUME NEW i \in 1 .. Len(q) - 1, NEW j \in 1 .. Len(q) - 1, u[i] = u[j]
               PROVE  i = j
    BY <1>4 DEF IsInjective
  <2> DEFINE at(n) == IF n < k THEN n ELSE n + 1
  <2>1. /\ at(i) \in 1 .. Len(q) /\ at(j) \in 1 .. Len(q)
        /\ u[i] = q[at(i)] /\ u[j] = q[at(j)]
    BY <1>1, <1>2, <1>4
  <2>2. at(i) = at(j)
    BY <1>1, <2>1 DEF IsInjective
  <2> QED BY <1>1, <1>2, <2>2
<1>7. ASSUME NEW x \in Range(u) PROVE x \in Range(q) \ {t}
  BY <1>1, <1>2, <1>4 DEF IsInjective, Range
<1>8. ASSUME NEW x \in Range(q), x # t PROVE x \in Range(u)
  <2>1. PICK i \in 1 .. Len(q) : q[i] = x
    BY <1>1 DEF Range
  <2>2. CASE i < k
    <3>1. i \in 1 .. Len(q) - 1
      BY <1>1, <1>2, <2>1, <2>2
    <3> QED BY <1>4, <2>1, <2>2, <3>1 DEF Range
  <2>3. CASE i > k
    <3>1. i - 1 \in 1 .. Len(q) - 1 /\ ~(i - 1 < k) /\ q[(i - 1) + 1] = x
      BY <1>1, <1>2, <2>1, <2>3
    <3> QED BY <1>4, <3>1 DEF Range
  <2> QED BY <1>1, <1>2, <1>8, <2>1, <2>2, <2>3
<1> QED BY <1>3, <1>5, <1>6, <1>7, <1>8


(* A blocking call that finds the interrupt flag set changes nothing but that flag. *)
LEMMA EintrStep ==
    ASSUME IInv, NEW t \in Threads, Running(t), ReturnEINTR(t),
           UNCHANGED <<jvars, svars, iovars>>
    PROVE  IInv'
<1> USE SchedAssumption DEF Running, ReturnEINTR, ThreadTypeOK
<1>0. /\ flags' \in [Threads -> SUBSET Flags]
      /\ \A x \in Threads : /\ flags'[x] \subseteq flags[x]
                            /\ flags[x] \subseteq flags'[x] \cup {"INTERRUPT"}
                            /\ x # t => flags'[x] = flags[x]
  BY DEF IInv, TypeOK, Flags
<1> HIDE DEF ReturnEINTR
<1>a. UNCHANGED <<state, pc, wobj, runq, cur, jvars, svars, iovars>>
  BY DEF ReturnEINTR
<1>1. TypeOK'
  BY <1>0, <1>a DEF IInv, TypeOK, jvars, svars, iovars
<1>2. RunQExact'
  BY <1>a DEF IInv, RunQExact
<1>3. CurInv'
  BY <1>a DEF IInv, CurInv
<1>4. PlaceInv'
  BY <1>a DEF IInv, PlaceInv, Woken
<1>5. WaitInv'
  BY <1>a DEF IInv, WaitInv, Waits, svars
<1>6. FlagInv'
  BY <1>0, <1>a DEF IInv, FlagInv, Woken, svars
<1>7. IoInv'
  BY <1>0, <1>a DEF IInv, IoInv, Interrupted, iovars
<1>8. LockInv'
  BY <1>0, <1>a DEF IInv, LockInv, Interrupted, svars
<1>9. JoinInv'
  BY <1>0, <1>a DEF IInv, JoinInv, JoinWakesOnZombie, Interrupted, jvars, svars
<1>10. ActiveCountExact'
  BY <1>a DEF IInv, ActiveCountExact, Alive, jvars
<1> QED BY <1>1, <1>2, <1>3, <1>4, <1>5, <1>6, <1>7, <1>8, <1>9, <1>10 DEF IInv

-----------------------------------------------------------------------------
(* What blocking, waking and returning do to the threads *)

(* The threads _st_active_count counts. *)
AliveSet == {t \in Threads : Alive(t)}

(* The states in which a thread is on neither the processor nor the run queue. *)
Blocked == {"IO_WAIT", "LOCK_WAIT", "COND_WAIT", "SLEEPING"}

(* The state a blocking call sets, with the place it continues at. *)
BlockPlaces ==
    {<<"SLEEPING", "usleep">>, <<"COND_WAIT", "cond">>, <<"COND_WAIT", "join">>,
     <<"LOCK_WAIT", "lock">>, <<"IO_WAIT", "io">>}

(* A thread that blocks leaves the run queue exact: it was running, so it was not on it. *)
LEMMA BlockCore ==
    ASSUME IInv, NEW t \in Threads, cur = t, pc[t] # "exit",
           NEW st, NEW l, <<st, l>> \in BlockPlaces,
           NEW fl \in SUBSET {"ON_SLEEPQ"}, NEW o \in Objects \cup {NULL},
           Block(t, st, l, fl, o)
    PROVE  /\ ThreadTypeOK'
           /\ state[t] = "RUNNING"
           /\ state'[t] = st /\ pc'[t] = l /\ wobj'[t] = o /\ flags'[t] = flags[t] \cup fl
           /\ \A x \in Threads : x # t =>
                  /\ state'[x] = state[x] /\ pc'[x] = pc[x]
                  /\ wobj'[x] = wobj[x] /\ flags'[x] = flags[x]
           /\ RunQExact' /\ CurInv' /\ PlaceInv' /\ AliveSet' = AliveSet
<1> USE SchedAssumption
<1>0. st \in States \cap Blocked /\ l \in PCs \ {"run", "post", "bcast", "exit"}
  BY DEF BlockPlaces, States, PCs, Blocked
<1>a. \A x \in Threads : flags[x] \cup fl \in SUBSET Flags
  BY DEF IInv, TypeOK, ThreadTypeOK, Flags
<1>1. /\ state' \in [Threads -> States] /\ pc' \in [Threads -> PCs]
      /\ wobj' \in [Threads -> Objects \cup {NULL}]
      /\ flags' \in [Threads -> SUBSET Flags]
      /\ runq' = runq /\ cur' = NULL
      /\ state'[t] = st /\ pc'[t] = l /\ wobj'[t] = o /\ flags'[t] = flags[t] \cup fl
      /\ \A x \in Threads : x # t =>
             /\ state'[x] = state[x] /\ pc'[x] = pc[x]
             /\ wobj'[x] = wobj[x] /\ flags'[x] = flags[x]
  BY <1>0, <1>a DEF IInv, TypeOK, ThreadTypeOK, Block
<1>2. ThreadTypeOK'
  BY <1>1 DEF IInv, TypeOK, ThreadTypeOK
<1>3. state[t] = "RUNNING"
  BY DEF IInv, CurInv
<1>4. RunQExact'
  BY <1>0, <1>1, <1>3 DEF IInv, RunQExact, Blocked
<1>5. CurInv'
  BY <1>0, <1>1, <1>3 DEF IInv, CurInv, Blocked
<1>6. PlaceInv'
  BY <1>1 DEF IInv, PlaceInv, BlockPlaces, Woken
<1>7. AliveSet' = AliveSet
  BY <1>0, <1>1, <1>3 DEF AliveSet, Alive, Blocked
<1> QED BY <1>1, <1>2, <1>3, <1>4, <1>5, <1>6, <1>7

(* Making a blocked thread runnable leaves the run queue exact: it was not on it. *)
LEMMA WakeCore ==
    ASSUME IInv, NEW x \in Threads, state[x] \in Blocked,
           state' = [state EXCEPT ![x] = "RUNNABLE"], runq' = Append(runq, x),
           UNCHANGED <<pc, wobj, cur>>
    PROVE  /\ state' \in [Threads -> States] /\ runq' \in Seq(Threads)
           /\ state'[x] = "RUNNABLE"
           /\ \A y \in Threads : y # x => state'[y] = state[y]
           /\ cur # x
           /\ RunQExact' /\ CurInv' /\ PlaceInv' /\ AliveSet' = AliveSet
<1> USE SchedAssumption
<1>1. /\ state' \in [Threads -> States]
      /\ state'[x] = "RUNNABLE"
      /\ \A y \in Threads : y # x => state'[y] = state[y]
  BY DEF IInv, TypeOK, ThreadTypeOK, States
<1>2. runq \in Seq(Threads) /\ x \notin Range(runq) /\ IsInjective(runq)
  BY DEF IInv, TypeOK, ThreadTypeOK, RunQExact, Blocked
<1>3. /\ runq' \in Seq(Threads)
      /\ Range(runq') = Range(runq) \cup {x}
      /\ IsInjective(runq')
  BY <1>2, AppendFacts
<1>4. RunQExact'
  BY <1>1, <1>3 DEF IInv, RunQExact
<1>5. CurInv' /\ cur # x
  BY <1>1 DEF IInv, CurInv, Blocked
<1>6. PlaceInv'
  BY <1>1 DEF IInv, PlaceInv, Woken, Blocked
<1>7. AliveSet' = AliveSet
  BY <1>1 DEF AliveSet, Alive, Blocked
<1> QED BY <1>1, <1>3, <1>4, <1>5, <1>6, <1>7

(* A thread that returns from a blocking call stays the running one. *)
LEMMA ReturnCore ==
    ASSUME IInv, NEW t \in Threads, cur = t, pc[t] # "exit",
           NEW cl \in SUBSET Flags, Return(t, cl), UNCHANGED <<state, runq, cur>>
    PROVE  /\ ThreadTypeOK'
           /\ state[t] = "RUNNING"
           /\ pc'[t] = "run" /\ wobj'[t] = NULL /\ flags'[t] = flags[t] \ cl
           /\ \A x \in Threads : x # t =>
                  pc'[x] = pc[x] /\ wobj'[x] = wobj[x] /\ flags'[x] = flags[x]
           /\ RunQExact' /\ CurInv' /\ PlaceInv' /\ AliveSet' = AliveSet
<1> USE SchedAssumption
<1>1. /\ pc' \in [Threads -> PCs]
      /\ wobj' \in [Threads -> Objects \cup {NULL}]
      /\ flags' \in [Threads -> SUBSET Flags]
      /\ pc'[t] = "run" /\ wobj'[t] = NULL /\ flags'[t] = flags[t] \ cl
      /\ \A x \in Threads : x # t =>
             pc'[x] = pc[x] /\ wobj'[x] = wobj[x] /\ flags'[x] = flags[x]
  BY DEF IInv, TypeOK, ThreadTypeOK, Return, PCs
<1>2. ThreadTypeOK'
  BY <1>1 DEF IInv, TypeOK, ThreadTypeOK
<1>3. state[t] = "RUNNING"
  BY DEF IInv, CurInv
<1>4. RunQExact' /\ CurInv'
  BY DEF IInv, RunQExact, CurInv
<1>6. PlaceInv'
  BY <1>1, <1>3 DEF IInv, PlaceInv, Woken
<1>7. AliveSet' = AliveSet
  BY <1>1, <1>3 DEF AliveSet, Alive
<1> QED BY <1>1, <1>2, <1>3, <1>4, <1>6, <1>7

(* A step that creates and ends no thread keeps _st_active_count exact. *)
LEMMA AliveKept ==
    ASSUME ActiveCountExact, AliveSet' = AliveSet, active' = active
    PROVE  ActiveCountExact'
  BY DEF ActiveCountExact, AliveSet

(* NULL is no condition variable, mutex or term. *)
LEMMA NullNotObject == NULL \notin Objects
  BY SchedAssumption DEF Objects

(* A waiter that returns takes itself, and nobody else, off the wait queue of its object. *)
LEMMA UnlinkCore ==
    ASSUME IInv, NEW t \in Threads, Waits(t),
           waitq' = [waitq EXCEPT ![wobj[t]] = Unlink(@, t)],
           pc'[t] = "run", wobj'[t] = NULL,
           \A x \in Threads : x # t => pc'[x] = pc[x] /\ wobj'[x] = wobj[x],
           UNCHANGED objs
    PROVE  WaitInv' /\ waitq' \in [Objects -> Seq(Threads)]
<1> DEFINE o == wobj[t]
<1>1. /\ o \in Objects /\ t \in Range(waitq[o])
      /\ waitq \in [Objects -> Seq(Threads)] /\ waitq[o] \in Seq(Threads)
      /\ IsInjective(waitq[o])
  BY DEF IInv, TypeOK, ThreadTypeOK, WaitInv, Waits, Objects
<1>2. /\ Unlink(waitq[o], t) \in Seq(Threads)
      /\ IsInjective(Unlink(waitq[o], t))
      /\ Range(Unlink(waitq[o], t)) = Range(waitq[o]) \ {t}
  BY <1>1, UnlinkFacts
<1>3. /\ waitq' \in [Objects -> Seq(Threads)]
      /\ waitq'[o] = Unlink(waitq[o], t)
      /\ \A p \in Objects : p # o => waitq'[p] = waitq[p]
  BY <1>1, <1>2
<1>4. \A p \in Objects : IsInjective(waitq'[p])
  BY <1>1, <1>2, <1>3 DEF IInv, WaitInv
<1>5. \A p \in Objects, x \in Threads :
          x \in Range(waitq'[p]) <=> wobj'[x] = p /\ Waits(x)'
  BY <1>1, <1>2, <1>3, NullNotObject DEF IInv, WaitInv, Waits
<1>6. \A x \in Threads :
          /\ Waits(x)' => wobj'[x] \in objs'
          /\ pc'[x] \in {"cond", "bcast"} => wobj'[x] \in Conds
          /\ pc'[x] = "join" => wobj'[x] \in Threads
          /\ pc'[x] = "lock" => wobj'[x] \in Mutexes
  BY DEF IInv, WaitInv, Waits
<1> QED BY <1>3, <1>4, <1>5, <1>6 DEF WaitInv

(* A thread that was on no wait queue puts itself on the queue of the object it waits for. *)
LEMMA LinkCore ==
    ASSUME IInv, NEW t \in Threads, ~Waits(t),
           NEW o \in objs, waitq' = [waitq EXCEPT ![o] = Append(@, t)],
           wobj'[t] = o, NEW l \in {"cond", "join", "lock"}, pc'[t] = l,
           l = "cond" => o \in Conds,
           l = "join" => o \in Threads,
           l = "lock" => o \in Mutexes,
           \A x \in Threads : x # t => pc'[x] = pc[x] /\ wobj'[x] = wobj[x],
           UNCHANGED objs
    PROVE  WaitInv' /\ waitq' \in [Objects -> Seq(Threads)]
<1>1. /\ o \in Objects /\ t \notin Range(waitq[o])
      /\ waitq \in [Objects -> Seq(Threads)] /\ waitq[o] \in Seq(Threads)
      /\ IsInjective(waitq[o])
  BY DEF IInv, TypeOK, WaitInv
<1>2. /\ Append(waitq[o], t) \in Seq(Threads)
      /\ IsInjective(Append(waitq[o], t))
      /\ Range(Append(waitq[o], t)) = Range(waitq[o]) \cup {t}
  BY <1>1, AppendFacts
<1>3. /\ waitq' \in [Objects -> Seq(Threads)]
      /\ waitq'[o] = Append(waitq[o], t)
      /\ \A p \in Objects : p # o => waitq'[p] = waitq[p]
  BY <1>1, <1>2
<1>4. \A p \in Objects : IsInjective(waitq'[p])
  BY <1>1, <1>2, <1>3 DEF IInv, WaitInv
<1>5. \A p \in Objects, x \in Threads :
          x \in Range(waitq'[p]) <=> wobj'[x] = p /\ Waits(x)'
  BY <1>1, <1>2, <1>3, NullNotObject DEF IInv, WaitInv, Waits
<1>6. \A x \in Threads :
          /\ Waits(x)' => wobj'[x] \in objs'
          /\ pc'[x] \in {"cond", "bcast"} => wobj'[x] \in Conds
          /\ pc'[x] = "join" => wobj'[x] \in Threads
          /\ pc'[x] = "lock" => wobj'[x] \in Mutexes
  BY DEF IInv, WaitInv, Waits
<1> QED BY <1>3, <1>4, <1>5, <1>6 DEF WaitInv

-----------------------------------------------------------------------------
(* One lemma per operation *)

(* st_usleep *)
LEMMA UsleepStep ==
    ASSUME IInv, NEW t \in Threads, st_usleep(t)
    PROVE  IInv'
<1> USE SchedAssumption
<1>1. CASE ReturnEINTR(t)
  BY <1>1, EintrStep DEF st_usleep
<1>2. CASE Block(t, "SLEEPING", "usleep", {"ON_SLEEPQ"}, NULL)
  <2>0. /\ cur = t /\ pc[t] = "run" /\ UNCHANGED <<jvars, svars, iovars>>
        /\ <<"SLEEPING", "usleep">> \in BlockPlaces
    BY <1>2 DEF st_usleep, Running, BlockPlaces
  <2>1. /\ ThreadTypeOK'
        /\ state[t] = "RUNNING" /\ state'[t] = "SLEEPING" /\ pc'[t] = "usleep"
        /\ wobj'[t] = NULL /\ flags'[t] = flags[t] \cup {"ON_SLEEPQ"}
        /\ \A x \in Threads : x # t =>
               /\ state'[x] = state[x] /\ pc'[x] = pc[x]
               /\ wobj'[x] = wobj[x] /\ flags'[x] = flags[x]
        /\ RunQExact' /\ CurInv' /\ PlaceInv' /\ AliveSet' = AliveSet
    BY <1>2, <2>0, BlockCore
  <2>2. TypeOK'
    BY <2>0, <2>1 DEF IInv, TypeOK, jvars, svars, iovars
  <2>3. WaitInv'
    BY <2>0, <2>1, NullNotObject DEF IInv, WaitInv, Waits, svars
  <2>4. FlagInv'
    BY <2>0, <2>1 DEF IInv, FlagInv, PlaceInv, Woken, svars
  <2>5. IoInv'
    BY <2>0, <2>1 DEF IInv, IoInv, Interrupted, iovars
  <2>6. LockInv'
    BY <2>0, <2>1 DEF IInv, LockInv, Interrupted, svars
  <2>7. JoinInv'
    BY <2>0, <2>1 DEF IInv, JoinInv, JoinWakesOnZombie, WaitInv, Interrupted, jvars, svars
  <2>8. ActiveCountExact'
    BY <2>0, <2>1, AliveKept DEF IInv, jvars
  <2> QED BY <2>1, <2>2, <2>3, <2>4, <2>5, <2>6, <2>7, <2>8 DEF IInv
<1> QED BY <1>1, <1>2 DEF st_usleep

(* st_cond_timedwait *)
LEMMA CondWaitStep ==
    ASSUME IInv, NEW t \in Threads, NEW c \in Conds, NEW timed \in BOOLEAN,
           st_cond_timedwait(t, c, timed)
    PROVE  IInv'
<1> USE SchedAssumption
<1>1. CASE ReturnEINTR(t) /\ UNCHANGED waitq
  BY <1>1, EintrStep DEF st_cond_timedwait, jvars, svars
<1>2. CASE /\ Block(t, "COND_WAIT", "cond", IF timed THEN {"ON_SLEEPQ"} ELSE {}, c)
           /\ waitq' = [waitq EXCEPT ![c] = Append(@, t)]
  <2> DEFINE fl == IF timed THEN {"ON_SLEEPQ"} ELSE {}
  <2>0. /\ cur = t /\ pc[t] = "run" /\ c \in objs /\ c \in Objects
        /\ UNCHANGED <<jvars, objs, owner, holds, signalled, iovars>>
        /\ <<"COND_WAIT", "cond">> \in BlockPlaces
        /\ fl \in SUBSET {"ON_SLEEPQ"}
    BY <1>2 DEF st_cond_timedwait, Running, BlockPlaces, Objects
  <2> HIDE DEF fl
  <2>1. /\ ThreadTypeOK'
        /\ state[t] = "RUNNING" /\ state'[t] = "COND_WAIT" /\ pc'[t] = "cond"
        /\ wobj'[t] = c /\ flags'[t] = flags[t] \cup fl
        /\ \A x \in Threads : x # t =>
               /\ state'[x] = state[x] /\ pc'[x] = pc[x]
               /\ wobj'[x] = wobj[x] /\ flags'[x] = flags[x]
        /\ RunQExact' /\ CurInv' /\ PlaceInv' /\ AliveSet' = AliveSet
    BY <1>2, <2>0, BlockCore DEF fl
  <2>2. WaitInv' /\ waitq' \in [Objects -> Seq(Threads)]
    BY <1>2, <2>0, <2>1, LinkCore DEF Waits
  <2>3. TypeOK'
    BY <2>0, <2>1, <2>2 DEF IInv, TypeOK, jvars, iovars
  <2>4. FlagInv'
    BY <2>0, <2>1 DEF IInv, FlagInv, PlaceInv, Woken
  <2>5. IoInv'
    BY <2>0, <2>1 DEF IInv, IoInv, Interrupted, iovars
  <2>6. LockInv'
    BY <2>0, <2>1 DEF IInv, LockInv, Interrupted
  <2>7. JoinInv'
    BY <2>0, <2>1 DEF IInv, JoinInv, JoinWakesOnZombie, WaitInv, Interrupted, jvars
  <2>8. ActiveCountExact'
    BY <2>0, <2>1, AliveKept DEF IInv, jvars
  <2> QED BY <2>1, <2>2, <2>3, <2>4, <2>5, <2>6, <2>7, <2>8 DEF IInv
<1> QED BY <1>1, <1>2 DEF st_cond_timedwait

(* Taking a free mutex: the part that st_mutex_lock and st_mutex_trylock share. *)
LEMMA AcquireStep ==
    ASSUME IInv, NEW t \in Threads, NEW m \in Mutexes, m \in objs, cur = t, pc[t] = "run",
           Acquire(t, m), UNCHANGED <<tvars, jvars, objs, waitq, signalled, iovars>>
    PROVE  IInv'
<1> USE SchedAssumption
<1>1. /\ UNCHANGED <<state, flags, pc, wobj, runq, cur>>
      /\ owner' \in [Mutexes -> Threads \cup {NULL}] /\ holds' \in SUBSET (Threads \X Mutexes)
      /\ owner[m] = NULL /\ owner'[m] = t
      /\ \A n \in Mutexes : n # m => owner'[n] = owner[n]
      /\ holds' = holds \cup {<<t, m>>}
  BY DEF IInv, TypeOK, Acquire, tvars
<1>2. TypeOK'
  BY <1>1 DEF IInv, TypeOK, ThreadTypeOK, jvars, iovars
<1>3. RunQExact' /\ CurInv' /\ PlaceInv' /\ WaitInv' /\ FlagInv' /\ IoInv'
  BY <1>1 DEF IInv, RunQExact, CurInv, PlaceInv, WaitInv, FlagInv, IoInv, Woken, Waits,
              Interrupted, iovars
<1>4. LockInv'
  <2>1. \A x \in Threads, n \in Mutexes : <<x, n>> \in holds' => owner'[n] = x
    BY <1>1 DEF IInv, LockInv
  <2>2. \A x \in Threads : pc[x] = "lock" /\ wobj[x] = m => Interrupted(x)
    BY <1>1 DEF IInv, LockInv
  <2>3. \A x \in Threads : pc[x] = "lock" => wobj[x] \in Mutexes
    BY DEF IInv, WaitInv
  <2>4. \A x \in Threads : pc[x] = "lock" =>
            IF state[x] = "LOCK_WAIT" THEN owner'[wobj[x]] # NULL
            ELSE owner'[wobj[x]] = x \/ Interrupted(x)
    BY <1>1, <2>2, <2>3 DEF IInv, LockInv
  <2>5. \A n \in Mutexes \ objs : owner'[n] = NULL
    BY <1>1 DEF IInv, LockInv
  <2> QED BY <1>1, <2>1, <2>4, <2>5 DEF LockInv, Interrupted
<1>5. JoinInv'
  BY <1>1 DEF IInv, JoinInv, JoinWakesOnZombie, Interrupted, jvars
<1>6. ActiveCountExact'
  BY <1>1 DEF IInv, ActiveCountExact, Alive, jvars
<1> QED BY <1>2, <1>3, <1>4, <1>5, <1>6 DEF IInv

(* st_mutex_lock *)
LEMMA LockStep ==
    ASSUME IInv, NEW t \in Threads, NEW m \in Mutexes, st_mutex_lock(t, m)
    PROVE  IInv'
<1> USE SchedAssumption
<1>1. CASE ReturnEINTR(t) /\ UNCHANGED <<waitq, owner, holds>>
  BY <1>1, EintrStep DEF st_mutex_lock, jvars, svars
<1>2. CASE Acquire(t, m) /\ UNCHANGED <<tvars, waitq>>
  BY <1>2, AcquireStep DEF st_mutex_lock, Running
<1>3. CASE /\ owner[m] \notin {NULL, t}
           /\ Block(t, "LOCK_WAIT", "lock", {}, m)
           /\ waitq' = [waitq EXCEPT ![m] = Append(@, t)]
           /\ UNCHANGED <<owner, holds>>
  <2>0. /\ cur = t /\ pc[t] = "run" /\ m \in objs /\ m \in Objects
        /\ UNCHANGED <<jvars, objs, owner, holds, signalled, iovars>>
        /\ <<"LOCK_WAIT", "lock">> \in BlockPlaces
        /\ {} \in SUBSET {"ON_SLEEPQ"}
    BY <1>3 DEF st_mutex_lock, Running, BlockPlaces, Objects
  <2>1. /\ ThreadTypeOK'
        /\ state[t] = "RUNNING" /\ state'[t] = "LOCK_WAIT" /\ pc'[t] = "lock"
        /\ wobj'[t] = m /\ flags'[t] = flags[t] \cup {}
        /\ \A x \in Threads : x # t =>
               /\ state'[x] = state[x] /\ pc'[x] = pc[x]
               /\ wobj'[x] = wobj[x] /\ flags'[x] = flags[x]
        /\ RunQExact' /\ CurInv' /\ PlaceInv' /\ AliveSet' = AliveSet
    BY <1>3, <2>0, BlockCore
  <2>2. WaitInv' /\ waitq' \in [Objects -> Seq(Threads)]
    BY <1>3, <2>0, <2>1, LinkCore DEF Waits
  <2>3. TypeOK'
    BY <2>0, <2>1, <2>2 DEF IInv, TypeOK, jvars, iovars
  <2>4. FlagInv'
    BY <2>0, <2>1 DEF IInv, FlagInv, PlaceInv, Woken
  <2>5. IoInv'
    BY <2>0, <2>1 DEF IInv, IoInv, Interrupted, iovars
  <2>6. LockInv'
    BY <1>3, <2>0, <2>1 DEF IInv, LockInv, Interrupted
  <2>7. JoinInv'
    BY <2>0, <2>1 DEF IInv, JoinInv, JoinWakesOnZombie, WaitInv, Interrupted, jvars
  <2>8. ActiveCountExact'
    BY <2>0, <2>1, AliveKept DEF IInv, jvars
  <2> QED BY <2>1, <2>2, <2>3, <2>4, <2>5, <2>6, <2>7, <2>8 DEF IInv
<1> QED BY <1>1, <1>2, <1>3 DEF st_mutex_lock

(* One round of _st_cond_signal: the waiter it picks is blocked in st_cond_timedwait. *)
LEMMA SignalStep ==
    ASSUME IInv, NEW c \in Conds, _st_cond_signal(c),
           UNCHANGED <<pc, wobj, cur, jvars, objs, waitq, owner, holds, iovars>>
    PROVE  IInv'
<1> USE SchedAssumption
<1>1. PICK i \in DOMAIN waitq[c] :
          /\ IsFirst(i, Waiting(waitq[c], "COND_WAIT"))
          /\ MakeRunnable(waitq[c][i], {})
          /\ signalled' = signalled \cup {waitq[c][i]}
  BY DEF _st_cond_signal
<1> DEFINE x == waitq[c][i]
<1>2. /\ x \in Range(waitq[c])
      /\ x \in Threads
      /\ c \in Objects
  BY DEF IInv, TypeOK, Objects, Range
<1>3. state[x] = "COND_WAIT" /\ pc[x] = "cond" /\ wobj[x] = c
  <2>1. state[x] = "COND_WAIT"
    BY <1>1 DEF IsFirst, Waiting
  <2>2. wobj[x] = c /\ Waits(x)
    BY <1>2 DEF IInv, WaitInv
  <2> QED BY <1>2, <2>1, <2>2 DEF IInv, WaitInv, Waits, PlaceInv, Woken
<1> HIDE DEF x
<1>4. /\ state' = [state EXCEPT ![x] = "RUNNABLE"]
      /\ runq' = Append(runq, x)
      /\ flags' = [flags EXCEPT ![x] = (@ \ {"ON_SLEEPQ"}) \cup {}]
      /\ signalled' = signalled \cup {x}
  BY <1>1 DEF MakeRunnable, x
<1>5. /\ state' \in [Threads -> States] /\ runq' \in Seq(Threads)
      /\ state'[x] = "RUNNABLE"
      /\ \A y \in Threads : y # x => state'[y] = state[y]
      /\ RunQExact' /\ CurInv' /\ PlaceInv' /\ AliveSet' = AliveSet
  BY <1>2, <1>3, <1>4, WakeCore DEF Blocked
<1>6. /\ flags' \in [Threads -> SUBSET Flags]
      /\ flags'[x] = flags[x] \ {"ON_SLEEPQ"}
      /\ \A y \in Threads : y # x => flags'[y] = flags[y]
  BY <1>2, <1>4 DEF IInv, TypeOK, ThreadTypeOK
<1>7. TypeOK'
  BY <1>2, <1>4, <1>5, <1>6 DEF IInv, TypeOK, ThreadTypeOK, jvars, iovars
<1>8. WaitInv'
  BY DEF IInv, WaitInv, Waits
<1>9. FlagInv'
  BY <1>2, <1>3, <1>4, <1>5, <1>6 DEF IInv, FlagInv, Woken
<1>10. IoInv'
  BY <1>2, <1>3, <1>5, <1>6 DEF IInv, IoInv, Interrupted, iovars
<1>11. LockInv'
  BY <1>2, <1>3, <1>5, <1>6 DEF IInv, LockInv, Interrupted
<1>12. JoinInv'
  BY <1>2, <1>3, <1>5, <1>6 DEF IInv, JoinInv, JoinWakesOnZombie, WaitInv, Interrupted, jvars
<1>13. ActiveCountExact'
  BY <1>5, AliveKept DEF IInv, jvars
<1> QED BY <1>5, <1>7, <1>8, <1>9, <1>10, <1>11, <1>12, <1>13 DEF IInv

(* st_cond_broadcast *)
LEMMA BroadcastStep ==
    ASSUME IInv, NEW t \in Threads, NEW c \in Conds, st_cond_broadcast(t, c)
    PROVE  IInv'
<1> USE SchedAssumption
<1>0. state[t] = "RUNNING" /\ pc[t] = "run"
  BY DEF IInv, CurInv, st_cond_broadcast, Running
<1>1. /\ UNCHANGED <<state, flags, runq, cur, jvars, svars, iovars>>
      /\ pc' \in [Threads -> PCs] /\ wobj' \in [Threads -> Objects \cup {NULL}]
      /\ pc'[t] = "bcast" /\ wobj'[t] = c
      /\ \A x \in Threads : x # t => pc'[x] = pc[x] /\ wobj'[x] = wobj[x]
  BY DEF IInv, TypeOK, ThreadTypeOK, st_cond_broadcast, PCs, Objects
<1>2. TypeOK'
  BY <1>1 DEF IInv, TypeOK, ThreadTypeOK, jvars, svars, iovars
<1>3. RunQExact' /\ CurInv'
  BY <1>1 DEF IInv, RunQExact, CurInv
<1>4. PlaceInv'
  BY <1>0, <1>1 DEF IInv, PlaceInv, Woken
<1>5. WaitInv'
  BY <1>0, <1>1 DEF IInv, WaitInv, Waits, svars
<1>6. FlagInv'
  BY <1>0, <1>1 DEF IInv, FlagInv, Woken, svars
<1>7. IoInv'
  BY <1>0, <1>1 DEF IInv, IoInv, Interrupted, iovars
<1>8. LockInv'
  BY <1>0, <1>1 DEF IInv, LockInv, Interrupted, svars
<1>9. JoinInv'
  BY <1>0, <1>1 DEF IInv, JoinInv, JoinWakesOnZombie, Interrupted, jvars, svars
<1>10. ActiveCountExact'
  <2>1. AliveSet' = AliveSet
    BY <1>0, <1>1 DEF AliveSet, Alive
  <2> QED BY <1>1, <2>1, AliveKept DEF IInv, jvars
<1> QED BY <1>2, <1>3, <1>4, <1>5, <1>6, <1>7, <1>8, <1>9, <1>10 DEF IInv

(* An empty queue. *)
LEMMA EmptyRange == Range(<<>>) = {} /\ IsInjective(<<>>)
  BY DEF Range, IsInjective

(* The return of st_usleep, of _st_wait and of a broadcast. *)
LEMMA PlainReturnStep ==
    ASSUME IInv, NEW t \in Threads, cur = t, pc[t] \in {"usleep", "io", "bcast"},
           NEW cl \in {{}, {"INTERRUPT"}}, Return(t, cl),
           UNCHANGED <<state, runq, cur, jvars, svars, iovars>>
    PROVE  IInv'
<1> USE SchedAssumption
<1>1. cl \in SUBSET Flags
  BY DEF Flags
<1>2. /\ ThreadTypeOK'
      /\ state[t] = "RUNNING"
      /\ pc'[t] = "run" /\ wobj'[t] = NULL /\ flags'[t] = flags[t] \ cl
      /\ \A x \in Threads : x # t =>
             pc'[x] = pc[x] /\ wobj'[x] = wobj[x] /\ flags'[x] = flags[x]
      /\ RunQExact' /\ CurInv' /\ PlaceInv' /\ AliveSet' = AliveSet
  BY <1>1, ReturnCore
<1>3. TypeOK'
  BY <1>2 DEF IInv, TypeOK, jvars, svars, iovars
<1>4. WaitInv'
  BY <1>2, NullNotObject DEF IInv, WaitInv, Waits, svars
<1>5. FlagInv'
  BY <1>2 DEF IInv, FlagInv, Woken, svars
<1>6. IoInv'
  BY <1>2 DEF IInv, IoInv, Interrupted, iovars
<1>7. LockInv'
  BY <1>2 DEF IInv, LockInv, Interrupted, svars
<1>8. JoinInv'
  BY <1>2 DEF IInv, JoinInv, JoinWakesOnZombie, Interrupted, jvars, svars
<1>9. ActiveCountExact'
  BY <1>2, AliveKept DEF IInv, jvars
<1> QED BY <1>2, <1>3, <1>4, <1>5, <1>6, <1>7, <1>8, <1>9 DEF IInv

(* The rounds of a broadcast. *)
LEMMA BroadcastNextStep ==
    ASSUME IInv, NEW t \in Threads, BroadcastNext(t)
    PROVE  IInv'
<1>1. cur = t /\ pc[t] = "bcast" /\ wobj[t] \in Conds
  BY DEF IInv, WaitInv, BroadcastNext
<1>2. CASE _st_cond_signal(wobj[t]) /\ UNCHANGED <<pc, wobj>>
  BY <1>1, <1>2, SignalStep DEF BroadcastNext
<1>3. CASE Return(t, {}) /\ UNCHANGED <<state, runq, signalled>>
  BY <1>1, <1>3, PlainReturnStep DEF BroadcastNext, svars
<1> QED BY <1>2, <1>3 DEF BroadcastNext

(* _st_wait: its caller does I/O, so it is not interrupted and does block. *)
LEMMA WaitStep ==
    ASSUME IInv, NEW t \in Threads, _st_wait(t)
    PROVE  IInv'
<1> USE SchedAssumption
<1>0. /\ cur = t /\ pc[t] = "post" /\ UNCHANGED <<jvars, svars, iovars>>
      /\ <<"IO_WAIT", "io">> \in BlockPlaces
      /\ {} \in SUBSET {"ON_SLEEPQ"}
  BY DEF _st_wait, BlockPlaces
<1>1. t \in IoThreads /\ ~Interrupted(t)
  <2>1. t \in pending \cup Range(doneq)
    BY <1>0 DEF IInv, IoInv
  <2>2. t \in IoThreads
    BY <2>1 DEF IInv, TypeOK, Range
  <2> QED BY <2>2 DEF IInv, IoInv
<1>2. Block(t, "IO_WAIT", "io", {}, NULL)
  BY <1>1 DEF _st_wait
<1>3. /\ ThreadTypeOK'
      /\ state[t] = "RUNNING" /\ state'[t] = "IO_WAIT" /\ pc'[t] = "io"
      /\ wobj'[t] = NULL /\ flags'[t] = flags[t] \cup {}
      /\ \A x \in Threads : x # t =>
             /\ state'[x] = state[x] /\ pc'[x] = pc[x]
             /\ wobj'[x] = wobj[x] /\ flags'[x] = flags[x]
      /\ RunQExact' /\ CurInv' /\ PlaceInv' /\ AliveSet' = AliveSet
  BY <1>0, <1>2, BlockCore
<1>4. TypeOK'
  BY <1>0, <1>3 DEF IInv, TypeOK, jvars, svars, iovars
<1>5. WaitInv'
  BY <1>0, <1>3, NullNotObject DEF IInv, WaitInv, Waits, svars
<1>6. FlagInv'
  BY <1>0, <1>3 DEF IInv, FlagInv, Woken, svars
<1>7. IoInv'
  BY <1>0, <1>3 DEF IInv, IoInv, Interrupted, iovars
<1>8. LockInv'
  BY <1>0, <1>3 DEF IInv, LockInv, Interrupted, svars
<1>9. JoinInv'
  BY <1>0, <1>3 DEF IInv, JoinInv, JoinWakesOnZombie, WaitInv, Interrupted, jvars, svars
<1>10. ActiveCountExact'
  BY <1>0, <1>3, AliveKept DEF IInv, jvars
<1> QED BY <1>3, <1>4, <1>5, <1>6, <1>7, <1>8, <1>9, <1>10 DEF IInv

(* The return of st_cond_timedwait. *)
LEMMA ResumeCondStep ==
    ASSUME IInv, NEW t \in Threads, ResumeCond(t)
    PROVE  IInv'
<1> USE SchedAssumption
<1> DEFINE cl == {"TIMEDOUT", "INTERRUPT"}
<1>1. /\ cur = t /\ pc[t] = "cond" /\ cl \in SUBSET Flags
      /\ waitq' = [waitq EXCEPT ![wobj[t]] = Unlink(@, t)]
      /\ Return(t, cl)
      /\ signalled' = signalled \ {t}
      /\ UNCHANGED <<state, runq, cur, jvars, objs, owner, holds, iovars>>
  BY DEF ResumeCond, Flags
<1>2. /\ ThreadTypeOK'
      /\ state[t] = "RUNNING"
      /\ pc'[t] = "run" /\ wobj'[t] = NULL /\ flags'[t] = flags[t] \ cl
      /\ \A x \in Threads : x # t =>
             pc'[x] = pc[x] /\ wobj'[x] = wobj[x] /\ flags'[x] = flags[x]
      /\ RunQExact' /\ CurInv' /\ PlaceInv' /\ AliveSet' = AliveSet
  BY <1>1, ReturnCore
<1>3. WaitInv' /\ waitq' \in [Objects -> Seq(Threads)]
  BY <1>1, <1>2, UnlinkCore DEF Waits
<1>4. TypeOK'
  BY <1>1, <1>2, <1>3 DEF IInv, TypeOK, jvars, iovars
<1>5. FlagInv'
  BY <1>1, <1>2 DEF IInv, FlagInv, Woken
<1>6. IoInv'
  BY <1>1, <1>2 DEF IInv, IoInv, Interrupted, iovars
<1>7. LockInv'
  BY <1>1, <1>2 DEF IInv, LockInv, Interrupted
<1>8. JoinInv'
  BY <1>1, <1>2 DEF IInv, JoinInv, JoinWakesOnZombie, Interrupted, jvars
<1>9. ActiveCountExact'
  BY <1>1, <1>2, AliveKept DEF IInv, jvars
<1> QED BY <1>2, <1>3, <1>4, <1>5, <1>6, <1>7, <1>8, <1>9 DEF IInv

(* The return of st_mutex_lock: a caller that was not interrupted owns the mutex. *)
LEMMA ResumeLockStep ==
    ASSUME IInv, NEW t \in Threads, ResumeLock(t)
    PROVE  IInv'
<1> USE SchedAssumption
<1>1. PICK cl \in {{}, {"INTERRUPT"}} :
          /\ cur = t /\ pc[t] = "lock" /\ wobj[t] \in Mutexes
          /\ waitq' = [waitq EXCEPT ![wobj[t]] = Unlink(@, t)]
          /\ Return(t, cl)
          /\ holds' \in {holds, holds \cup {<<t, wobj[t]>>}}
          /\ holds' # holds => owner[wobj[t]] = t
          /\ UNCHANGED <<state, runq, cur, jvars, objs, owner, signalled, iovars>>
  <2>1. cur = t /\ pc[t] = "lock" /\ wobj[t] \in Mutexes
    BY DEF IInv, WaitInv, ResumeLock
  <2>2. owner[wobj[t]] = t \/ Interrupted(t)
    BY <2>1 DEF IInv, LockInv, CurInv
  <2> QED BY <2>1, <2>2 DEF ResumeLock
<1>2. cl \in SUBSET Flags
  BY DEF Flags
<1>3. /\ ThreadTypeOK'
      /\ state[t] = "RUNNING"
      /\ pc'[t] = "run" /\ wobj'[t] = NULL /\ flags'[t] = flags[t] \ cl
      /\ \A x \in Threads : x # t =>
             pc'[x] = pc[x] /\ wobj'[x] = wobj[x] /\ flags'[x] = flags[x]
      /\ RunQExact' /\ CurInv' /\ PlaceInv' /\ AliveSet' = AliveSet
  BY <1>1, <1>2, ReturnCore
<1>4. WaitInv' /\ waitq' \in [Objects -> Seq(Threads)]
  BY <1>1, <1>3, UnlinkCore DEF Waits
<1>5. TypeOK'
  BY <1>1, <1>3, <1>4 DEF IInv, TypeOK, jvars, iovars
<1>6. FlagInv'
  BY <1>1, <1>3 DEF IInv, FlagInv, Woken
<1>7. IoInv'
  BY <1>1, <1>3 DEF IInv, IoInv, Interrupted, iovars
<1>8. LockInv'
  BY <1>1, <1>3 DEF IInv, LockInv, Interrupted
<1>9. JoinInv'
  BY <1>1, <1>3 DEF IInv, JoinInv, JoinWakesOnZombie, Interrupted, jvars
<1>10. ActiveCountExact'
  BY <1>1, <1>3, AliveKept DEF IInv, jvars
<1> QED BY <1>3, <1>4, <1>5, <1>6, <1>7, <1>8, <1>9, <1>10 DEF IInv

(* st_mutex_unlock: the waiters it skips have been interrupted. *)
LEMMA UnlockStep ==
    ASSUME IInv, NEW t \in Threads, NEW m \in Mutexes, st_mutex_unlock(t, m)
    PROVE  IInv'
<1> USE SchedAssumption
<1>1. /\ cur = t /\ pc[t] = "run" /\ m \in objs /\ owner[m] = t /\ m \in Objects
      /\ holds' = holds \ {<<t, m>>}
      /\ UNCHANGED <<flags, pc, wobj, cur, jvars, objs, waitq, signalled, iovars>>
  BY DEF st_mutex_unlock, Running, Objects
<1>2. \A x \in Threads, n \in Mutexes : <<x, n>> \in holds' => n # m /\ owner[n] = x
  BY <1>1 DEF IInv, LockInv
<1>3. \A x \in Threads : pc[x] = "lock" => wobj[x] \in Mutexes
  BY DEF IInv, WaitInv
<1>4. \A x \in Threads : pc[x] = "lock" /\ wobj[x] = m /\ state[x] # "LOCK_WAIT" => Interrupted(x)
  BY <1>1 DEF IInv, LockInv
<1>5. CASE \E i \in DOMAIN waitq[m] :
             /\ IsFirst(i, Waiting(waitq[m], "LOCK_WAIT"))
             /\ owner' = [owner EXCEPT ![m] = waitq[m][i]]
             /\ state' = [state EXCEPT ![waitq[m][i]] = "RUNNABLE"]
             /\ runq' = Append(runq, waitq[m][i])
  <2>1. PICK i \in DOMAIN waitq[m] :
             /\ IsFirst(i, Waiting(waitq[m], "LOCK_WAIT"))
             /\ owner' = [owner EXCEPT ![m] = waitq[m][i]]
             /\ state' = [state EXCEPT ![waitq[m][i]] = "RUNNABLE"]
             /\ runq' = Append(runq, waitq[m][i])
    BY <1>5
  <2> DEFINE x == waitq[m][i]
  <2>2. x \in Range(waitq[m]) /\ x \in Threads
    BY <1>1 DEF IInv, TypeOK, Range
  <2>3. state[x] = "LOCK_WAIT" /\ pc[x] = "lock" /\ wobj[x] = m
    <3>1. state[x] = "LOCK_WAIT"
      BY <2>1 DEF IsFirst, Waiting
    <3>2. wobj[x] = m /\ Waits(x)
      BY <1>1, <2>2 DEF IInv, WaitInv
    <3> QED BY <2>2, <3>1, <3>2 DEF IInv, Waits, PlaceInv, Woken
  <2> HIDE DEF x
  <2>4. /\ owner' = [owner EXCEPT ![m] = x]
        /\ state' = [state EXCEPT ![x] = "RUNNABLE"]
        /\ runq' = Append(runq, x)
    BY <2>1 DEF x
  <2>5. /\ state' \in [Threads -> States] /\ runq' \in Seq(Threads)
        /\ state'[x] = "RUNNABLE"
        /\ \A y \in Threads : y # x => state'[y] = state[y]
        /\ RunQExact' /\ CurInv' /\ PlaceInv' /\ AliveSet' = AliveSet
    BY <1>1, <2>2, <2>3, <2>4, WakeCore DEF Blocked
  <2>6. /\ owner' \in [Mutexes -> Threads \cup {NULL}]
        /\ owner'[m] = x
        /\ \A n \in Mutexes : n # m => owner'[n] = owner[n]
    BY <2>2, <2>4 DEF IInv, TypeOK
  <2>7. TypeOK'
    BY <1>1, <2>5, <2>6 DEF IInv, TypeOK, ThreadTypeOK, jvars, iovars
  <2>8. WaitInv'
    BY <1>1 DEF IInv, WaitInv, Waits
  <2>9. FlagInv'
    BY <1>1, <2>2, <2>3, <2>5 DEF IInv, FlagInv, Woken
  <2>10. IoInv'
    BY <1>1, <2>2, <2>3, <2>5 DEF IInv, IoInv, Interrupted, iovars
  <2>11. LockInv'
    BY <1>1, <1>2, <1>3, <1>4, <2>2, <2>3, <2>5, <2>6 DEF IInv, LockInv, Interrupted
  <2>12. JoinInv'
    BY <1>1, <2>2, <2>3, <2>5 DEF IInv, JoinInv, JoinWakesOnZombie, WaitInv, Interrupted, jvars
  <2>13. ActiveCountExact'
    BY <1>1, <2>5, AliveKept DEF IInv, jvars
  <2> QED BY <2>5, <2>7, <2>8, <2>9, <2>10, <2>11, <2>12, <2>13 DEF IInv
<1>6. CASE /\ Waiting(waitq[m], "LOCK_WAIT") = {}
           /\ owner' = [owner EXCEPT ![m] = NULL]
           /\ UNCHANGED <<state, runq>>
  <2>1. \A x \in Threads : pc[x] = "lock" /\ wobj[x] = m => state[x] # "LOCK_WAIT"
    <3>1. \A x \in Range(waitq[m]) : state[x] # "LOCK_WAIT"
      BY <1>6 DEF Waiting, Range
    <3> QED BY <1>1, <3>1 DEF IInv, WaitInv, Waits
  <2>2. /\ owner' \in [Mutexes -> Threads \cup {NULL}]
        /\ owner'[m] = NULL
        /\ \A n \in Mutexes : n # m => owner'[n] = owner[n]
    BY <1>6 DEF IInv, TypeOK
  <2>3. TypeOK'
    BY <1>1, <1>6, <2>2 DEF IInv, TypeOK, ThreadTypeOK, jvars, iovars
  <2>4. RunQExact' /\ CurInv' /\ PlaceInv' /\ WaitInv' /\ FlagInv' /\ IoInv'
    BY <1>1, <1>6 DEF IInv, RunQExact, CurInv, PlaceInv, WaitInv, FlagInv, IoInv, Woken,
                      Waits, Interrupted, iovars
  <2>5. LockInv'
    BY <1>1, <1>2, <1>3, <1>4, <1>6, <2>1, <2>2 DEF IInv, LockInv, Interrupted
  <2>6. JoinInv'
    BY <1>1, <1>6 DEF IInv, JoinInv, JoinWakesOnZombie, Interrupted, jvars
  <2>7. ActiveCountExact'
    BY <1>1, <1>6 DEF IInv, ActiveCountExact, Alive, jvars
  <2> QED BY <2>3, <2>4, <2>5, <2>6, <2>7 DEF IInv
<1> QED BY <1>5, <1>6 DEF st_mutex_unlock

(* st_thread_interrupt of a thread that does no I/O. *)
LEMMA InterruptStep ==
    ASSUME IInv, NoIoInterrupts, NEW t \in Threads, NEW x \in Threads, st_thread_interrupt(t, x)
    PROVE  IInv'
<1> USE SchedAssumption
<1>1. /\ x \notin IoThreads
      /\ cur = t /\ pc[t] = "run" /\ state[x] \notin {"UNUSED", "FREED", "ZOMBIE"}
      /\ UNCHANGED <<pc, wobj, cur, jvars, svars, iovars>>
  BY DEF st_thread_interrupt, Running, NoIoInterrupts
<1>2. CASE UNCHANGED <<state, runq>> /\ flags' = [flags EXCEPT ![x] = @ \cup {"INTERRUPT"}]
  <2>1. /\ flags' \in [Threads -> SUBSET Flags]
        /\ flags'[x] = flags[x] \cup {"INTERRUPT"}
        /\ \A y \in Threads : y # x => flags'[y] = flags[y]
    BY <1>2 DEF IInv, TypeOK, ThreadTypeOK, Flags
  <2>2. TypeOK'
    BY <1>1, <1>2, <2>1 DEF IInv, TypeOK, ThreadTypeOK, jvars, svars, iovars
  <2>3. RunQExact' /\ CurInv' /\ PlaceInv' /\ WaitInv'
    BY <1>1, <1>2 DEF IInv, RunQExact, CurInv, PlaceInv, WaitInv, Woken, Waits, svars
  <2>4. FlagInv'
    BY <1>1, <1>2, <2>1 DEF IInv, FlagInv, Woken, svars
  <2>5. IoInv'
    BY <1>1, <1>2, <2>1 DEF IInv, IoInv, Interrupted, iovars
  <2>6. LockInv'
    BY <1>1, <1>2, <2>1 DEF IInv, LockInv, Interrupted, svars
  <2>7. JoinInv'
    BY <1>1, <1>2, <2>1 DEF IInv, JoinInv, JoinWakesOnZombie, Interrupted, jvars, svars
  <2>8. ActiveCountExact'
    BY <1>1, <1>2 DEF IInv, ActiveCountExact, Alive, jvars
  <2> QED BY <2>2, <2>3, <2>4, <2>5, <2>6, <2>7, <2>8 DEF IInv
<1>3. CASE state[x] \notin {"RUNNING", "RUNNABLE"} /\ MakeRunnable(x, {"INTERRUPT"})
  <2>0. /\ state[x] \in Blocked
        /\ state' = [state EXCEPT ![x] = "RUNNABLE"]
        /\ runq' = Append(runq, x)
        /\ flags' = [flags EXCEPT ![x] = (@ \ {"ON_SLEEPQ"}) \cup {"INTERRUPT"}]
    BY <1>1, <1>3 DEF MakeRunnable, Blocked, IInv, TypeOK, ThreadTypeOK, States
  <2>1. /\ flags' \in [Threads -> SUBSET Flags]
        /\ flags'[x] = (flags[x] \ {"ON_SLEEPQ"}) \cup {"INTERRUPT"}
        /\ \A y \in Threads : y # x => flags'[y] = flags[y]
    BY <2>0 DEF IInv, TypeOK, ThreadTypeOK, Flags
  <2>2. /\ state' \in [Threads -> States] /\ runq' \in Seq(Threads)
        /\ state'[x] = "RUNNABLE"
        /\ \A y \in Threads : y # x => state'[y] = state[y]
        /\ RunQExact' /\ CurInv' /\ PlaceInv' /\ AliveSet' = AliveSet
    BY <1>1, <2>0, WakeCore
  <2>3. TypeOK'
    BY <1>1, <2>1, <2>2 DEF IInv, TypeOK, ThreadTypeOK, jvars, svars, iovars
  <2>4. WaitInv'
    BY <1>1 DEF IInv, WaitInv, Waits, svars
  <2>5. FlagInv'
    BY <1>1, <2>0, <2>1, <2>2 DEF IInv, FlagInv, Woken, svars, Blocked
  <2>6. IoInv'
    <3>1. state[x] # "IO_WAIT"
      BY <1>1 DEF IInv, IoInv, TypeOK, Range
    <3> QED BY <1>1, <2>1, <2>2, <3>1 DEF IInv, IoInv, Interrupted, iovars
  <2>7. LockInv'
    BY <1>1, <2>1, <2>2 DEF IInv, LockInv, Interrupted, svars
  <2>8. JoinInv'
    BY <1>1, <2>0, <2>1, <2>2 DEF IInv, JoinInv, JoinWakesOnZombie, WaitInv, Interrupted,
                                  jvars, svars, Blocked
  <2>9. ActiveCountExact'
    BY <1>1, <2>2, AliveKept DEF IInv, jvars
  <2> QED BY <2>2, <2>3, <2>4, <2>5, <2>6, <2>7, <2>8, <2>9 DEF IInv
<1> QED BY <1>2, <1>3 DEF st_thread_interrupt

(* One expiry in _st_vp_check_clock. *)
LEMMA ClockExpireStep ==
    ASSUME IInv, NEW t \in Threads, ClockExpire(t)
    PROVE  IInv'
<1> USE SchedAssumption
<1> DEFINE fl == IF state[t] = "COND_WAIT" THEN {"TIMEDOUT"} ELSE {}
<1>1. /\ "ON_SLEEPQ" \in flags[t]
      /\ state' = [state EXCEPT ![t] = "RUNNABLE"]
      /\ runq' = Append(runq, t)
      /\ flags' = [flags EXCEPT ![t] = (@ \ {"ON_SLEEPQ"}) \cup fl]
      /\ UNCHANGED <<pc, wobj, cur, jvars, svars, iovars>>
  BY DEF ClockExpire, MakeRunnable
<1>2. state[t] = "SLEEPING" \/ (state[t] = "COND_WAIT" /\ pc[t] = "cond")
  BY <1>1 DEF IInv, FlagInv
<1>3. /\ fl \in SUBSET {"TIMEDOUT"}
      /\ fl # {} => state[t] = "COND_WAIT"
      /\ state[t] \in Blocked
  BY <1>2 DEF Blocked
<1> HIDE DEF fl
<1>4. /\ flags' \in [Threads -> SUBSET Flags]
      /\ flags'[t] = (flags[t] \ {"ON_SLEEPQ"}) \cup fl
      /\ \A y \in Threads : y # t => flags'[y] = flags[y]
  BY <1>1, <1>3 DEF IInv, TypeOK, ThreadTypeOK, Flags
<1>5. /\ state' \in [Threads -> States] /\ runq' \in Seq(Threads)
      /\ state'[t] = "RUNNABLE"
      /\ \A y \in Threads : y # t => state'[y] = state[y]
      /\ RunQExact' /\ CurInv' /\ PlaceInv' /\ AliveSet' = AliveSet
  BY <1>1, <1>3, WakeCore
<1>6. TypeOK'
  BY <1>1, <1>4, <1>5 DEF IInv, TypeOK, ThreadTypeOK, jvars, svars, iovars
<1>7. WaitInv'
  BY <1>1 DEF IInv, WaitInv, Waits, svars
<1>8. FlagInv'
  BY <1>1, <1>2, <1>3, <1>4, <1>5 DEF IInv, FlagInv, Woken, svars
<1>9. IoInv'
  BY <1>1, <1>2, <1>3, <1>4, <1>5 DEF IInv, IoInv, Interrupted, iovars
<1>10. LockInv'
  BY <1>1, <1>2, <1>3, <1>4, <1>5 DEF IInv, LockInv, PlaceInv, Woken, Interrupted, svars
<1>11. JoinInv'
  BY <1>1, <1>2, <1>3, <1>4, <1>5 DEF IInv, JoinInv, JoinWakesOnZombie, PlaceInv, Woken,
                                      WaitInv, Interrupted, jvars, svars
<1>12. ActiveCountExact'
  BY <1>1, <1>5, AliveKept DEF IInv, jvars
<1> QED BY <1>5, <1>6, <1>7, <1>8, <1>9, <1>10, <1>11, <1>12 DEF IInv

(* Steps that only change the event and the places of the producers and the idle thread. *)
LEMMA IdleVarsStep ==
    ASSUME IInv, UNCHANGED <<state, flags, pc, wobj, runq, cur, jvars, svars, pending, doneq>>,
           event' \in BOOLEAN, ppc' \in [Producers -> {"get", "set"}],
           ipc' \in {"loop", "drain", "reset", "clock", "exited"}
    PROVE  IInv'
<1>1. TypeOK'
  BY DEF IInv, TypeOK, ThreadTypeOK, jvars, svars
<1>2. RunQExact' /\ CurInv' /\ PlaceInv' /\ WaitInv' /\ FlagInv' /\ IoInv'
  BY DEF IInv, RunQExact, CurInv, PlaceInv, WaitInv, FlagInv, IoInv, Woken, Waits,
         Interrupted, svars
<1>3. LockInv' /\ JoinInv' /\ ActiveCountExact'
  BY DEF IInv, LockInv, JoinInv, JoinWakesOnZombie, ActiveCountExact, Alive, Interrupted,
         jvars, svars
<1> QED BY <1>1, <1>2, <1>3 DEF IInv

(* The idle thread takes a finished operation: its thread is blocked in _st_wait. *)
LEMMA IdleDrainStep ==
    ASSUME IInv, IdleDrain
    PROVE  IInv'
<1> USE SchedAssumption
<1>1. cur = Idle /\ UNCHANGED <<pc, wobj, cur, jvars, svars, pending, event, ppc>>
  BY DEF IdleDrain
<1>2. CASE /\ doneq # <<>>
           /\ doneq' = Tail(doneq)
           /\ MakeRunnable(Head(doneq), {})
           /\ UNCHANGED ipc
  <2> DEFINE x == Head(doneq)
  <2>1. /\ doneq' \in Seq(IoThreads)
        /\ x \in IoThreads /\ x \in Threads /\ x \in Range(doneq)
        /\ IsInjective(doneq')
        /\ Range(doneq') = Range(doneq) \ {x}
    BY <1>2, TailFacts DEF IInv, TypeOK, IoInv
  <2>2. state[x] = "IO_WAIT"
    BY <1>1, <2>1 DEF IInv, IoInv, PlaceInv, CurInv
  <2> HIDE DEF x
  <2>3. /\ state' = [state EXCEPT ![x] = "RUNNABLE"]
        /\ runq' = Append(runq, x)
        /\ flags' = [flags EXCEPT ![x] = (@ \ {"ON_SLEEPQ"}) \cup {}]
    BY <1>2 DEF MakeRunnable, x
  <2>4. /\ flags' \in [Threads -> SUBSET Flags]
        /\ flags'[x] = flags[x] \ {"ON_SLEEPQ"}
        /\ \A y \in Threads : y # x => flags'[y] = flags[y]
    BY <2>1, <2>3 DEF IInv, TypeOK, ThreadTypeOK
  <2>5. /\ state' \in [Threads -> States] /\ runq' \in Seq(Threads)
        /\ state'[x] = "RUNNABLE"
        /\ \A y \in Threads : y # x => state'[y] = state[y]
        /\ RunQExact' /\ CurInv' /\ PlaceInv' /\ AliveSet' = AliveSet
    BY <1>1, <2>1, <2>2, <2>3, WakeCore DEF Blocked
  <2>6. TypeOK'
    BY <1>1, <1>2, <2>1, <2>4, <2>5 DEF IInv, TypeOK, ThreadTypeOK, jvars, svars
  <2>7. WaitInv'
    BY <1>1 DEF IInv, WaitInv, Waits, svars
  <2>8. FlagInv'
    BY <1>1, <2>1, <2>2, <2>4, <2>5 DEF IInv, FlagInv, Woken, svars
  <2>9. IoInv'
    BY <1>1, <2>1, <2>2, <2>4, <2>5 DEF IInv, IoInv, PlaceInv, CurInv, Interrupted
  <2>10. LockInv'
    BY <1>1, <2>1, <2>2, <2>4, <2>5 DEF IInv, LockInv, PlaceInv, Woken, Interrupted, svars
  <2>11. JoinInv'
    BY <1>1, <2>1, <2>2, <2>4, <2>5 DEF IInv, JoinInv, JoinWakesOnZombie, PlaceInv, Woken,
                                        WaitInv, Interrupted, jvars, svars
  <2>12. ActiveCountExact'
    BY <1>1, <2>5, AliveKept DEF IInv, jvars
  <2> QED BY <2>5, <2>6, <2>7, <2>8, <2>9, <2>10, <2>11, <2>12 DEF IInv
<1>3. CASE ipc' = "reset" /\ UNCHANGED <<doneq, state, flags, runq>>
  <2>1. event' \in BOOLEAN /\ ppc' \in [Producers -> {"get", "set"}]
    BY <1>1 DEF IInv, TypeOK
  <2> QED BY <1>1, <1>3, <2>1, IdleVarsStep
<1> QED BY <1>2, <1>3 DEF IdleDrain

(* The steps of the idle thread. *)
LEMMA IdleStepStep ==
    ASSUME IInv, IdleStep
    PROVE  IInv'
<1> USE SchedAssumption
<1>0. event \in BOOLEAN /\ ppc \in [Producers -> {"get", "set"}]
  BY DEF IInv, TypeOK
<1>1. CASE IdleWait
  BY <1>0, <1>1, IdleVarsStep DEF IdleWait, tvars
<1>2. CASE IdleExit
  BY <1>0, <1>2, IdleVarsStep DEF IdleExit, tvars
<1>3. CASE IdleDrain
  BY <1>3, IdleDrainStep
<1>4. CASE IdleReset
  BY <1>0, <1>4, IdleVarsStep DEF IdleReset, tvars
<1>5. CASE ClockDone
  <2>1. /\ cur = Idle /\ cur' = NULL /\ ipc' = "loop"
        /\ UNCHANGED <<state, flags, pc, wobj, runq, jvars, svars, pending, doneq, event, ppc>>
    BY <1>5 DEF ClockDone
  <2>2. TypeOK'
    BY <1>0, <2>1 DEF IInv, TypeOK, ThreadTypeOK, jvars, svars
  <2>3. CurInv'
    BY <2>1 DEF IInv, CurInv
  <2>4. RunQExact' /\ PlaceInv' /\ WaitInv' /\ FlagInv' /\ IoInv'
    BY <2>1 DEF IInv, RunQExact, PlaceInv, WaitInv, FlagInv, IoInv, Woken, Waits,
                Interrupted, svars
  <2>5. LockInv' /\ JoinInv' /\ ActiveCountExact'
    BY <2>1 DEF IInv, LockInv, JoinInv, JoinWakesOnZombie, ActiveCountExact, Alive,
                Interrupted, jvars, svars
  <2> QED BY <2>2, <2>3, <2>4, <2>5 DEF IInv
<1> QED BY <1>1, <1>2, <1>3, <1>4, <1>5 DEF IdleStep

(* _st_vp_schedule *)
LEMMA ScheduleStep ==
    ASSUME IInv, _st_vp_schedule
    PROVE  IInv'
<1> USE SchedAssumption
<1>0. cur = NULL /\ UNCHANGED <<flags, pc, wobj, jvars, svars, iovars>>
  BY DEF _st_vp_schedule
<1>1. CASE /\ runq # <<>>
           /\ cur' = Head(runq)
           /\ runq' = Tail(runq)
           /\ state' = [state EXCEPT ![Head(runq)] = "RUNNING"]
  <2> DEFINE x == Head(runq)
  <2>1. /\ runq' \in Seq(Threads) /\ IsInjective(runq')
        /\ x \in Threads /\ x \in Range(runq)
        /\ Range(runq') = Range(runq) \ {x}
    BY <1>1, TailFacts DEF IInv, TypeOK, ThreadTypeOK, RunQExact
  <2>2. state[x] = "RUNNABLE"
    BY <2>1 DEF IInv, RunQExact
  <2>3. cur' = x /\ state' = [state EXCEPT ![x] = "RUNNING"]
    BY <1>1
  <2> HIDE DEF x
  <2>4. /\ state' \in [Threads -> States]
        /\ state'[x] = "RUNNING"
        /\ \A y \in Threads : y # x => state'[y] = state[y]
    BY <2>1, <2>3 DEF IInv, TypeOK, ThreadTypeOK, States
  <2>5. TypeOK'
    BY <1>0, <2>1, <2>3, <2>4 DEF IInv, TypeOK, ThreadTypeOK, jvars, svars, iovars
  <2>6. RunQExact'
    BY <2>1, <2>2, <2>4 DEF IInv, RunQExact
  <2>7. CurInv'
    BY <1>0, <2>1, <2>3, <2>4 DEF IInv, CurInv
  <2>8. PlaceInv'
    BY <1>0, <2>1, <2>2, <2>4 DEF IInv, PlaceInv, Woken
  <2>9. WaitInv'
    BY <1>0 DEF IInv, WaitInv, Waits, svars
  <2>10. FlagInv'
    BY <1>0, <2>1, <2>2, <2>4 DEF IInv, FlagInv, Woken, svars
  <2>11. IoInv'
    BY <1>0, <2>1, <2>2, <2>4 DEF IInv, IoInv, Interrupted, iovars
  <2>12. LockInv'
    BY <1>0, <2>1, <2>2, <2>4 DEF IInv, LockInv, Interrupted, svars
  <2>13. JoinInv'
    BY <1>0, <2>1, <2>2, <2>4 DEF IInv, JoinInv, JoinWakesOnZombie, WaitInv, Interrupted,
                                  jvars, svars
  <2>14. ActiveCountExact'
    <3>1. AliveSet' = AliveSet
      BY <1>0, <2>1, <2>2, <2>4 DEF AliveSet, Alive
    <3> QED BY <1>0, <3>1, AliveKept DEF IInv, jvars
  <2> QED BY <2>5, <2>6, <2>7, <2>8, <2>9, <2>10, <2>11, <2>12, <2>13, <2>14 DEF IInv
<1>2. CASE cur' = Idle /\ UNCHANGED <<state, runq>>
  <2>1. TypeOK'
    BY <1>0, <1>2 DEF IInv, TypeOK, ThreadTypeOK, jvars, svars, iovars
  <2>2. CurInv'
    BY <1>0, <1>2 DEF IInv, CurInv
  <2>3. RunQExact' /\ PlaceInv' /\ WaitInv' /\ FlagInv' /\ IoInv'
    BY <1>0, <1>2 DEF IInv, RunQExact, PlaceInv, WaitInv, FlagInv, IoInv, Woken, Waits,
                      Interrupted, svars, iovars
  <2>4. LockInv' /\ JoinInv' /\ ActiveCountExact'
    BY <1>0, <1>2 DEF IInv, LockInv, JoinInv, JoinWakesOnZombie, ActiveCountExact, Alive,
                      Interrupted, jvars, svars
  <2> QED BY <2>1, <2>2, <2>3, <2>4 DEF IInv
<1> QED BY <1>1, <1>2 DEF _st_vp_schedule

(* st_thread_create *)
LEMMA CreateStep ==
    ASSUME IInv, NEW t \in Threads, NEW x \in Threads, NEW joinable \in BOOLEAN,
           st_thread_create(t, x, joinable)
    PROVE  IInv'
<1> USE SchedAssumption
<1>1. /\ state[x] = "UNUSED" /\ cur = t
      /\ state' = [state EXCEPT ![x] = "RUNNABLE"]
      /\ runq' = Append(runq, x)
      /\ active' = active + 1
      /\ \/ term' = term /\ objs' = objs
         \/ term' = term \cup {x} /\ objs' = objs \cup {x}
      /\ UNCHANGED <<flags, pc, wobj, cur, waitq, owner, holds, signalled, iovars>>
  BY DEF st_thread_create, Running
<1>3. /\ state' \in [Threads -> States]
      /\ state'[x] = "RUNNABLE"
      /\ \A y \in Threads : y # x => state'[y] = state[y]
  BY <1>1 DEF IInv, TypeOK, ThreadTypeOK, States
<1>4. /\ runq' \in Seq(Threads)
      /\ Range(runq') = Range(runq) \cup {x}
      /\ IsInjective(runq')
  <2>1. runq \in Seq(Threads) /\ IsInjective(runq) /\ x \notin Range(runq)
    BY <1>1 DEF IInv, TypeOK, ThreadTypeOK, RunQExact
  <2> QED BY <1>1, <2>1, AppendFacts
<1>6. pc[x] = "run"
  BY <1>1 DEF IInv, PlaceInv, TypeOK, ThreadTypeOK, PCs, Woken
<1>7. /\ term' \in SUBSET Threads /\ objs' \in SUBSET Objects
      /\ objs \subseteq objs' /\ objs' \subseteq objs \cup {x}
      /\ \A y \in Threads : y \in term' => y \in term \/ (y = x /\ x \in objs')
  BY <1>1 DEF IInv, TypeOK, Objects
<1>8. TypeOK'
  BY <1>1, <1>3, <1>4, <1>7 DEF IInv, TypeOK, ThreadTypeOK, iovars
<1>9. RunQExact'
  BY <1>3, <1>4 DEF IInv, RunQExact
<1>10. CurInv'
  BY <1>1, <1>3 DEF IInv, CurInv
<1>11. PlaceInv'
  BY <1>1, <1>3, <1>6 DEF IInv, PlaceInv, Woken
<1>12. WaitInv'
  BY <1>1, <1>7 DEF IInv, WaitInv, Waits
<1>13. FlagInv'
  BY <1>1, <1>3 DEF IInv, FlagInv, Woken
<1>14. IoInv'
  BY <1>1, <1>3 DEF IInv, IoInv, Interrupted, iovars
<1>15. LockInv'
  BY <1>1, <1>3, <1>6, <1>7 DEF IInv, LockInv, Interrupted
<1>16. JoinInv'
  BY <1>1, <1>3, <1>6, <1>7 DEF IInv, JoinInv, JoinWakesOnZombie, WaitInv, Interrupted
<1>17. ActiveCountExact'
  <2>1. AliveSet' = AliveSet \cup {x} /\ x \notin AliveSet
    BY <1>1, <1>3, <1>6 DEF AliveSet, Alive
  <2>2. IsFiniteSet(AliveSet)
    BY FS_Subset DEF AliveSet
  <2>3. Cardinality(AliveSet') = Cardinality(AliveSet) + 1
    BY <2>1, <2>2, FS_AddElement
  <2> QED BY <1>1, <2>3 DEF IInv, ActiveCountExact, AliveSet
<1> QED BY <1>8, <1>9, <1>10, <1>11, <1>12, <1>13, <1>14, <1>15, <1>16, <1>17 DEF IInv

(* st_thread_exit up to its context switch *)
LEMMA ExitStep ==
    ASSUME IInv, NEW t \in Threads, st_thread_exit(t)
    PROVE  IInv'
<1> USE SchedAssumption
<1>1. /\ cur = t /\ pc[t] = "run" /\ active' = active - 1 /\ cur' = NULL
      /\ UNCHANGED <<wobj, term, objs, waitq, owner, holds, iovars>>
  BY DEF st_thread_exit, Running
<1>2. state[t] = "RUNNING"
  BY <1>1 DEF IInv, CurInv
<1>3. ASSUME AliveSet' = AliveSet \ {t}
      PROVE  active' \in Nat /\ ActiveCountExact'
  <2>1. t \in AliveSet /\ IsFiniteSet(AliveSet)
    BY <1>1, <1>2, FS_Subset DEF AliveSet, Alive
  <2>2. /\ Cardinality(AliveSet') = Cardinality(AliveSet) - 1
        /\ IsFiniteSet(AliveSet')
    BY <1>3, <2>1, FS_RemoveElement
  <2>3. Cardinality(AliveSet') \in Nat
    BY <2>2, FS_CardinalityType
  <2> QED BY <1>1, <2>2, <2>3 DEF IInv, ActiveCountExact, AliveSet
<1>4. CASE /\ t \notin term
           /\ state' = [state EXCEPT ![t] = "FREED"]
           /\ UNCHANGED <<flags, pc, runq, signalled>>
  <2>1. /\ state' \in [Threads -> States]
        /\ state'[t] = "FREED"
        /\ \A y \in Threads : y # t => state'[y] = state[y]
    BY <1>4 DEF IInv, TypeOK, ThreadTypeOK, States
  <2>2. active' \in Nat /\ ActiveCountExact'
    <3>1. AliveSet' = AliveSet \ {t}
      BY <1>4, <2>1 DEF AliveSet, Alive
    <3> QED BY <3>1, <1>3
  <2>3. TypeOK'
    BY <1>1, <1>4, <2>1, <2>2 DEF IInv, TypeOK, ThreadTypeOK, iovars
  <2>4. RunQExact' /\ CurInv'
    BY <1>1, <1>2, <1>4, <2>1 DEF IInv, RunQExact, CurInv
  <2>5. PlaceInv'
    BY <1>1, <1>2, <1>4, <2>1 DEF IInv, PlaceInv, Woken
  <2>6. WaitInv'
    BY <1>1, <1>4 DEF IInv, WaitInv, Waits
  <2>7. FlagInv'
    BY <1>1, <1>2, <1>4, <2>1 DEF IInv, FlagInv, Woken
  <2>8. IoInv'
    BY <1>1, <1>2, <1>4, <2>1 DEF IInv, IoInv, Interrupted, iovars
  <2>9. LockInv'
    BY <1>1, <1>2, <1>4, <2>1 DEF IInv, LockInv, Interrupted
  <2>10. JoinInv'
    BY <1>1, <1>2, <1>4, <2>1 DEF IInv, JoinInv, JoinWakesOnZombie, WaitInv, Interrupted
  <2> QED BY <2>2, <2>3, <2>4, <2>5, <2>6, <2>7, <2>8, <2>9, <2>10 DEF IInv
<1>5. CASE t \in term /\ pc' = [pc EXCEPT ![t] = "exit"]
  <2>0. t \in objs /\ t \in Objects
    BY <1>5 DEF IInv, JoinInv, Objects
  <2>1. /\ pc' \in [Threads -> PCs]
        /\ pc'[t] = "exit"
        /\ \A y \in Threads : y # t => pc'[y] = pc[y]
    BY <1>5 DEF IInv, TypeOK, ThreadTypeOK, PCs
  <2>2. WaitInv'
    BY <1>1, <2>1 DEF IInv, WaitInv, Waits
  <2>3. CASE \E i \in DOMAIN waitq[t] :
               LET x == waitq[t][i] IN
               /\ IsFirst(i, Waiting(waitq[t], "COND_WAIT"))
               /\ state' = [state EXCEPT ![t] = "ZOMBIE", ![x] = "RUNNABLE"]
               /\ flags' = [flags EXCEPT ![x] = @ \ {"ON_SLEEPQ"}]
               /\ runq' = Append(runq, x)
               /\ signalled' = signalled \cup {x}
    <3>1. PICK i \in DOMAIN waitq[t] :
               /\ IsFirst(i, Waiting(waitq[t], "COND_WAIT"))
               /\ state' = [state EXCEPT ![t] = "ZOMBIE", ![waitq[t][i]] = "RUNNABLE"]
               /\ flags' = [flags EXCEPT ![waitq[t][i]] = @ \ {"ON_SLEEPQ"}]
               /\ runq' = Append(runq, waitq[t][i])
               /\ signalled' = signalled \cup {waitq[t][i]}
      BY <2>3
    <3> DEFINE x == waitq[t][i]
    <3>2. x \in Range(waitq[t]) /\ x \in Threads
      BY <2>0 DEF IInv, TypeOK, Range
    <3>3. state[x] = "COND_WAIT" /\ pc[x] = "join" /\ wobj[x] = t /\ x # t
      <4>1. state[x] = "COND_WAIT"
        BY <3>1 DEF IsFirst, Waiting
      <4>2. wobj[x] = t /\ Waits(x)
        BY <2>0, <3>2 DEF IInv, WaitInv
      <4> QED BY <1>2, <3>2, <4>1, <4>2, SchedAssumption
              DEF IInv, WaitInv, Waits, PlaceInv, Woken
    <3> HIDE DEF x
    <3>4. /\ state' = [state EXCEPT ![t] = "ZOMBIE", ![x] = "RUNNABLE"]
          /\ flags' = [flags EXCEPT ![x] = @ \ {"ON_SLEEPQ"}]
          /\ runq' = Append(runq, x)
          /\ signalled' = signalled \cup {x}
      BY <3>1 DEF x
    <3>5. /\ state' \in [Threads -> States]
          /\ state'[t] = "ZOMBIE" /\ state'[x] = "RUNNABLE"
          /\ \A y \in Threads : y # t /\ y # x => state'[y] = state[y]
          /\ flags' \in [Threads -> SUBSET Flags]
          /\ flags'[x] = flags[x] \ {"ON_SLEEPQ"}
          /\ \A y \in Threads : y # x => flags'[y] = flags[y]
      BY <3>2, <3>3, <3>4 DEF IInv, TypeOK, ThreadTypeOK, States
    <3>6. /\ runq' \in Seq(Threads)
          /\ Range(runq') = Range(runq) \cup {x}
          /\ IsInjective(runq')
      <4>1. runq \in Seq(Threads) /\ IsInjective(runq) /\ x \notin Range(runq)
        BY <3>2, <3>3 DEF IInv, TypeOK, ThreadTypeOK, RunQExact
      <4> QED BY <3>2, <3>4, <4>1, AppendFacts
    <3>7. active' \in Nat /\ ActiveCountExact'
      <4>1. AliveSet' = AliveSet \ {t}
        BY <2>1, <3>3, <3>5 DEF AliveSet, Alive
      <4> QED BY <4>1, <1>3
    <3>8. TypeOK'
      BY <1>1, <2>1, <3>2, <3>4, <3>5, <3>6, <3>7 DEF IInv, TypeOK, ThreadTypeOK, iovars
    <3>9. RunQExact'
      BY <1>2, <3>2, <3>3, <3>5, <3>6 DEF IInv, RunQExact
    <3>10. CurInv'
      BY <1>1, <1>2, <3>2, <3>5 DEF IInv, CurInv
    <3>11. PlaceInv'
      BY <1>1, <1>2, <2>1, <3>2, <3>3, <3>5 DEF IInv, PlaceInv, Woken
    <3>12. FlagInv'
      BY <1>1, <1>2, <2>1, <3>2, <3>3, <3>4, <3>5 DEF IInv, FlagInv, Woken
    <3>13. IoInv'
      BY <1>1, <1>2, <2>1, <3>2, <3>3, <3>5 DEF IInv, IoInv, Interrupted, iovars
    <3>14. LockInv'
      BY <1>1, <1>2, <2>1, <3>2, <3>3, <3>5 DEF IInv, LockInv, Interrupted
    <3>15. JoinInv'
      BY <1>1, <1>2, <2>1, <3>2, <3>3, <3>5 DEF IInv, JoinInv, JoinWakesOnZombie, WaitInv,
                                                Interrupted
    <3> QED BY <2>2, <3>7, <3>8, <3>9, <3>10, <3>11, <3>12, <3>13, <3>14, <3>15 DEF IInv
  <2>4. CASE /\ Waiting(waitq[t], "COND_WAIT") = {}
             /\ state' = [state EXCEPT ![t] = "ZOMBIE"]
             /\ UNCHANGED <<flags, runq, signalled>>
    <3>1. \A x \in Threads : pc[x] = "join" /\ wobj[x] = t => state[x] # "COND_WAIT"
      <4>1. \A x \in Range(waitq[t]) : state[x] # "COND_WAIT"
        BY <2>4 DEF Waiting, Range
      <4> QED BY <2>0, <4>1 DEF IInv, WaitInv, Waits
    <3>2. /\ state' \in [Threads -> States]
          /\ state'[t] = "ZOMBIE"
          /\ \A y \in Threads : y # t => state'[y] = state[y]
      BY <2>4 DEF IInv, TypeOK, ThreadTypeOK, States
    <3>3. active' \in Nat /\ ActiveCountExact'
      <4>1. AliveSet' = AliveSet \ {t}
        BY <2>1, <3>2 DEF AliveSet, Alive
      <4> QED BY <4>1, <1>3
    <3>4. TypeOK'
      BY <1>1, <2>1, <2>4, <3>2, <3>3 DEF IInv, TypeOK, ThreadTypeOK, iovars
    <3>5. RunQExact' /\ CurInv'
      BY <1>1, <1>2, <2>4, <3>2 DEF IInv, RunQExact, CurInv
    <3>6. PlaceInv'
      BY <1>1, <1>2, <2>1, <3>2 DEF IInv, PlaceInv, Woken
    <3>7. FlagInv'
      BY <1>1, <1>2, <2>1, <2>4, <3>2 DEF IInv, FlagInv, Woken
    <3>8. IoInv'
      BY <1>1, <1>2, <2>1, <2>4, <3>2 DEF IInv, IoInv, Interrupted, iovars
    <3>9. LockInv'
      BY <1>1, <1>2, <2>1, <2>4, <3>2 DEF IInv, LockInv, Interrupted
    <3>10. JoinInv'
      BY <1>1, <1>2, <2>1, <2>4, <3>1, <3>2 DEF IInv, JoinInv, JoinWakesOnZombie, WaitInv,
                                                Interrupted
    <3> QED BY <2>2, <3>3, <3>4, <3>5, <3>6, <3>7, <3>8, <3>9, <3>10 DEF IInv
  <2> QED BY <1>5, <2>3, <2>4 DEF st_thread_exit
<1> QED BY <1>4, <1>5 DEF st_thread_exit

(* The cleanup of a joined zombie. *)
LEMMA ResumeExitStep ==
    ASSUME IInv, NEW t \in Threads, ResumeExit(t)
    PROVE  IInv'
<1> USE SchedAssumption
<1>1. /\ cur = t /\ pc[t] = "exit" /\ cur' = NULL
      /\ objs' = IF waitq[t] = <<>> THEN objs \ {t} ELSE objs
      /\ term' = term \ {t}
      /\ state' = [state EXCEPT ![t] = "FREED"]
      /\ UNCHANGED <<flags, pc, wobj, runq, active, waitq, owner, holds, signalled, iovars>>
  BY DEF ResumeExit
<1>2. state[t] = "RUNNING" /\ t \in Objects
  BY <1>1 DEF IInv, CurInv, Objects
<1>3. /\ state' \in [Threads -> States]
      /\ state'[t] = "FREED"
      /\ \A y \in Threads : y # t => state'[y] = state[y]
  BY <1>1 DEF IInv, TypeOK, ThreadTypeOK, States
<1>4. /\ objs' \subseteq objs
      /\ \A x \in Threads : Waits(x) => wobj[x] \in objs'
      /\ \A x \in Threads : x \in term' => x \in objs'
      /\ \A m \in Mutexes : m \notin objs' => m \notin objs
  <2>1. waitq[t] = <<>> => \A x \in Threads : Waits(x) => wobj[x] # t
    BY <1>2, EmptyRange DEF IInv, WaitInv
  <2>2. objs \ {t} \subseteq objs' /\ objs' \subseteq objs
    BY <1>1
  <2>3. t \notin objs' => waitq[t] = <<>> \/ t \notin objs
    BY <1>1
  <2>4. \A x \in Threads : Waits(x) => wobj[x] \in objs'
    BY <2>1, <2>2, <2>3 DEF IInv, WaitInv
  <2> QED BY <1>1, <2>2, <2>4 DEF IInv, JoinInv
<1>5. TypeOK'
  BY <1>1, <1>3, <1>4 DEF IInv, TypeOK, ThreadTypeOK, iovars
<1>6. RunQExact' /\ CurInv'
  BY <1>1, <1>2, <1>3 DEF IInv, RunQExact, CurInv
<1>7. PlaceInv'
  BY <1>1, <1>2, <1>3 DEF IInv, PlaceInv, Woken
<1>8. WaitInv'
  BY <1>1, <1>4 DEF IInv, WaitInv, Waits
<1>9. FlagInv'
  BY <1>1, <1>2, <1>3 DEF IInv, FlagInv, Woken
<1>10. IoInv'
  BY <1>1, <1>2, <1>3 DEF IInv, IoInv, Interrupted, iovars
<1>11. LockInv'
  BY <1>1, <1>2, <1>3, <1>4 DEF IInv, LockInv, Interrupted
<1>12. JoinInv'
  BY <1>1, <1>2, <1>3, <1>4 DEF IInv, JoinInv, JoinWakesOnZombie, WaitInv, Interrupted
<1>13. ActiveCountExact'
  <2>1. AliveSet' = AliveSet
    BY <1>1, <1>3 DEF AliveSet, Alive
  <2> QED BY <1>1, <2>1, AliveKept DEF IInv
<1> QED BY <1>5, <1>6, <1>7, <1>8, <1>9, <1>10, <1>11, <1>12, <1>13 DEF IInv

(* A zombie is on no queue, so st_thread_join may put it on the run queue. *)
LEMMA ReapCore ==
    ASSUME IInv, NEW x \in Threads, state[x] = "ZOMBIE", Reap(x)
    PROVE  /\ state' \in [Threads -> States] /\ runq' \in Seq(Threads)
           /\ state'[x] = "RUNNABLE"
           /\ \A y \in Threads : y # x => state'[y] = state[y]
           /\ pc[x] = "exit"
           /\ RunQExact'
<1> USE SchedAssumption
<1>1. /\ state' \in [Threads -> States]
      /\ state'[x] = "RUNNABLE"
      /\ \A y \in Threads : y # x => state'[y] = state[y]
  BY DEF IInv, TypeOK, ThreadTypeOK, Reap, States
<1>2. runq \in Seq(Threads) /\ x \notin Range(runq) /\ IsInjective(runq)
  BY DEF IInv, TypeOK, ThreadTypeOK, RunQExact
<1>3. /\ runq' \in Seq(Threads)
      /\ Range(runq') = Range(runq) \cup {x}
      /\ IsInjective(runq')
  BY <1>2, AppendFacts DEF Reap
<1>4. RunQExact'
  BY <1>1, <1>3 DEF IInv, RunQExact
<1>5. pc[x] = "exit"
  BY DEF IInv, PlaceInv, TypeOK, ThreadTypeOK, PCs, Woken
<1> QED BY <1>1, <1>3, <1>4, <1>5

(* st_thread_join *)
LEMMA JoinStep ==
    ASSUME IInv, NEW t \in Threads, NEW x \in Threads, st_thread_join(t, x)
    PROVE  IInv'
<1> USE SchedAssumption
<1>1. /\ cur = t /\ pc[t] = "run" /\ x \in term /\ x # t /\ x \in objs /\ x \in Objects
      /\ UNCHANGED <<jvars, objs, owner, holds, signalled, iovars>>
      /\ \A y \in Threads : pc[y] = "join" => wobj[y] # x
  <2>1. /\ cur = t /\ pc[t] = "run" /\ x \in term /\ x # t /\ waitq[x] = <<>> /\ x \in Objects
        /\ UNCHANGED <<jvars, objs, owner, holds, signalled, iovars>>
    BY DEF st_thread_join, Running, Objects
  <2>2. x \in objs
    BY <2>1 DEF IInv, JoinInv
  <2>3. \A y \in Threads : pc[y] = "join" => wobj[y] # x
    BY <2>1, EmptyRange DEF IInv, WaitInv, Waits
  <2> QED BY <2>1, <2>2, <2>3
<1>2. CASE state[x] = "ZOMBIE" /\ Reap(x) /\ UNCHANGED <<flags, pc, wobj, cur, waitq>>
  <2>1. /\ state' \in [Threads -> States] /\ runq' \in Seq(Threads)
        /\ state'[x] = "RUNNABLE"
        /\ \A y \in Threads : y # x => state'[y] = state[y]
        /\ pc[x] = "exit"
        /\ RunQExact'
    BY <1>2, ReapCore
  <2>2. TypeOK'
    BY <1>1, <1>2, <2>1 DEF IInv, TypeOK, ThreadTypeOK, jvars, iovars
  <2>3. CurInv'
    BY <1>2, <2>1 DEF IInv, CurInv
  <2>4. PlaceInv'
    BY <1>2, <2>1 DEF IInv, PlaceInv, Woken
  <2>5. WaitInv'
    BY <1>1, <1>2 DEF IInv, WaitInv, Waits
  <2>6. FlagInv'
    BY <1>1, <1>2, <2>1 DEF IInv, FlagInv, Woken
  <2>7. IoInv'
    BY <1>1, <1>2, <2>1 DEF IInv, IoInv, Interrupted, iovars
  <2>8. LockInv'
    BY <1>1, <1>2, <2>1 DEF IInv, LockInv, Interrupted
  <2>9. JoinInv'
    BY <1>1, <1>2, <2>1 DEF IInv, JoinInv, JoinWakesOnZombie, WaitInv, Interrupted, jvars
  <2>10. ActiveCountExact'
    <3>1. AliveSet' = AliveSet
      BY <1>2, <2>1 DEF AliveSet, Alive
    <3> QED BY <1>1, <3>1, AliveKept DEF IInv, jvars
  <2> QED BY <2>1, <2>2, <2>3, <2>4, <2>5, <2>6, <2>7, <2>8, <2>9, <2>10 DEF IInv
<1>3. CASE ReturnEINTR(t) /\ UNCHANGED waitq
  BY <1>1, <1>3, EintrStep DEF Running, svars
<1>4. CASE /\ state[x] # "ZOMBIE"
           /\ Block(t, "COND_WAIT", "join", {}, x)
           /\ waitq' = [waitq EXCEPT ![x] = Append(@, t)]
  <2>0. <<"COND_WAIT", "join">> \in BlockPlaces /\ {} \in SUBSET {"ON_SLEEPQ"}
    BY DEF BlockPlaces
  <2>1. /\ ThreadTypeOK'
        /\ state[t] = "RUNNING" /\ state'[t] = "COND_WAIT" /\ pc'[t] = "join"
        /\ wobj'[t] = x /\ flags'[t] = flags[t] \cup {}
        /\ \A y \in Threads : y # t =>
               /\ state'[y] = state[y] /\ pc'[y] = pc[y]
               /\ wobj'[y] = wobj[y] /\ flags'[y] = flags[y]
        /\ RunQExact' /\ CurInv' /\ PlaceInv' /\ AliveSet' = AliveSet
    BY <1>1, <1>4, <2>0, BlockCore
  <2>2. WaitInv' /\ waitq' \in [Objects -> Seq(Threads)]
    BY <1>1, <1>4, <2>1, LinkCore DEF Waits
  <2>3. TypeOK'
    BY <1>1, <2>1, <2>2 DEF IInv, TypeOK, jvars, iovars
  <2>4. FlagInv'
    BY <1>1, <2>1 DEF IInv, FlagInv, PlaceInv, Woken
  <2>5. IoInv'
    BY <1>1, <2>1 DEF IInv, IoInv, Interrupted, iovars
  <2>6. LockInv'
    BY <1>1, <2>1 DEF IInv, LockInv, Interrupted
  <2>7. JoinInv'
    BY <1>1, <1>4, <2>1 DEF IInv, JoinInv, JoinWakesOnZombie, WaitInv, Interrupted, jvars
  <2>8. ActiveCountExact'
    BY <1>1, <2>1, AliveKept DEF IInv, jvars
  <2> QED BY <2>1, <2>2, <2>3, <2>4, <2>5, <2>6, <2>7, <2>8 DEF IInv
<1> QED BY <1>2, <1>3, <1>4 DEF st_thread_join

(* st_thread_join after its wait: the join loop never waits twice. *)
LEMMA ResumeJoinStep ==
    ASSUME IInv, NEW t \in Threads, ResumeJoin(t)
    PROVE  IInv'
<1> USE SchedAssumption
<1> DEFINE x == wobj[t]
           cl == {"TIMEDOUT", "INTERRUPT"}
<1>1. /\ cur = t /\ pc[t] = "join" /\ state[t] = "RUNNING" /\ x \in Threads
      /\ x \in objs
      /\ signalled' = signalled \ {t}
      /\ UNCHANGED <<jvars, objs, owner, holds, iovars>>
      /\ cl \in SUBSET Flags
  BY DEF ResumeJoin, IInv, WaitInv, CurInv, Flags, Waits
<1>2. state[x] = "ZOMBIE" \/ flags[t] \cap cl # {}
  BY <1>1 DEF IInv, JoinInv, JoinWakesOnZombie, Interrupted
<1>3. /\ waitq' = [waitq EXCEPT ![x] = Unlink(@, t)]
      /\ Return(t, cl)
      /\ UNCHANGED cur
      /\ UNCHANGED <<state, runq>> \/ (state[x] = "ZOMBIE" /\ Reap(x))
  BY <1>1, <1>2 DEF ResumeJoin, IInv, TypeOK
<1>4. CASE UNCHANGED <<state, runq>>
  <2>1. /\ ThreadTypeOK'
        /\ pc'[t] = "run" /\ wobj'[t] = NULL /\ flags'[t] = flags[t] \ cl
        /\ \A y \in Threads : y # t =>
               pc'[y] = pc[y] /\ wobj'[y] = wobj[y] /\ flags'[y] = flags[y]
        /\ RunQExact' /\ CurInv' /\ PlaceInv' /\ AliveSet' = AliveSet
    BY <1>1, <1>3, <1>4, ReturnCore
  <2>2. WaitInv' /\ waitq' \in [Objects -> Seq(Threads)]
    BY <1>1, <1>3, <2>1, UnlinkCore DEF Waits
  <2>3. TypeOK'
    BY <1>1, <2>1, <2>2 DEF IInv, TypeOK, jvars, iovars
  <2>4. FlagInv'
    BY <1>1, <1>4, <2>1 DEF IInv, FlagInv, Woken
  <2>5. IoInv'
    BY <1>1, <1>4, <2>1 DEF IInv, IoInv, Interrupted, iovars
  <2>6. LockInv'
    BY <1>1, <1>4, <2>1 DEF IInv, LockInv, Interrupted
  <2>7. JoinInv'
    BY <1>1, <1>4, <2>1 DEF IInv, JoinInv, JoinWakesOnZombie, Interrupted, jvars
  <2>8. ActiveCountExact'
    BY <1>1, <2>1, AliveKept DEF IInv, jvars
  <2> QED BY <2>1, <2>2, <2>3, <2>4, <2>5, <2>6, <2>7, <2>8 DEF IInv
<1>5. CASE state[x] = "ZOMBIE" /\ Reap(x)
  <2>0. /\ state' \in [Threads -> States] /\ runq' \in Seq(Threads)
        /\ state'[x] = "RUNNABLE"
        /\ \A y \in Threads : y # x => state'[y] = state[y]
        /\ pc[x] = "exit" /\ x # t
        /\ RunQExact'
    BY <1>1, <1>5, ReapCore
  <2>1. /\ pc' \in [Threads -> PCs]
        /\ wobj' \in [Threads -> Objects \cup {NULL}]
        /\ flags' \in [Threads -> SUBSET Flags]
        /\ pc'[t] = "run" /\ wobj'[t] = NULL /\ flags'[t] = flags[t] \ cl
        /\ \A y \in Threads : y # t =>
               pc'[y] = pc[y] /\ wobj'[y] = wobj[y] /\ flags'[y] = flags[y]
    BY <1>3 DEF IInv, TypeOK, ThreadTypeOK, Return, PCs
  <2>2. WaitInv' /\ waitq' \in [Objects -> Seq(Threads)]
    BY <1>1, <1>3, <2>1, UnlinkCore DEF Waits
  <2> HIDE DEF x
  <2>3. TypeOK'
    BY <1>1, <1>3, <2>0, <2>1, <2>2 DEF IInv, TypeOK, ThreadTypeOK, jvars, iovars
  <2>4. CurInv'
    BY <1>1, <1>3, <1>5, <2>0 DEF IInv, CurInv
  <2>5. PlaceInv'
    BY <1>1, <2>0, <2>1 DEF IInv, PlaceInv, Woken
  <2>6. FlagInv'
    BY <1>1, <1>5, <2>0, <2>1 DEF IInv, FlagInv, Woken
  <2>7. IoInv'
    BY <1>1, <1>5, <2>0, <2>1 DEF IInv, IoInv, Interrupted, iovars
  <2>8. LockInv'
    BY <1>1, <1>5, <2>0, <2>1 DEF IInv, LockInv, Interrupted
  <2>9. JoinInv'
    <3>1. \A y \in Threads : y # t /\ pc[y] = "join" => wobj[y] # x
      BY <1>1 DEF IInv, JoinInv, x
    <3> QED BY <1>1, <1>5, <2>0, <2>1, <3>1 DEF IInv, JoinInv, JoinWakesOnZombie, WaitInv,
                                                Interrupted, jvars
  <2>10. ActiveCountExact'
    <3>1. AliveSet' = AliveSet
      BY <1>1, <1>5, <2>0, <2>1 DEF AliveSet, Alive
    <3> QED BY <1>1, <3>1, AliveKept DEF IInv, jvars
  <2> QED BY <2>0, <2>2, <2>3, <2>4, <2>5, <2>6, <2>7, <2>8, <2>9, <2>10 DEF IInv
<1> QED BY <1>3, <1>4, <1>5

(* Steps that only change which objects are allocated. *)
LEMMA ObjectStep ==
    ASSUME IInv, UNCHANGED <<tvars, jvars, waitq, owner, holds, signalled, iovars>>,
           objs' \in SUBSET Objects,
           objs \cap Threads \subseteq objs',
           \A t \in Threads : Waits(t) => wobj[t] \in objs',
           \A m \in Mutexes \ objs' : owner[m] = NULL
    PROVE  IInv'
<1>1. UNCHANGED <<state, flags, pc, wobj, runq, cur, active, term>>
  BY DEF tvars, jvars
<1>2. TypeOK'
  BY <1>1 DEF IInv, TypeOK, ThreadTypeOK, iovars
<1>3. RunQExact' /\ CurInv' /\ PlaceInv' /\ FlagInv' /\ IoInv' /\ ActiveCountExact'
  BY <1>1 DEF IInv, RunQExact, CurInv, PlaceInv, FlagInv, IoInv, Woken, Interrupted,
              ActiveCountExact, Alive, iovars
<1>4. WaitInv'
  BY <1>1 DEF IInv, WaitInv, Waits
<1>5. LockInv'
  BY <1>1 DEF IInv, LockInv, Interrupted
<1>6. JoinInv'
  BY <1>1 DEF IInv, JoinInv, JoinWakesOnZombie, Interrupted
<1> QED BY <1>2, <1>3, <1>4, <1>5, <1>6 DEF IInv

(* st_cond_new, st_mutex_new, st_cond_destroy, st_mutex_destroy *)
LEMMA ObjectSteps ==
    ASSUME IInv, NEW t \in Threads, NEW o \in Conds \cup Mutexes,
           \/ st_obj_new(t, o)
           \/ o \in Conds /\ st_cond_destroy(t, o)
           \/ o \in Mutexes /\ st_mutex_destroy(t, o)
    PROVE  IInv'
<1> USE SchedAssumption
<1>1. CASE st_obj_new(t, o)
  <2>1. /\ objs' = objs \cup {o} /\ objs' \in SUBSET Objects
        /\ UNCHANGED <<tvars, jvars, waitq, owner, holds, signalled, iovars>>
    BY <1>1 DEF st_obj_new, IInv, TypeOK, Objects
  <2>2. \A x \in Threads : Waits(x) => wobj[x] \in objs'
    BY <2>1 DEF IInv, WaitInv
  <2>3. \A m \in Mutexes \ objs' : owner[m] = NULL
    BY <2>1 DEF IInv, LockInv
  <2> QED BY <2>1, <2>2, <2>3, ObjectStep
<1>2. CASE (o \in Conds /\ st_cond_destroy(t, o)) \/ (o \in Mutexes /\ st_mutex_destroy(t, o))
  <2>1. /\ objs' = objs \ {o} /\ waitq[o] = <<>> /\ o \in Objects
        /\ o \in Mutexes => owner[o] = NULL
        /\ UNCHANGED <<tvars, jvars, waitq, owner, holds, signalled, iovars>>
    BY <1>2 DEF st_cond_destroy, st_mutex_destroy, Objects
  <2>2. \A x \in Threads : Waits(x) => wobj[x] # o
    BY <2>1, EmptyRange DEF IInv, WaitInv
  <2>3. \A x \in Threads : Waits(x) => wobj[x] \in objs'
    BY <2>1, <2>2 DEF IInv, WaitInv
  <2>4. \A m \in Mutexes \ objs' : owner[m] = NULL
    BY <2>1 DEF IInv, LockInv
  <2>5. objs' \in SUBSET Objects /\ objs \cap Threads \subseteq objs'
    BY <2>1 DEF IInv, TypeOK
  <2> QED BY <2>1, <2>3, <2>4, <2>5, ObjectStep
<1> QED BY <1>1, <1>2

(* An overlapped operation is posted: it is the thread's only one. *)
LEMMA PostStep ==
    ASSUME IInv, NEW t \in Threads, PostOperation(t)
    PROVE  IInv'
<1> USE SchedAssumption
<1>1. /\ cur = t /\ pc[t] = "run" /\ t \in IoThreads
      /\ pending' = pending \cup {t}
      /\ UNCHANGED <<state, flags, wobj, runq, cur, jvars, svars, doneq, event, ppc, ipc>>
  BY DEF PostOperation, Running
<1>2. state[t] = "RUNNING"
  BY <1>1 DEF IInv, CurInv
<1>3. /\ pc' \in [Threads -> PCs]
      /\ pc'[t] = "post"
      /\ \A y \in Threads : y # t => pc'[y] = pc[y]
  BY DEF IInv, TypeOK, ThreadTypeOK, PCs, PostOperation
<1>4. TypeOK'
  BY <1>1, <1>3 DEF IInv, TypeOK, ThreadTypeOK, jvars, svars
<1>5. RunQExact' /\ CurInv'
  BY <1>1 DEF IInv, RunQExact, CurInv
<1>6. PlaceInv'
  BY <1>1, <1>2, <1>3 DEF IInv, PlaceInv, Woken
<1>7. WaitInv'
  BY <1>1, <1>3 DEF IInv, WaitInv, Waits, svars
<1>8. FlagInv'
  BY <1>1, <1>2, <1>3 DEF IInv, FlagInv, Woken, svars
<1>9. IoInv'
  BY <1>1, <1>2, <1>3 DEF IInv, IoInv, Interrupted
<1>10. LockInv'
  BY <1>1, <1>3 DEF IInv, LockInv, Interrupted, svars
<1>11. JoinInv'
  BY <1>1, <1>3 DEF IInv, JoinInv, JoinWakesOnZombie, Interrupted, jvars, svars
<1>12. ActiveCountExact'
  <2>1. AliveSet' = AliveSet
    BY <1>1, <1>3 DEF AliveSet, Alive
  <2> QED BY <1>1, <2>1, AliveKept DEF IInv, jvars
<1> QED BY <1>4, <1>5, <1>6, <1>7, <1>8, <1>9, <1>10, <1>11, <1>12 DEF IInv

(* The steps of the completion producers. *)
LEMMA ProducerStep ==
    ASSUME IInv, NEW p \in Producers,
           ProducerSetEvent(p) \/ \E t \in Threads : ProducerEnqueue(p, t)
    PROVE  IInv'
<1> USE SchedAssumption
<1>1. CASE ProducerSetEvent(p)
  <2>1. /\ event' = TRUE /\ ppc' = [ppc EXCEPT ![p] = "get"]
        /\ UNCHANGED <<state, flags, pc, wobj, runq, cur, jvars, svars, pending, doneq, ipc>>
    BY <1>1 DEF ProducerSetEvent, tvars
  <2>2. event' \in BOOLEAN /\ ppc' \in [Producers -> {"get", "set"}]
    BY <2>1 DEF IInv, TypeOK
  <2>3. ipc' \in {"loop", "drain", "reset", "clock", "exited"}
    BY <2>1 DEF IInv, TypeOK
  <2> QED BY <2>1, <2>2, <2>3, IdleVarsStep
<1>2. ASSUME NEW t \in Threads, ProducerEnqueue(p, t)
      PROVE  IInv'
  <2>1. /\ t \in pending /\ pending' = pending \ {t}
        /\ doneq' = Append(doneq, t)
        /\ ppc' = [ppc EXCEPT ![p] = "set"]
        /\ UNCHANGED <<state, flags, pc, wobj, runq, cur, jvars, svars, event, ipc>>
    BY <1>2 DEF ProducerEnqueue, tvars
  <2>2. /\ t \in IoThreads /\ doneq \in Seq(IoThreads)
        /\ IsInjective(doneq) /\ t \notin Range(doneq)
    BY <2>1 DEF IInv, TypeOK, IoInv
  <2>3. /\ doneq' \in Seq(IoThreads)
        /\ Range(doneq') = Range(doneq) \cup {t}
        /\ IsInjective(doneq')
    BY <2>1, <2>2, AppendFacts
  <2>4. ppc' \in [Producers -> {"get", "set"}]
    BY <2>1 DEF IInv, TypeOK
  <2>5. TypeOK'
    BY <2>1, <2>3, <2>4 DEF IInv, TypeOK, ThreadTypeOK, jvars, svars
  <2>6. IoInv'
    BY <2>1, <2>3 DEF IInv, IoInv, Interrupted
  <2>7. RunQExact' /\ CurInv' /\ PlaceInv' /\ WaitInv' /\ FlagInv'
    BY <2>1 DEF IInv, RunQExact, CurInv, PlaceInv, WaitInv, FlagInv, Woken, Waits, svars
  <2>8. LockInv' /\ JoinInv' /\ ActiveCountExact'
    BY <2>1 DEF IInv, LockInv, JoinInv, JoinWakesOnZombie, ActiveCountExact, Alive,
                Interrupted, jvars, svars
  <2> QED BY <2>5, <2>6, <2>7, <2>8 DEF IInv
<1> QED BY <1>1, <1>2

-----------------------------------------------------------------------------
(* The inductive invariant *)

(* st_init establishes the invariant. *)
LEMMA InitIInv == Init => IInv
<1> SUFFICES ASSUME Init PROVE IInv
  OBVIOUS
<1> USE SchedAssumption, EmptyRange DEF Init
<1>1. TypeOK
  <2>1. ThreadTypeOK
    BY DEF ThreadTypeOK, States, Flags, PCs
  <2>2. event \in BOOLEAN
    OBVIOUS
  <2> QED BY <2>1, <2>2 DEF TypeOK
<1>2. RunQExact /\ CurInv /\ PlaceInv
  BY DEF RunQExact, CurInv, PlaceInv, Woken
<1>3. WaitInv
  BY DEF WaitInv, Waits
<1>4. FlagInv /\ LockInv /\ JoinInv
  BY DEF FlagInv, LockInv, JoinInv, JoinWakesOnZombie, Interrupted
<1>5. IoInv
  BY DEF IoInv, Interrupted
<1>6. ActiveCountExact
  <2>1. {t \in Threads : Alive(t)} = {Main}
    BY DEF Alive
  <2> QED BY <2>1, FS_Singleton DEF ActiveCountExact
<1> QED BY <1>1, <1>2, <1>3, <1>4, <1>5, <1>6 DEF IInv

(* Every step keeps the invariant when no thread that does I/O is interrupted. *)
LEMMA NextIInv ==
    ASSUME NoIoInterrupts, IInv, [Next]_vars
    PROVE  IInv'
<1>1. CASE _st_vp_schedule
  BY <1>1, ScheduleStep
<1>2. ASSUME NEW t \in Threads, Yield(t) PROVE IInv'
  BY <1>2, ExitStep, ResumeExitStep, UsleepStep, JoinStep, CondWaitStep, LockStep DEF Yield
<1>3. ASSUME NEW t \in Threads, Resume(t) PROVE IInv'
  <2>1. CASE ResumeUsleep(t)
    BY <2>1, PlainReturnStep DEF ResumeUsleep
  <2>2. CASE ResumeWait(t)
    BY <2>2, PlainReturnStep DEF ResumeWait
  <2> QED BY <1>3, <2>1, <2>2, ResumeJoinStep, ResumeCondStep, ResumeLockStep, WaitStep,
             BroadcastNextStep DEF Resume
<1>4. ASSUME NEW t \in Threads, Call(t) PROVE IInv'
  <2>1. ASSUME NEW c \in Conds, st_cond_signal(t, c) PROVE IInv'
    BY <2>1, SignalStep DEF st_cond_signal
  <2>2. ASSUME NEW m \in Mutexes, st_mutex_trylock(t, m) PROVE IInv'
    BY <2>2, AcquireStep DEF st_mutex_trylock, Running
  <2>3. ASSUME NEW c \in Conds, st_cond_destroy(t, c) PROVE IInv'
    BY <2>3, ObjectSteps
  <2>4. ASSUME NEW m \in Mutexes, st_mutex_destroy(t, m) PROVE IInv'
    BY <2>4, ObjectSteps
  <2>5. ASSUME NEW o \in Conds \cup Mutexes, st_obj_new(t, o) PROVE IInv'
    BY <2>5, ObjectSteps
  <2> QED BY <1>4, <2>1, <2>2, <2>3, <2>4, <2>5, CreateStep, InterruptStep, PostStep,
             BroadcastStep, UnlockStep DEF Call
<1>5. ASSUME NEW t \in Threads, ClockExpire(t) PROVE IInv'
  BY <1>5, ClockExpireStep
<1>6. ASSUME NEW p \in Producers,
             ProducerSetEvent(p) \/ \E t \in Threads : ProducerEnqueue(p, t)
      PROVE  IInv'
  BY <1>6, ProducerStep
<1>7. CASE IdleStep
  BY <1>7, IdleStepStep
<1>8. CASE UNCHANGED vars
  <2>1. /\ UNCHANGED <<state, flags, pc, wobj, runq, cur, jvars, svars, pending, doneq>>
        /\ UNCHANGED <<event, ppc, ipc>>
    BY <1>8 DEF vars, tvars, iovars
  <2>2. /\ event' \in BOOLEAN /\ ppc' \in [Producers -> {"get", "set"}]
        /\ ipc' \in {"loop", "drain", "reset", "clock", "exited"}
    BY <2>1 DEF IInv, TypeOK
  <2> QED BY <2>1, <2>2, IdleVarsStep
<1>9. CASE Exited
  BY <1>8, <1>9 DEF Exited
<1> QED BY <1>1, <1>2, <1>3, <1>4, <1>5, <1>6, <1>7, <1>8, <1>9 DEF Next

(* The inductive invariant holds throughout every behaviour in which no thread that
   does I/O is interrupted (what happens otherwise is shown by ScheduledIsRunnable's
   counterexample). *)
THEOREM InductiveInvariant == NoIoInterrupts => (Spec => []IInv)
<1> SUFFICES ASSUME NoIoInterrupts PROVE Spec => []IInv
  OBVIOUS
<1>1. Init => IInv
  BY InitIInv
<1>2. IInv /\ [Next]_vars => IInv'
  BY NextIInv
<1> QED BY <1>1, <1>2, PTL DEF Spec

(* The invariants that follow from the inductive one without being conjuncts of it. *)
LEMMA InvariantParts ==
    ASSUME IInv
    PROVE  /\ BlockedIsQueued
           /\ MutualExclusion
           /\ NoLostHandoff
           /\ SignalNotTimedOut
           /\ FreedObjectUnused
           /\ ScheduledIsRunnable
<1> USE SchedAssumption
<1>1. BlockedIsQueued
  <2>1. \A t \in Threads : state[t] \in {"COND_WAIT", "LOCK_WAIT"} => Waits(t)
    BY DEF IInv, PlaceInv, Woken, Waits, TypeOK, ThreadTypeOK, PCs
  <2>2. \A t \in Threads : Waits(t) => wobj[t] \in Objects
    BY DEF IInv, WaitInv, Waits, Objects
  <2>3. \A t \in Threads : Waits(t) => t \in Range(waitq[wobj[t]])
    BY <2>2 DEF IInv, WaitInv
  <2> QED BY <2>1, <2>3 DEF IInv, FlagInv, IoInv, BlockedIsQueued
<1>2. MutualExclusion
  BY DEF IInv, TypeOK, LockInv, MutualExclusion
<1>3. NoLostHandoff
  <2> SUFFICES ASSUME NEW m \in Mutexes, owner[m] = NULL, NEW i \in DOMAIN waitq[m],
                      state[waitq[m][i]] = "LOCK_WAIT"
               PROVE  FALSE
    BY DEF NoLostHandoff, Waiting
  <2> DEFINE x == waitq[m][i]
  <2>1. x \in Range(waitq[m]) /\ x \in Threads /\ m \in Objects
    BY DEF IInv, TypeOK, Objects, Range
  <2>2. wobj[x] = m /\ Waits(x)
    BY <2>1 DEF IInv, WaitInv
  <2> HIDE DEF x
  <2>3. state[x] = "LOCK_WAIT"
    BY DEF x
  <2>4. pc[x] = "lock"
    BY <2>1, <2>2, <2>3 DEF IInv, PlaceInv, Woken, Waits
  <2> QED BY <2>1, <2>2, <2>3, <2>4 DEF IInv, LockInv
<1>4. SignalNotTimedOut
  BY DEF IInv, TypeOK, FlagInv, SignalNotTimedOut
<1>5. FreedObjectUnused
  <2>1. ASSUME NEW o \in Objects \ objs PROVE waitq[o] = <<>>
    <3>1. waitq[o] \in Seq(Threads)
      BY DEF IInv, TypeOK
    <3>2. \A x \in Threads : x \notin Range(waitq[o])
      BY DEF IInv, WaitInv
    <3>3. ASSUME waitq[o] # <<>> PROVE FALSE
      BY <3>1, <3>2, <3>3, TailFacts
    <3> QED BY <3>3
  <2> QED BY <2>1 DEF IInv, LockInv, FreedObjectUnused
<1>6. ScheduledIsRunnable
  <2>1. runq # <<>> => Head(runq) \in Range(runq)
    BY TailFacts DEF IInv, TypeOK, ThreadTypeOK
  <2> QED BY <2>1 DEF IInv, RunQExact, ScheduledIsRunnable
<1> QED BY <1>1, <1>2, <1>3, <1>4, <1>5, <1>6

-----------------------------------------------------------------------------
(* The safety properties, for every number of threads and objects *)

(* If no thread that does I/O is interrupted, every variable of the scheduler keeps its type; in particular
   _st_active_count never goes below zero. *)
THEOREM TypeCorrect == NoIoInterrupts => (Spec => []TypeOK)
<1> SUFFICES ASSUME NoIoInterrupts PROVE Spec => []TypeOK
  OBVIOUS
<1>1. Spec => []IInv
  BY InductiveInvariant
<1>2. IInv => TypeOK
  BY DEF IInv
<1> QED BY <1>1, <1>2, PTL

(* If no thread that does I/O is interrupted, the run queue holds each runnable thread exactly once, so the
   links field that it shares with the sleep queue is never inserted twice. *)
THEOREM RunQueueExact == NoIoInterrupts => (Spec => []RunQExact)
<1> SUFFICES ASSUME NoIoInterrupts PROVE Spec => []RunQExact
  OBVIOUS
<1>1. Spec => []IInv
  BY InductiveInvariant
<1>2. IInv => RunQExact
  BY DEF IInv
<1> QED BY <1>1, <1>2, PTL

(* If no thread that does I/O is interrupted, the assertion of _st_vp_schedule, that the thread it takes off the
   run queue is runnable, never fails. *)
THEOREM AssertionHolds == NoIoInterrupts => (Spec => []ScheduledIsRunnable)
<1> SUFFICES ASSUME NoIoInterrupts PROVE Spec => []ScheduledIsRunnable
  OBVIOUS
<1>1. Spec => []IInv
  BY InductiveInvariant
<1>2. IInv => ScheduledIsRunnable
  BY InvariantParts
<1> QED BY <1>1, <1>2, PTL

(* If no thread that does I/O is interrupted, whatever blocks a thread in _st_wait, st_usleep,
   st_cond_timedwait or st_mutex_lock, the queue that will wake it still holds it. *)
THEOREM BlockedAreReachable == NoIoInterrupts => (Spec => []BlockedIsQueued)
<1> SUFFICES ASSUME NoIoInterrupts PROVE Spec => []BlockedIsQueued
  OBVIOUS
<1>1. Spec => []IInv
  BY InductiveInvariant
<1>2. IInv => BlockedIsQueued
  BY InvariantParts
<1> QED BY <1>1, <1>2, PTL

(* If no thread that does I/O is interrupted, st_mutex_lock and st_mutex_trylock returned 0 to at most one
   thread since the last unlock, whatever hand-offs and interrupts happened. *)
THEOREM LocksExclude == NoIoInterrupts => (Spec => []MutualExclusion)
<1> SUFFICES ASSUME NoIoInterrupts PROVE Spec => []MutualExclusion
  OBVIOUS
<1>1. Spec => []IInv
  BY InductiveInvariant
<1>2. IInv => MutualExclusion
  BY InvariantParts
<1> QED BY <1>1, <1>2, PTL

(* If no thread that does I/O is interrupted, a mutex without an owner has no thread blocked in st_mutex_lock on
   it. *)
THEOREM HandoffNotLost == NoIoInterrupts => (Spec => []NoLostHandoff)
<1> SUFFICES ASSUME NoIoInterrupts PROVE Spec => []NoLostHandoff
  OBVIOUS
<1>1. Spec => []IInv
  BY InductiveInvariant
<1>2. IInv => NoLostHandoff
  BY InvariantParts
<1> QED BY <1>1, <1>2, PTL

(* If no thread that does I/O is interrupted, _st_cond_signal never picks a waiter that _st_vp_check_clock has
   already timed out. *)
THEOREM SignalsNotWasted == NoIoInterrupts => (Spec => []SignalNotTimedOut)
<1> SUFFICES ASSUME NoIoInterrupts PROVE Spec => []SignalNotTimedOut
  OBVIOUS
<1>1. Spec => []IInv
  BY InductiveInvariant
<1>2. IInv => SignalNotTimedOut
  BY InvariantParts
<1> QED BY <1>1, <1>2, PTL

(* If no thread that does I/O is interrupted, a thread woken inside st_thread_join finds a zombie or an
   interrupt, so its loop never goes round a second time, and a zombie has no blocked joiner. *)
THEOREM JoinersWakeOnZombie == NoIoInterrupts => (Spec => []JoinWakesOnZombie)
<1> SUFFICES ASSUME NoIoInterrupts PROVE Spec => []JoinWakesOnZombie
  OBVIOUS
<1>1. Spec => []IInv
  BY InductiveInvariant
<1>2. IInv => JoinWakesOnZombie
  BY DEF IInv, JoinInv
<1> QED BY <1>1, <1>2, PTL

(* If no thread that does I/O is interrupted, _st_active_count is the number of threads that have not called
   st_thread_exit, so the idle thread ends the process exactly when all of them have. *)
THEOREM ActiveCounted == NoIoInterrupts => (Spec => []ActiveCountExact)
<1> SUFFICES ASSUME NoIoInterrupts PROVE Spec => []ActiveCountExact
  OBVIOUS
<1>1. Spec => []IInv
  BY InductiveInvariant
<1>2. IInv => ActiveCountExact
  BY DEF IInv
<1> QED BY <1>1, <1>2, PTL

(* If no thread that does I/O is interrupted, no thread is linked on the wait queue of a destroyed condition
   variable or mutex, and no destroyed mutex has an owner. *)
THEOREM DestroyedUnused == NoIoInterrupts => (Spec => []FreedObjectUnused)
<1> SUFFICES ASSUME NoIoInterrupts PROVE Spec => []FreedObjectUnused
  OBVIOUS
<1>1. Spec => []IInv
  BY InductiveInvariant
<1>2. IInv => FreedObjectUnused
  BY InvariantParts
<1> QED BY <1>1, <1>2, PTL
=============================================================================
