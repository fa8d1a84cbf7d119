-------------------------------- MODULE Sched --------------------------------
(***************************************************************************)
(* The coroutine scheduler of st-nvs (sched_win.cpp) with its blocking     *)
(* primitives (sync.cpp): thread creation, exit and join, interrupts,      *)
(* sleeping, condition variables, mutexes, I/O waits, the idle thread and  *)
(* the completion producers that hand finished operations to it.           *)
(*                                                                         *)
(* Coroutines are cooperative: exactly one runs, and it runs until it      *)
(* calls _ST_SWITCH_CONTEXT.  An action of a coroutine is therefore a whole *)
(* call up to its return or its context switch; the code after a context   *)
(* switch is a second action (Resume...), taken once _st_vp_schedule has   *)
(* picked the thread again.  The producers (the IOCP worker and the        *)
(* database threads) are OS threads: their steps and the steps of the idle *)
(* thread that touch the shared queue and the shared event interleave.     *)
(*                                                                         *)
(* Timeout values are abstracted to the order in which sleepers expire: the *)
(* sleep queue is the set of threads that carry _ST_FL_ON_SLEEPQ and        *)
(* _st_vp_check_clock expires any of them, because a timeout is any number. *)
(* Module SleepQ is exact about the numbers.  The completed-operation       *)
(* queue is a FIFO here; module LockFreeQueue is its implementation.        *)
(* Calls that fail without changing any state (EDEADLK, EPERM, EBUSY,       *)
(* EINVAL) are stuttering steps.                                            *)
(***************************************************************************)
EXTENDS Naturals, Sequences, FiniteSets, Functions

CONSTANTS
    Threads,    \* st_thread_t incarnations other than the idle thread
    Main,       \* the primordial thread made by st_init
    Idle,       \* the idle thread
    Mutexes,    \* st_mutex_t objects of the application
    Conds,      \* st_cond_t objects of the application
    Producers,  \* OS threads that complete operations
    Sleepers,   \* threads that call st_usleep
    IoThreads,  \* threads that start overlapped operations
    Joiners,    \* threads that call st_thread_join
    Targets,    \* threads the application interrupts
    NULL

ASSUME SchedAssumption ==
    /\ Main \in Threads
    /\ IsFiniteSet(Threads)
    /\ Idle \notin Threads /\ NULL \notin Threads /\ NULL # Idle
    /\ Sleepers \subseteq Threads
    /\ IoThreads \subseteq Threads \ {Main}  \* st_init gives Main no context_switch
    /\ Joiners \subseteq Threads /\ Targets \subseteq Threads
    /\ Mutexes \cap Conds = {}
    /\ Mutexes \cap Threads = {} /\ Conds \cap Threads = {}
    /\ NULL \notin Mutexes \cup Conds

VARIABLES
    state,      \* thread->state, plus UNUSED (not created) and FREED (stack freed)
    flags,      \* thread->flags
    pc,         \* where the thread continues: "run" is application code
    wobj,       \* the object whose wait_q holds the thread's wait_links
    runq,       \* _ST_RUNQ
    cur,        \* _st_this_thread; NULL while inside _st_vp_schedule
    active,     \* _st_active_count
    term,       \* threads whose term is not NULL
    objs,       \* allocated condition variables and mutexes
    waitq,      \* wait_q of each object; the term of thread x is named x
    owner,      \* lock->owner
    pending,    \* threads with an overlapped operation in flight
    doneq,      \* _st_lock_free_queue
    event,      \* _st_notify_event (manual reset)
    ppc,        \* where each producer is
    ipc,        \* where the idle thread is
    holds,      \* history: <<t, m>> whose last lock call returned 0
    signalled   \* history: threads a signal unblocked, until they return

tvars == <<state, flags, pc, wobj, runq, cur>>
jvars == <<active, term>>
svars == <<objs, waitq, owner, holds, signalled>>
iovars == <<pending, doneq, event, ppc, ipc>>
vars == <<tvars, jvars, svars, iovars>>

Objects == Conds \cup Mutexes \cup Threads

States == {"UNUSED", "RUNNING", "RUNNABLE", "IO_WAIT", "LOCK_WAIT", "COND_WAIT",
           "SLEEPING", "ZOMBIE", "FREED"}

Flags == {"ON_SLEEPQ", "INTERRUPT", "TIMEDOUT"}

PCs == {"run", "usleep", "cond", "join", "lock", "post", "io", "exit", "bcast"}

ThreadTypeOK ==
    /\ state \in [Threads -> States]
    /\ flags \in [Threads -> SUBSET Flags]
    /\ pc \in [Threads -> PCs]
    /\ wobj \in [Threads -> Objects \cup {NULL}]
    /\ runq \in Seq(Threads)
    /\ cur \in Threads \cup {Idle, NULL}

TypeOK ==
    /\ ThreadTypeOK
    /\ active \in Nat
    /\ term \in SUBSET Threads
    /\ objs \in SUBSET Objects
    /\ waitq \in [Objects -> Seq(Threads)]
    /\ owner \in [Mutexes -> Threads \cup {NULL}]
    /\ pending \in SUBSET IoThreads
    /\ doneq \in Seq(IoThreads)
    /\ event \in BOOLEAN
    /\ ppc \in [Producers -> {"get", "set"}]
    /\ ipc \in {"loop", "drain", "reset", "clock", "exited"}
    /\ holds \in SUBSET (Threads \X Mutexes)
    /\ signalled \in SUBSET Threads

(* st_init: the primordial thread runs, the idle thread is off the run queue. *)
Init ==
    /\ state = [t \in Threads |-> IF t = Main THEN "RUNNING" ELSE "UNUSED"]
    /\ flags = [t \in Threads |-> {}]
    /\ pc = [t \in Threads |-> "run"]
    /\ wobj = [t \in Threads |-> NULL]
    /\ runq = <<>>
    /\ cur = Main
    /\ active = 1
    /\ term = {}
    /\ objs = {}
    /\ waitq = [o \in Objects |-> <<>>]
    /\ owner = [m \in Mutexes |-> NULL]
    /\ pending = {}
    /\ doneq = <<>>
    /\ event = FALSE
    /\ ppc = [p \in Producers |-> "get"]
    /\ ipc = "loop"
    /\ holds = {}
    /\ signalled = {}

-----------------------------------------------------------------------------
(* Helpers *)

Running(t) == cur = t /\ pc[t] = "run"

Interrupted(t) == "INTERRUPT" \in flags[t]

(* A blocking call entered with the interrupt flag set clears it and returns
   EINTR without blocking. *)
ReturnEINTR(t) ==
    /\ Interrupted(t)
    /\ flags' = [flags EXCEPT ![t] = @ \ {"INTERRUPT"}]
    /\ UNCHANGED <<state, pc, wobj, runq, cur>>

(* Positions of queue q whose thread is in state st, and the first of them. *)
Waiting(q, st) == {i \in DOMAIN q : state[q[i]] = st}

IsFirst(i, S) == i \in S /\ \A j \in S : i <= j

(* ST_REMOVE_LINK(&t->wait_links) *)
Unlink(q, t) ==
    LET k == CHOOSE i \in DOMAIN q : q[i] = t
    IN [i \in 1 .. Len(q) - 1 |-> IF i < k THEN q[i] ELSE q[i + 1]]

(* Thread t blocks in state st: it will continue at l. *)
Block(t, st, l, fl, o) ==
    /\ state' = [state EXCEPT ![t] = st]
    /\ flags' = [flags EXCEPT ![t] = @ \cup fl]
    /\ pc' = [pc EXCEPT ![t] = l]
    /\ wobj' = [wobj EXCEPT ![t] = o]
    /\ cur' = NULL
    /\ UNCHANGED runq

(* Mutant: the thread is not taken off the sleep queue. *)
MakeRunnableOnSleepQ(x, fl) ==
    /\ state' = [state EXCEPT ![x] = "RUNNABLE"]
    /\ flags' = [flags EXCEPT ![x] = @ \cup fl]
    /\ runq' = Append(runq, x)

(* Thread x is taken off the sleep queue if it is on it, and made runnable. *)
MakeRunnable(x, fl) ==
    /\ state' = [state EXCEPT ![x] = "RUNNABLE"]
    /\ flags' = [flags EXCEPT ![x] = (@ \ {"ON_SLEEPQ"}) \cup fl]
    /\ runq' = Append(runq, x)

(* Thread t returns from a blocking call to application code. *)
Return(t, cleared) ==
    /\ pc' = [pc EXCEPT ![t] = "run"]
    /\ wobj' = [wobj EXCEPT ![t] = NULL]
    /\ flags' = [flags EXCEPT ![t] = @ \ cleared]

-----------------------------------------------------------------------------
(* The scheduler *)

(* Mutant: the newest runnable thread runs first. *)
ScheduleLast ==
    /\ cur = NULL
    /\ \/ /\ runq # <<>>
          /\ cur' = runq[Len(runq)]
          /\ runq' = SubSeq(runq, 1, Len(runq) - 1)
          /\ state' = [state EXCEPT ![runq[Len(runq)]] = "RUNNING"]
       \/ /\ runq = <<>>
          /\ cur' = Idle
          /\ UNCHANGED <<state, runq>>
    /\ UNCHANGED <<flags, pc, wobj, jvars, svars, iovars>>

_st_vp_schedule ==
    /\ cur = NULL
    /\ \/ /\ runq # <<>>
          /\ cur' = Head(runq)
          /\ runq' = Tail(runq)
          /\ state' = [state EXCEPT ![Head(runq)] = "RUNNING"]
       \/ /\ runq = <<>>
          /\ cur' = Idle
          /\ UNCHANGED <<state, runq>>
    /\ UNCHANGED <<flags, pc, wobj, jvars, svars, iovars>>

st_thread_create(t, x, joinable) ==
    /\ Running(t)
    /\ state[x] = "UNUSED"
    /\ state' = [state EXCEPT ![x] = "RUNNABLE"]
    /\ runq' = Append(runq, x)
    /\ active' = active + 1
    /\ term' = IF joinable THEN term \cup {x} ELSE term
    /\ objs' = IF joinable THEN objs \cup {x} ELSE objs
    /\ UNCHANGED <<flags, pc, wobj, cur, waitq, owner, holds, signalled, iovars>>

(* Not joinable: the stack, and the thread object on it, is freed at once.
   Joinable: the thread becomes a zombie and signals its term. *)
st_thread_exit(t) ==
    /\ Running(t)
    /\ active' = active - 1
    /\ cur' = NULL
    /\ \/ /\ t \notin term
          /\ state' = [state EXCEPT ![t] = "FREED"]
          /\ UNCHANGED <<flags, pc, runq, signalled>>
       \/ /\ t \in term
          /\ pc' = [pc EXCEPT ![t] = "exit"]
          /\ \/ \E i \in DOMAIN waitq[t] :
                  LET x == waitq[t][i] IN
                  /\ IsFirst(i, Waiting(waitq[t], "COND_WAIT"))
                  /\ state' = [state EXCEPT ![t] = "ZOMBIE", ![x] = "RUNNABLE"]
                  /\ flags' = [flags EXCEPT ![x] = @ \ {"ON_SLEEPQ"}]
                  /\ runq' = Append(runq, x)
                  /\ signalled' = signalled \cup {x}
             \/ /\ Waiting(waitq[t], "COND_WAIT") = {}
                /\ state' = [state EXCEPT ![t] = "ZOMBIE"]
                /\ UNCHANGED <<flags, runq, signalled>>
    /\ UNCHANGED <<wobj, term, objs, waitq, owner, holds, iovars>>

(* A joined zombie is scheduled again: it destroys its term, which fails when
   somebody waits on it, and frees its stack. *)
ResumeExit(t) ==
    /\ cur = t /\ pc[t] = "exit"
    /\ objs' = IF waitq[t] = <<>> THEN objs \ {t} ELSE objs
    /\ term' = term \ {t}
    /\ state' = [state EXCEPT ![t] = "FREED"]
    /\ cur' = NULL
    /\ UNCHANGED <<flags, pc, wobj, runq, active, waitq, owner, holds, signalled, iovars>>

(* The tail of st_thread_join: the zombie x is made runnable to clean up. *)
Reap(x) ==
    /\ state' = [state EXCEPT ![x] = "RUNNABLE"]
    /\ runq' = Append(runq, x)

(* Mutant: a second thread may wait for the same target. *)
JoinUnchecked(t, x) ==
    /\ Running(t) /\ t \in Joiners
    /\ x \in term /\ x # t
    /\ \/ /\ state[x] = "ZOMBIE"
          /\ Reap(x)
          /\ UNCHANGED <<flags, pc, wobj, cur, waitq>>
       \/ /\ state[x] # "ZOMBIE"
          /\ ~Interrupted(t)
          /\ Block(t, "COND_WAIT", "join", {}, x)
          /\ waitq' = [waitq EXCEPT ![x] = Append(@, t)]
    /\ UNCHANGED <<jvars, objs, owner, holds, signalled, iovars>>

st_thread_join(t, x) ==
    /\ Running(t) /\ t \in Joiners
    /\ x \in term /\ x # t
    /\ waitq[x] = <<>>
    /\ \/ /\ state[x] = "ZOMBIE"
          /\ Reap(x)
          /\ UNCHANGED <<flags, pc, wobj, cur, waitq>>
       \/ /\ state[x] # "ZOMBIE"
          /\ ReturnEINTR(t)
          /\ UNCHANGED waitq
       \/ /\ state[x] # "ZOMBIE"
          /\ ~Interrupted(t)
          /\ Block(t, "COND_WAIT", "join", {}, x)
          /\ waitq' = [waitq EXCEPT ![x] = Append(@, t)]
    /\ UNCHANGED <<jvars, objs, owner, holds, signalled, iovars>>

(* Back from the st_cond_timedwait inside the join loop: give up when it
   failed, reap a zombie, wait again otherwise. *)
ResumeJoin(t) ==
    LET x == wobj[t]
        rest == Unlink(waitq[x], t)
        failed == flags[t] \cap {"TIMEDOUT", "INTERRUPT"} # {}
    IN /\ cur = t /\ pc[t] = "join"
       /\ signalled' = signalled \ {t}
       /\ IF failed \/ state[x] = "ZOMBIE"
          THEN /\ waitq' = [waitq EXCEPT ![x] = rest]
               /\ Return(t, {"TIMEDOUT", "INTERRUPT"})
               /\ IF failed THEN UNCHANGED <<state, runq>> ELSE Reap(x)
               /\ UNCHANGED cur
          ELSE /\ waitq' = [waitq EXCEPT ![x] = Append(rest, t)]
               /\ Block(t, "COND_WAIT", "join", {}, x)
       /\ UNCHANGED <<jvars, objs, owner, holds, iovars>>

(* Mutant: the early return for running and runnable threads is missing. *)
InterruptAlways(t, x) ==
    /\ Running(t) /\ x \in Targets
    /\ state[x] \notin {"UNUSED", "FREED", "ZOMBIE"}
    /\ MakeRunnable(x, {"INTERRUPT"})
    /\ UNCHANGED <<pc, wobj, cur, jvars, svars, iovars>>

(* An interrupt only marks a running or runnable thread and unblocks any other;
   interrupting a zombie changes nothing. *)
st_thread_interrupt(t, x) ==
    /\ Running(t) /\ x \in Targets
    /\ state[x] \notin {"UNUSED", "FREED", "ZOMBIE"}
    /\ \/ /\ state[x] \in {"RUNNING", "RUNNABLE"}
          /\ flags' = [flags EXCEPT ![x] = @ \cup {"INTERRUPT"}]
          /\ UNCHANGED <<state, runq>>
       \/ /\ state[x] \notin {"RUNNING", "RUNNABLE"}
          /\ MakeRunnable(x, {"INTERRUPT"})
    /\ UNCHANGED <<pc, wobj, cur, jvars, svars, iovars>>

-----------------------------------------------------------------------------
(* Sleeping *)

st_usleep(t) ==
    /\ Running(t) /\ t \in Sleepers
    /\ \/ ReturnEINTR(t)
       \/ ~Interrupted(t) /\ Block(t, "SLEEPING", "usleep", {"ON_SLEEPQ"}, NULL)
    /\ UNCHANGED <<jvars, svars, iovars>>

ResumeUsleep(t) ==
    /\ cur = t /\ pc[t] = "usleep"
    /\ Return(t, {"INTERRUPT"})
    /\ UNCHANGED <<state, runq, cur, jvars, svars, iovars>>

-----------------------------------------------------------------------------
(* Condition variables *)

(* st_cond_new and st_mutex_new *)
st_obj_new(t, o) ==
    /\ Running(t)
    /\ o \in (Conds \cup Mutexes) \ objs
    /\ objs' = objs \cup {o}
    /\ UNCHANGED <<tvars, jvars, waitq, owner, holds, signalled, iovars>>

(* Mutant: the EBUSY check is missing. *)
CondDestroyBusy(t, c) ==
    /\ Running(t)
    /\ c \in objs \cap Conds
    /\ objs' = objs \ {c}
    /\ UNCHANGED <<tvars, jvars, waitq, owner, holds, signalled, iovars>>

st_cond_destroy(t, c) ==
    /\ Running(t)
    /\ c \in objs \cap Conds
    /\ waitq[c] = <<>>
    /\ objs' = objs \ {c}
    /\ UNCHANGED <<tvars, jvars, waitq, owner, holds, signalled, iovars>>

(* timed is FALSE for ST_UTIME_NO_TIMEOUT, which is what st_cond_wait passes. *)
st_cond_timedwait(t, c, timed) ==
    /\ Running(t)
    /\ c \in objs \cap Conds
    /\ \/ ReturnEINTR(t) /\ UNCHANGED waitq
       \/ /\ ~Interrupted(t)
          /\ Block(t, "COND_WAIT", "cond", IF timed THEN {"ON_SLEEPQ"} ELSE {}, c)
          /\ waitq' = [waitq EXCEPT ![c] = Append(@, t)]
    /\ UNCHANGED <<jvars, objs, owner, holds, signalled, iovars>>

ResumeCond(t) ==
    /\ cur = t /\ pc[t] = "cond"
    /\ waitq' = [waitq EXCEPT ![wobj[t]] = Unlink(@, t)]
    /\ Return(t, {"TIMEDOUT", "INTERRUPT"})
    /\ signalled' = signalled \ {t}
    /\ UNCHANGED <<state, runq, cur, jvars, objs, owner, holds, iovars>>

(* Mutant: a waiter that has timed out and is still linked gets the signal. *)
SignalTimedOut(c) ==
    \E i \in DOMAIN waitq[c] :
        /\ IsFirst(i, {j \in DOMAIN waitq[c] : \/ state[waitq[c][j]] = "COND_WAIT"
                                              \/ "TIMEDOUT" \in flags[waitq[c][j]]})
        /\ MakeRunnable(waitq[c][i], {})
        /\ signalled' = signalled \cup {waitq[c][i]}

(* One round of the loop of _st_cond_signal: unblock the first waiter that is
   still in COND_WAIT. *)
_st_cond_signal(c) ==
    \E i \in DOMAIN waitq[c] :
        /\ IsFirst(i, Waiting(waitq[c], "COND_WAIT"))
        /\ MakeRunnable(waitq[c][i], {})
        /\ signalled' = signalled \cup {waitq[c][i]}

st_cond_signal(t, c) ==
    /\ Running(t)
    /\ c \in objs \cap Conds
    /\ _st_cond_signal(c)
    /\ UNCHANGED <<pc, wobj, cur, jvars, objs, waitq, owner, holds, iovars>>

(* A broadcast goes on unblocking until no waiter is left; its caller keeps the
   processor throughout. *)
st_cond_broadcast(t, c) ==
    /\ Running(t)
    /\ c \in objs \cap Conds
    /\ pc' = [pc EXCEPT ![t] = "bcast"]
    /\ wobj' = [wobj EXCEPT ![t] = c]
    /\ UNCHANGED <<state, flags, runq, cur, jvars, svars, iovars>>

BroadcastNext(t) ==
    /\ cur = t /\ pc[t] = "bcast"
    /\ \/ /\ _st_cond_signal(wobj[t])
          /\ UNCHANGED <<pc, wobj>>
       \/ /\ Waiting(waitq[wobj[t]], "COND_WAIT") = {}
          /\ Return(t, {})
          /\ UNCHANGED <<state, runq, signalled>>
    /\ UNCHANGED <<cur, jvars, objs, waitq, owner, holds, iovars>>

-----------------------------------------------------------------------------
(* Mutexes *)

st_mutex_destroy(t, m) ==
    /\ Running(t)
    /\ m \in objs \cap Mutexes
    /\ owner[m] = NULL /\ waitq[m] = <<>>
    /\ objs' = objs \ {m}
    /\ UNCHANGED <<tvars, jvars, waitq, owner, holds, signalled, iovars>>

Acquire(t, m) ==
    /\ owner[m] = NULL
    /\ owner' = [owner EXCEPT ![m] = t]
    /\ holds' = holds \cup {<<t, m>>}

st_mutex_lock(t, m) ==
    /\ Running(t)
    /\ m \in objs \cap Mutexes
    /\ \/ ReturnEINTR(t) /\ UNCHANGED <<waitq, owner, holds>>
       \/ /\ ~Interrupted(t)
          /\ Acquire(t, m)
          /\ UNCHANGED <<tvars, waitq>>
       \/ /\ ~Interrupted(t)
          /\ owner[m] \notin {NULL, t}
          /\ Block(t, "LOCK_WAIT", "lock", {}, m)
          /\ waitq' = [waitq EXCEPT ![m] = Append(@, t)]
          /\ UNCHANGED <<owner, holds>>
    /\ UNCHANGED <<jvars, objs, signalled, iovars>>

(* Mutant: the interrupt is not looked at after the context switch. *)
ResumeLockBlindly(t) ==
    /\ cur = t /\ pc[t] = "lock"
    /\ waitq' = [waitq EXCEPT ![wobj[t]] = Unlink(@, t)]
    /\ Return(t, {})
    /\ holds' = holds \cup {<<t, wobj[t]>>}
    /\ UNCHANGED <<state, runq, cur, jvars, objs, owner, signalled, iovars>>

(* An interrupt that arrives after the hand-off does not fail the call. *)
ResumeLock(t) ==
    LET m == wobj[t]
    IN /\ cur = t /\ pc[t] = "lock"
       /\ waitq' = [waitq EXCEPT ![m] = Unlink(@, t)]
       /\ \/ /\ Interrupted(t) /\ owner[m] # t
             /\ Return(t, {"INTERRUPT"})
             /\ UNCHANGED holds
          \/ /\ ~(Interrupted(t) /\ owner[m] # t)
             /\ Return(t, {})
             /\ holds' = holds \cup {<<t, m>>}
       /\ UNCHANGED <<state, runq, cur, jvars, objs, owner, signalled, iovars>>

(* Mutant: only the head of the wait queue is looked at. *)
UnlockHeadOnly(t, m) ==
    /\ Running(t)
    /\ m \in objs \cap Mutexes
    /\ owner[m] = t
    /\ holds' = holds \ {<<t, m>>}
    /\ \/ /\ 1 \in Waiting(waitq[m], "LOCK_WAIT")
          /\ owner' = [owner EXCEPT ![m] = waitq[m][1]]
          /\ state' = [state EXCEPT ![waitq[m][1]] = "RUNNABLE"]
          /\ runq' = Append(runq, waitq[m][1])
       \/ /\ 1 \notin Waiting(waitq[m], "LOCK_WAIT")
          /\ owner' = [owner EXCEPT ![m] = NULL]
          /\ UNCHANGED <<state, runq>>
    /\ UNCHANGED <<flags, pc, wobj, cur, jvars, objs, waitq, signalled, iovars>>

(* The lock is handed to the first waiter still in LOCK_WAIT. *)
st_mutex_unlock(t, m) ==
    /\ Running(t)
    /\ m \in objs \cap Mutexes
    /\ owner[m] = t
    /\ holds' = holds \ {<<t, m>>}
    /\ \/ \E i \in DOMAIN waitq[m] :
            /\ IsFirst(i, Waiting(waitq[m], "LOCK_WAIT"))
            /\ owner' = [owner EXCEPT ![m] = waitq[m][i]]
            /\ state' = [state EXCEPT ![waitq[m][i]] = "RUNNABLE"]
            /\ runq' = Append(runq, waitq[m][i])
       \/ /\ Waiting(waitq[m], "LOCK_WAIT") = {}
          /\ owner' = [owner EXCEPT ![m] = NULL]
          /\ UNCHANGED <<state, runq>>
    /\ UNCHANGED <<flags, pc, wobj, cur, jvars, objs, waitq, signalled, iovars>>

st_mutex_trylock(t, m) ==
    /\ Running(t)
    /\ m \in objs \cap Mutexes
    /\ Acquire(t, m)
    /\ UNCHANGED <<tvars, jvars, objs, waitq, signalled, iovars>>

-----------------------------------------------------------------------------
(* Overlapped I/O *)

(* st_read and the other I/O and database calls post the operation; it may finish
   before the caller blocks. *)
PostOperation(t) ==
    /\ Running(t) /\ t \in IoThreads
    /\ pending' = pending \cup {t}
    /\ pc' = [pc EXCEPT ![t] = "post"]
    /\ UNCHANGED <<state, flags, wobj, runq, cur, jvars, svars, doneq, event, ppc, ipc>>

(* A thread whose interrupt flag is set does not block; the timeout is ignored. *)
_st_wait(t) ==
    /\ cur = t /\ pc[t] = "post"
    /\ \/ Interrupted(t) /\ Return(t, {"INTERRUPT"}) /\ UNCHANGED <<state, runq, cur>>
       \/ ~Interrupted(t) /\ Block(t, "IO_WAIT", "io", {}, NULL)
    /\ UNCHANGED <<jvars, svars, iovars>>

ResumeWait(t) ==
    /\ cur = t /\ pc[t] = "io"
    /\ Return(t, {"INTERRUPT"})
    /\ UNCHANGED <<state, runq, cur, jvars, svars, iovars>>

(* A producer queues the thread of a finished operation, then sets the event. *)
ProducerEnqueue(p, t) ==
    /\ ppc[p] = "get" /\ t \in pending
    /\ pending' = pending \ {t}
    /\ doneq' = Append(doneq, t)
    /\ ppc' = [ppc EXCEPT ![p] = "set"]
    /\ UNCHANGED <<tvars, jvars, svars, event, ipc>>

ProducerSetEvent(p) ==
    /\ ppc[p] = "set"
    /\ event' = TRUE
    /\ ppc' = [ppc EXCEPT ![p] = "get"]
    /\ UNCHANGED <<tvars, jvars, svars, pending, doneq, ipc>>

-----------------------------------------------------------------------------
(* The idle thread *)

(* WaitForSingleObject: the queue is read only when the event was set. *)
IdleWait ==
    /\ cur = Idle /\ ipc = "loop" /\ active > 0
    /\ ipc' = IF event THEN "drain" ELSE "reset"
    /\ UNCHANGED <<tvars, jvars, svars, pending, doneq, event, ppc>>

(* No thread is left: exit(0). *)
IdleExit ==
    /\ cur = Idle /\ ipc = "loop" /\ active = 0
    /\ ipc' = "exited"
    /\ UNCHANGED <<tvars, jvars, svars, pending, doneq, event, ppc>>

IdleDrain ==
    /\ cur = Idle /\ ipc = "drain"
    /\ \/ /\ doneq # <<>>
          /\ doneq' = Tail(doneq)
          /\ MakeRunnable(Head(doneq), {})
          /\ UNCHANGED ipc
       \/ /\ doneq = <<>>
          /\ ipc' = "reset"
          /\ UNCHANGED <<doneq, state, flags, runq>>
    /\ UNCHANGED <<pc, wobj, cur, jvars, svars, pending, event, ppc>>

IdleReset ==
    /\ cur = Idle /\ ipc = "reset"
    /\ event' = FALSE
    /\ ipc' = "clock"
    /\ UNCHANGED <<tvars, jvars, svars, pending, doneq, ppc>>

(* _st_vp_check_clock: a sleeper whose time has come. *)
ClockExpire(t) ==
    /\ cur = Idle /\ ipc = "clock"
    /\ "ON_SLEEPQ" \in flags[t]
    /\ MakeRunnable(t, IF state[t] = "COND_WAIT" THEN {"TIMEDOUT"} ELSE {})
    /\ UNCHANGED <<pc, wobj, cur, jvars, svars, iovars>>

(* No other sleeper is due: the idle thread switches away. *)
ClockDone ==
    /\ cur = Idle /\ ipc = "clock"
    /\ ipc' = "loop"
    /\ cur' = NULL
    /\ UNCHANGED <<state, flags, pc, wobj, runq, jvars, svars, pending, doneq, event, ppc>>

Exited ==
    /\ ipc = "exited"
    /\ UNCHANGED vars

-----------------------------------------------------------------------------

(* The calls by which thread t gives up the processor. *)
Yield(t) ==
    \/ st_thread_exit(t)
    \/ ResumeExit(t)
    \/ st_usleep(t)
    \/ \E x \in Threads : st_thread_join(t, x)
    \/ \E c \in Conds, timed \in BOOLEAN : st_cond_timedwait(t, c, timed)
    \/ \E m \in Mutexes : st_mutex_lock(t, m)

Resume(t) ==
    \/ ResumeJoin(t) \/ ResumeUsleep(t) \/ ResumeCond(t) \/ ResumeLock(t)
    \/ _st_wait(t) \/ ResumeWait(t) \/ BroadcastNext(t)

Call(t) ==
    \/ \E x \in Threads, joinable \in BOOLEAN : st_thread_create(t, x, joinable)
    \/ \E x \in Threads : st_thread_interrupt(t, x)
    \/ PostOperation(t)
    \/ \E o \in Conds \cup Mutexes : st_obj_new(t, o)
    \/ \E c \in Conds : \/ st_cond_destroy(t, c)
                        \/ st_cond_signal(t, c)
                        \/ st_cond_broadcast(t, c)
    \/ \E m \in Mutexes : \/ st_mutex_destroy(t, m)
                          \/ st_mutex_unlock(t, m)
                          \/ st_mutex_trylock(t, m)

IdleStep == IdleWait \/ IdleExit \/ IdleDrain \/ IdleReset \/ ClockDone

Next ==
    \/ _st_vp_schedule
    \/ \E t \in Threads : Yield(t) \/ Resume(t) \/ Call(t) \/ ClockExpire(t)
    \/ \E p \in Producers : ProducerSetEvent(p) \/ \E t \in Threads : ProducerEnqueue(p, t)
    \/ IdleStep
    \/ Exited

Spec == Init /\ [][Next]_vars

(* A running coroutine eventually blocks or exits (strong fairness, because a
   broadcast in progress disables the calls that block), a timeout that is on the
   sleep queue while the idle thread keeps checking the clock expires, the
   scheduler and the idle thread keep running, and a producer that queued a thread
   goes on to set the event: these are loops of OS threads.  No call is owed by
   the application and no operation need ever finish. *)
Fairness ==
    /\ WF_vars(_st_vp_schedule)
    /\ WF_vars(IdleStep)
    /\ \A t \in Threads : /\ SF_vars(Yield(t) /\ cur' = NULL)
                          /\ WF_vars(Resume(t))
                          /\ SF_vars(ClockExpire(t))
    /\ \A p \in Producers : WF_vars(ProducerSetEvent(p))

FairSpec == Spec /\ Fairness

-----------------------------------------------------------------------------
(* Safety *)

Alive(t) == state[t] \notin {"UNUSED", "ZOMBIE", "FREED"} /\ pc[t] # "exit"

(* The run queue holds every runnable thread once and nothing else.  The links
   field is shared by the run and sleep queues, so a second insertion would
   corrupt both, and ST_ASSERT(thread->state == _ST_ST_RUNNABLE) in
   _st_vp_schedule would fail. *)
RunQExact ==
    /\ IsInjective(runq)
    /\ Range(runq) = {t \in Threads : state[t] = "RUNNABLE"}

(* Every blocked thread is still reachable by whoever has to wake it: a sleeper
   through the sleep queue, a waiter through its object's wait_q, an I/O waiter
   through the completion queue; and a thread on the sleep queue is blocked, so
   its links field is on no other queue. *)
BlockedIsQueued ==
    \A t \in Threads :
        /\ state[t] = "SLEEPING" => "ON_SLEEPQ" \in flags[t]
        /\ "ON_SLEEPQ" \in flags[t] => state[t] \in {"SLEEPING", "COND_WAIT"}
        /\ state[t] \in {"COND_WAIT", "LOCK_WAIT"} => t \in Range(waitq[wobj[t]])
        /\ state[t] = "IO_WAIT" => t \in pending \cup Range(doneq)

(* A lock call that returned 0 made its caller the owner, and it stays the owner
   until it unlocks: hand-off and interruption cannot produce two holders. *)
MutualExclusion == \A h \in holds : owner[h[2]] = h[1]

(* st_mutex_unlock skips interrupted waiters but never frees the mutex while some
   thread is still blocked on it. *)
NoLostHandoff ==
    \A m \in Mutexes : owner[m] = NULL => Waiting(waitq[m], "LOCK_WAIT") = {}

(* _st_cond_signal never spends a signal on a waiter whose timeout has already
   expired: such a waiter returns ETIME and another one gets the signal. *)
SignalNotTimedOut == \A t \in signalled : "TIMEDOUT" \notin flags[t]

(* A thread woken inside st_thread_join finds a zombie unless it was interrupted,
   and a zombie never leaves a joiner blocked. *)
JoinWakesOnZombie ==
    \A t \in Threads : pc[t] = "join" =>
        IF state[t] = "COND_WAIT" THEN state[wobj[t]] # "ZOMBIE"
        ELSE Interrupted(t) \/ state[wobj[t]] = "ZOMBIE"

(* _st_active_count, which decides when the process exits, counts exactly the
   threads that have not called st_thread_exit. *)
ActiveCountExact == active = Cardinality({t \in Threads : Alive(t)})

(* Destroying a condition variable or a mutex never leaves a thread linked to
   freed memory, even one that was interrupted and has not run yet; and a freed
   mutex has no owner. *)
FreedObjectUnused ==
    /\ \A o \in Objects \ objs : waitq[o] = <<>>
    /\ \A m \in Mutexes \ objs : owner[m] = NULL

(* ST_ASSERT(thread->state == _ST_ST_RUNNABLE), _st_vp_schedule. *)
ScheduledIsRunnable == cur = NULL /\ runq # <<>> => state[Head(runq)] = "RUNNABLE"

-----------------------------------------------------------------------------
(* The inductive invariant behind the safety properties.  It holds when the
   application interrupts no thread that does I/O. *)

NoIoInterrupts == Targets \cap IoThreads = {}

Waits(t) == pc[t] \in {"cond", "join", "lock"}

Woken(t) == state[t] \in {"RUNNABLE", "RUNNING"}

CurInv == \A t \in Threads : state[t] = "RUNNING" <=> cur = t

PlaceInv ==
    \A t \in Threads :
        /\ pc[t] = "run" => Woken(t) \/ state[t] \in {"UNUSED", "FREED"}
        /\ pc[t] \in {"post", "bcast"} => state[t] = "RUNNING"
        /\ pc[t] = "usleep" => Woken(t) \/ state[t] = "SLEEPING"
        /\ pc[t] \in {"cond", "join"} => Woken(t) \/ state[t] = "COND_WAIT"
        /\ pc[t] = "lock" => Woken(t) \/ state[t] = "LOCK_WAIT"
        /\ pc[t] = "io" => Woken(t) \/ state[t] = "IO_WAIT"
        /\ pc[t] = "exit" => Woken(t) \/ state[t] \in {"ZOMBIE", "FREED"}

WaitInv ==
    /\ \A o \in Objects : IsInjective(waitq[o])
    /\ \A o \in Objects, t \in Threads :
            t \in Range(waitq[o]) <=> wobj[t] = o /\ Waits(t)
    /\ \A t \in Threads :
            /\ Waits(t) => wobj[t] \in objs
            /\ pc[t] \in {"cond", "bcast"} => wobj[t] \in Conds
            /\ pc[t] = "join" => wobj[t] \in Threads
            /\ pc[t] = "lock" => wobj[t] \in Mutexes

FlagInv ==
    \A t \in Threads :
        /\ state[t] = "SLEEPING" => "ON_SLEEPQ" \in flags[t]
        /\ "ON_SLEEPQ" \in flags[t] => state[t] = "SLEEPING"
                                        \/ (state[t] = "COND_WAIT" /\ pc[t] = "cond")
        /\ "TIMEDOUT" \in flags[t] => pc[t] = "cond" /\ Woken(t) /\ t \notin signalled
        /\ t \in signalled => pc[t] \in {"cond", "join"} /\ Woken(t)

IoInv ==
    /\ IsInjective(doneq)
    /\ pending \cap Range(doneq) = {}
    /\ \A t \in Threads :
            t \in pending \cup Range(doneq) <=> pc[t] = "post" \/ state[t] = "IO_WAIT"
    /\ \A t \in IoThreads : ~Interrupted(t)

LockInv ==
    /\ \A t \in Threads, m \in Mutexes : <<t, m>> \in holds => owner[m] = t
    /\ \A t \in Threads : pc[t] = "lock" =>
            IF state[t] = "LOCK_WAIT" THEN owner[wobj[t]] # NULL
            ELSE owner[wobj[t]] = t \/ Interrupted(t)
    /\ \A m \in Mutexes \ objs : owner[m] = NULL

JoinInv ==
    /\ JoinWakesOnZombie
    /\ \A t, u \in Threads :
            pc[t] = "join" /\ pc[u] = "join" /\ wobj[t] = wobj[u] => t = u
    /\ \A x \in Threads : x \in term => x \in objs /\ state[x] \notin {"UNUSED", "FREED"}

IInv ==
    /\ TypeOK
    /\ RunQExact
    /\ CurInv
    /\ PlaceInv
    /\ WaitInv
    /\ FlagInv
    /\ IoInv
    /\ LockInv
    /\ JoinInv
    /\ ActiveCountExact

-----------------------------------------------------------------------------
(* Liveness *)

(* The run queue is first in, first out: a runnable thread eventually runs. *)
RunnableRuns == \A t \in Threads : state[t] = "RUNNABLE" ~> state[t] # "RUNNABLE"

(* "Idle vp till I/O is ready or the smallest timeout expired": a thread whose
   operation has completed is eventually made runnable. *)
CompletedIoResumes == \A t \in Threads : t \in Range(doneq) ~> t \notin Range(doneq)
=============================================================================
