----------------------------- MODULE ThreadData -----------------------------
(***************************************************************************)
(* Thread-specific data (key.cpp) and the stack cache (stk.cpp) as         *)
(* st_thread_create, st_thread_exit and st_thread_join (sched_win.cpp) use *)
(* them.  A thread's array of specific data lies at the top of its stack,  *)
(* and a stack that is given back is handed to a later thread: what the    *)
(* array holds then is what the previous thread left there.                *)
(*                                                                         *)
(* Every value a thread stores is fresh, so that a destructor's calls can  *)
(* be counted; 0 is NULL.                                                  *)
(***************************************************************************)
EXTENDS Integers, Sequences, FiniteSets, SequencesExt

CONSTANTS Threads,      \* threads the program can have at a time
          Main,         \* the primordial thread, whose array is calloc'ed
          KeysMax,      \* ST_KEYS_MAX
          StkSizes,     \* the stk_size arguments of st_thread_create
          DefaultSize,  \* ST_DEFAULT_STACK_SIZE
          PageSize,     \* _ST_PAGE_SIZE
          MaxStacks,    \* bound on the stacks allocated
          MaxValues     \* bound on the values stored

ASSUME TdAssumption ==
  /\ Main \notin Threads
  /\ KeysMax \in Nat \ {0} /\ PageSize \in Nat \ {0}
  /\ DefaultSize \in Nat \ {0} /\ StkSizes \subseteq Nat
  /\ MaxStacks \in Nat /\ MaxValues \in Nat

VARIABLES
  stacks,     \* stk_size of every stack allocated; a stack is its index
  free,       \* _st_free_stacks, from its head
  data,       \* the array of specific data in each stack; data[0] is Main's
  stk,        \* the stack of each thread, 0 for Main, or NoStack
  status,     \* "none", "run" or "zombie"
  joinable,   \* the thread has a term condition variable
  keys,       \* keys created: whether each has a destructor (key_max = Len)
  set,        \* history: what each thread last stored under each key
  vals        \* history: each value's key and how often it was destroyed

tdvars == <<stacks, free, data, stk, status, joinable, keys, set, vals>>

NoStack == -1
Keys == 1..KeysMax
NoData == [k \in Keys |-> 0]
All == Threads \cup {Main}
Array(t) == data[stk[t]]

TdInit ==
  /\ stacks = <<>> /\ free = <<>>
  /\ data = [s \in 0..MaxStacks |-> NoData]
  /\ stk = [t \in All |-> IF t = Main THEN 0 ELSE NoStack]
  /\ status = [t \in All |-> IF t = Main THEN "run" ELSE "none"]
  /\ joinable = [t \in All |-> FALSE]
  /\ keys = <<>>
  /\ set = [t \in All |-> NoData]
  /\ vals = <<>>

----------------------------------------------------------------------------
(* key.cpp *)

\* The destructor of each key in ks is called on the array's value, if both
\* exist.
Destroy(ks, array) ==
  [v \in DOMAIN vals |->
     IF \E k \in ks : array[k] = v /\ keys[k]
     THEN [vals[v] EXCEPT !.n = @ + 1] ELSE vals[v]]

\* With key_max = ST_KEYS_MAX the call returns EAGAIN.
st_key_create(dtor) ==
  /\ Len(keys) < KeysMax
  /\ keys' = Append(keys, dtor)
  /\ UNCHANGED <<stacks, free, data, stk, status, joinable, set, vals>>

\* The value is NULL, a new one or the one already stored; storing that one
\* again destroys nothing.
st_thread_setspecific(t, k) ==
  /\ status[t] = "run" /\ k \in DOMAIN keys
  /\ \E v \in {0, Array(t)[k], Len(vals) + 1} :
       /\ v <= MaxValues
       /\ LET rest == IF v # Array(t)[k] THEN Destroy({k}, Array(t)) ELSE vals
          IN vals' = IF v > Len(vals) THEN Append(rest, [key |-> k, n |-> 0])
                                      ELSE rest
       /\ data' = [data EXCEPT ![stk[t]][k] = v]
       /\ set' = [set EXCEPT ![t][k] = v]
  /\ UNCHANGED <<stacks, free, stk, status, joinable, keys>>

\* _st_thread_cleanup clears the values it destroys, and only those.
Cleaned(a) ==
  [k \in Keys |-> IF k <= Len(keys) /\ keys[k] THEN 0 ELSE a[k]]

_st_thread_cleanup(t) ==
  /\ data' = [data EXCEPT ![stk[t]] = Cleaned(@)]
  /\ vals' = Destroy({k \in DOMAIN keys : Cleaned(Array(t))[k] # Array(t)[k]},
                     Array(t))
  /\ set' = [set EXCEPT ![t] = NoData]

----------------------------------------------------------------------------
(* stk.cpp *)

\* ST_APPEND_LINK(&ts->links, _st_free_stacks.prev) links the stack before
\* the last one of the list, not behind it.
_st_stack_free(fs, s) ==
  IF fs = <<>> THEN <<s>> ELSE Front(fs) \o <<s, Last(fs)>>

\* The place of the first stack of the list that is big enough, 0 if none is.
FirstFit(size) ==
  LET fits == {i \in DOMAIN free : stacks[free[i]] >= size}
  IN IF fits = {} THEN 0 ELSE CHOOSE i \in fits : \A j \in fits : i <= j

\* The stack handed out, and the list and the stacks after that.
_st_stack_new(size) ==
  LET i == FirstFit(size) IN
    IF i # 0
    THEN [s |-> free[i], free |-> RemoveAt(free, i), stacks |-> stacks]
    ELSE [s |-> Len(stacks) + 1, free |-> free, stacks |-> Append(stacks, size)]

----------------------------------------------------------------------------
(* sched_win.cpp *)

RoundUp(size) ==
  (((IF size = 0 THEN DefaultSize ELSE size) + PageSize - 1) \div PageSize)
     * PageSize

NotCleared(array) == array
\* memset(ptds, 0, ...): the array of the stack's last owner is overwritten.
Cleared(array) == NoData

\* The stack is taken and its array cleared before the term condition
\* variable is allocated; when that fails (ok is FALSE) it is given back.
st_thread_create(t, size, j, ok) ==
  LET new == _st_stack_new(RoundUp(size)) IN
    /\ status[t] = "none" /\ (ok \/ j)
    /\ Len(new.stacks) <= MaxStacks
    /\ stacks' = new.stacks
    /\ data' = [data EXCEPT ![new.s] = Cleared(@)]
    /\ IF ok
       THEN /\ free' = new.free
            /\ stk' = [stk EXCEPT ![t] = new.s]
            /\ status' = [status EXCEPT ![t] = "run"]
            /\ joinable' = [joinable EXCEPT ![t] = j]
       ELSE /\ free' = _st_stack_free(new.free, new.s)
            /\ UNCHANGED <<stk, status, joinable>>
    /\ UNCHANGED <<keys, set, vals>>

\* A joinable thread keeps its stack until it has been joined; the
\* primordial thread has none to give back.
st_thread_exit(t) ==
  /\ status[t] = "run"
  /\ _st_thread_cleanup(t)
  /\ IF joinable[t] \/ t = Main
     THEN /\ status' = [status EXCEPT ![t] = "zombie"]
          /\ UNCHANGED <<free, stk>>
     ELSE /\ status' = [status EXCEPT ![t] = "none"]
          /\ free' = _st_stack_free(free, stk[t])
          /\ stk' = [stk EXCEPT ![t] = NoStack]
  /\ UNCHANGED <<stacks, joinable, keys>>

\* After the join the zombie runs once more and gives its stack back.
st_thread_join(t) ==
  /\ status[t] = "zombie" /\ t # Main
  /\ status' = [status EXCEPT ![t] = "none"]
  /\ free' = _st_stack_free(free, stk[t])
  /\ stk' = [stk EXCEPT ![t] = NoStack]
  /\ UNCHANGED <<stacks, data, joinable, keys, set, vals>>

TdNext ==
  \/ \E dtor \in BOOLEAN : st_key_create(dtor)
  \/ \E t \in All, k \in Keys : st_thread_setspecific(t, k)
  \/ \E t \in Threads, size \in StkSizes, j, ok \in BOOLEAN :
       st_thread_create(t, size, j, ok)
  \/ \E t \in All : st_thread_exit(t)
  \/ \E t \in Threads : st_thread_join(t)

TdSpec == TdInit /\ [][TdNext]_tdvars

----------------------------------------------------------------------------
(* Each stack belongs to one thread that has not finished, or is linked in *)
(* the free list exactly once; a running thread reads under every key what *)
(* it last stored itself, NULL at first (st_thread_getspecific), although  *)
(* its array lies in a stack earlier threads used; and a value stored      *)
(* under a key with a destructor is destroyed once when no thread holds it *)
(* any more and never before.                                              *)
ThreadStorageSound ==
  /\ \A s \in DOMAIN stacks :
       Cardinality({i \in DOMAIN free : free[i] = s})
         + Cardinality({t \in Threads : stk[t] = s}) = 1
  /\ \A t \in All : status[t] = "run" => Array(t) = set[t]
  /\ \A v \in DOMAIN vals : keys[vals[v].key] =>
       vals[v].n = IF \E t \in All : set[t][vals[v].key] = v THEN 0 ELSE 1

=============================================================================
