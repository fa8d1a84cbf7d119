---------------------------- MODULE LockFreeQueue ----------------------------
(***************************************************************************)
(* The linked queue of lock_free_queue.cpp through which the IOCP worker   *)
(* and the database threads hand finished threads to the idle thread.      *)
(* Every access to shared memory is a step of its own.  A pointer and its  *)
(* count are read and written separately: cas_back reads count then ptr,   *)
(* and cas compares and swaps the pointer only, then stores the count.     *)
(* Nodes are allocated by calloc and freed by the dequeuer, so the same     *)
(* address comes back; a read of a freed node returns anything.            *)
(* There is one dequeuer, the idle thread, so its test that head has not   *)
(* changed always succeeds and its own variables are plain variables.      *)
(***************************************************************************)
EXTENDS Naturals, Sequences, FiniteSets, SequencesExt

CONSTANTS
    Producers,  \* OS threads that enqueue
    Values,     \* the threads handed over
    Nodes,      \* node addresses
    NULL,
    MaxOps      \* bound: number of enqueue calls

ASSUME QueueAssumption ==
    /\ NULL \notin Nodes /\ NULL \notin Values
    /\ IsFiniteSet(Nodes)
    /\ MaxOps \in Nat

VARIABLES
    live,        \* allocated nodes
    value, next, \* contents of the nodes
    head, tail,  \* queue->head and queue->tail
    ppc, ploc,   \* where each enqueue is, and its local variables
    dpc, dloc,   \* the same for the dequeue
    out,         \* what the last dequeue stored in *thread; NULL if it failed
    ops          \* enqueue calls so far

pvars == <<ppc, ploc>>
dvars == <<dpc, dloc, out>>
mvars == <<live, value, next, head, tail>>
vars == <<mvars, pvars, dvars, ops>>

(* st_pointer_t is a node's address and a count. *)
Ptr == Nodes \cup {NULL}
Nil == [ptr |-> NULL, count |-> 0]

(* _st_lock_free_queue_open: one dummy node. *)
_st_lock_free_queue_open ==
    \E n \in Nodes :
        /\ live = {n}
        /\ head = [ptr |-> n, count |-> 0]
        /\ tail = [ptr |-> n, count |-> 0]

Init ==
    /\ _st_lock_free_queue_open
    /\ value = [n \in Nodes |-> NULL]
    /\ next = [n \in Nodes |-> Nil]
    /\ ppc = [p \in Producers |-> "idle"]
    /\ ploc = [p \in Producers |-> [node |-> NULL, tail |-> Nil, next |-> Nil]]
    /\ dpc = "idle"
    /\ dloc = [head |-> Nil, tail |-> Nil, next |-> Nil]
    /\ out = NULL
    /\ ops = 0

-----------------------------------------------------------------------------
(* What a read of a field of node n can return. *)
ReadPtr(n) == IF n \in live THEN {next[n].ptr} ELSE Ptr
ReadCount(n) == IF n \in live THEN {next[n].count} ELSE {0, next[n].count}

Goto(p, l) == ppc' = [ppc EXCEPT ![p] = l]

-----------------------------------------------------------------------------
(* _st_lock_free_enqueue *)

EnqueueStart(p, v) ==
    /\ ppc[p] = "idle" /\ ops < MaxOps
    /\ \E n \in Nodes \ live :
        /\ live' = live \cup {n}
        /\ value' = [value EXCEPT ![n] = v]
        /\ next' = [next EXCEPT ![n] = Nil]
        /\ ploc' = [ploc EXCEPT ![p].node = n]
    /\ ops' = ops + 1
    /\ Goto(p, "tcount")
    /\ UNCHANGED <<head, tail, dvars>>

ReadTailCount(p) ==
    /\ ppc[p] = "tcount"
    /\ ploc' = [ploc EXCEPT ![p].tail.count = tail.count]
    /\ Goto(p, "tptr")
    /\ UNCHANGED <<mvars, dvars, ops>>

ReadTailPtr(p) ==
    /\ ppc[p] = "tptr"
    /\ ploc' = [ploc EXCEPT ![p].tail.ptr = tail.ptr]
    /\ Goto(p, "nptr")
    /\ UNCHANGED <<mvars, dvars, ops>>

ReadNextPtr(p) ==
    /\ ppc[p] = "nptr"
    /\ \E x \in ReadPtr(ploc[p].tail.ptr) : ploc' = [ploc EXCEPT ![p].next.ptr = x]
    /\ Goto(p, "ncount")
    /\ UNCHANGED <<mvars, dvars, ops>>

ReadNextCount(p) ==
    /\ ppc[p] = "ncount"
    /\ \E k \in ReadCount(ploc[p].tail.ptr) : ploc' = [ploc EXCEPT ![p].next.count = k]
    /\ Goto(p, "ckcount")
    /\ UNCHANGED <<mvars, dvars, ops>>

(* Mutant: the tail is not compared again after next was read. *)
CheckNothing(p) ==
    /\ ppc[p] = "ckcount"
    /\ Goto(p, IF ploc[p].next.ptr = NULL THEN "link" ELSE "swing")
    /\ UNCHANGED <<mvars, ploc, dvars, ops>>

CheckTailCount(p) ==
    /\ ppc[p] = "ckcount"
    /\ Goto(p, IF ploc[p].tail.count = tail.count THEN "ckptr" ELSE "tcount")
    /\ UNCHANGED <<mvars, ploc, dvars, ops>>

(* Mutant: a tail that lags behind is left to somebody else. *)
CheckNoHelp(p) ==
    /\ ppc[p] = "ckptr"
    /\ Goto(p, IF ploc[p].tail.ptr = tail.ptr /\ ploc[p].next.ptr = NULL
               THEN "link" ELSE "tcount")
    /\ UNCHANGED <<mvars, ploc, dvars, ops>>

CheckTailPtr(p) ==
    /\ ppc[p] = "ckptr"
    /\ Goto(p, IF ploc[p].tail.ptr # tail.ptr THEN "tcount"
               ELSE IF ploc[p].next.ptr = NULL THEN "link" ELSE "swing")
    /\ UNCHANGED <<mvars, ploc, dvars, ops>>

(* cas(&tail.ptr->next, next, node): the comparison is with the NULL read before.
   The call is done when the node is linked; the tail is left behind. *)
LinkNode(p) ==
    LET n == ploc[p].tail.ptr
    IN /\ ppc[p] = "link"
       /\ \E x \in ReadPtr(n) :
            \/ /\ x = NULL
               /\ next' = [next EXCEPT ![n].ptr = ploc[p].node]
               /\ Goto(p, "lcount")
            \/ /\ x # NULL
               /\ UNCHANGED next
               /\ Goto(p, "tcount")
       /\ UNCHANGED <<live, value, head, tail, ploc, dvars, ops>>

StoreNextCount(p) ==
    /\ ppc[p] = "lcount"
    /\ next' = [next EXCEPT ![ploc[p].tail.ptr].count = ploc[p].next.count + 1]
    /\ Goto(p, "idle")
    /\ UNCHANGED <<live, value, head, tail, ploc, dvars, ops>>

(* cas(&queue->tail, tail, next) *)
SwingTail(p) ==
    /\ ppc[p] = "swing"
    /\ \/ /\ tail.ptr = ploc[p].tail.ptr
          /\ tail' = [tail EXCEPT !.ptr = ploc[p].next.ptr]
          /\ Goto(p, "scount")
       \/ /\ tail.ptr # ploc[p].tail.ptr
          /\ UNCHANGED tail
          /\ Goto(p, "tcount")
    /\ UNCHANGED <<live, value, next, head, ploc, dvars, ops>>

StoreTailCount(p) ==
    /\ ppc[p] = "scount"
    /\ tail' = [tail EXCEPT !.count = ploc[p].tail.count + 2]
    /\ Goto(p, "tcount")
    /\ UNCHANGED <<live, value, next, head, ploc, dvars, ops>>

-----------------------------------------------------------------------------
(* _st_lock_free_dequeue *)

DequeueStart ==
    /\ dpc = "idle"
    /\ dloc' = [dloc EXCEPT !.head = head]
    /\ dpc' = "tcount"
    /\ UNCHANGED <<mvars, pvars, out, ops>>

DeqReadTailCount ==
    /\ dpc = "tcount"
    /\ dloc' = [dloc EXCEPT !.tail.count = tail.count]
    /\ dpc' = "tptr"
    /\ UNCHANGED <<mvars, pvars, out, ops>>

DeqReadTailPtr ==
    /\ dpc = "tptr"
    /\ dloc' = [dloc EXCEPT !.tail.ptr = tail.ptr]
    /\ dpc' = "ncount"
    /\ UNCHANGED <<mvars, pvars, out, ops>>

DeqReadNextCount ==
    /\ dpc = "ncount"
    /\ dloc' = [dloc EXCEPT !.next.count = next[dloc.head.ptr].count]
    /\ dpc' = "nptr"
    /\ UNCHANGED <<mvars, pvars, out, ops>>

(* Mutant: the queue is taken for empty whenever head meets tail. *)
DeqReadNextPtrHasty ==
    LET x == next[dloc.head.ptr].ptr
        meet == dloc.head.ptr = dloc.tail.ptr
    IN /\ dpc = "nptr"
       /\ dloc' = [dloc EXCEPT !.next.ptr = x]
       /\ dpc' = IF meet THEN "idle" ELSE "head"
       /\ out' = IF meet THEN NULL ELSE out
       /\ UNCHANGED <<mvars, pvars, ops>>

(* The tests after the last read are local: the queue is empty, or the tail lags
   behind, or there is a node to take. *)
DeqReadNextPtr ==
    LET x == next[dloc.head.ptr].ptr
        meet == dloc.head.ptr = dloc.tail.ptr
    IN /\ dpc = "nptr"
       /\ dloc' = [dloc EXCEPT !.next.ptr = x]
       /\ dpc' = CASE meet /\ x = NULL -> "idle"
                   [] meet /\ x # NULL -> "swing"
                   [] OTHER            -> "head"
       /\ out' = IF meet /\ x = NULL THEN NULL ELSE out
       /\ UNCHANGED <<mvars, pvars, ops>>

DeqSwingTail ==
    /\ dpc = "swing"
    /\ \/ /\ tail.ptr = dloc.tail.ptr
          /\ tail' = [tail EXCEPT !.ptr = dloc.next.ptr]
          /\ dpc' = "scount"
       \/ /\ tail.ptr # dloc.tail.ptr
          /\ UNCHANGED tail
          /\ dpc' = "tcount"
    /\ UNCHANGED <<live, value, next, head, pvars, dloc, out, ops>>

DeqStoreTailCount ==
    /\ dpc = "scount"
    /\ tail' = [tail EXCEPT !.count = dloc.tail.count + 1]
    /\ dpc' = "tcount"
    /\ UNCHANGED <<live, value, next, head, pvars, dloc, out, ops>>

(* The value is read before the head is swung; nobody else swings it. *)
DeqSwingHead ==
    /\ dpc = "head"
    /\ out' = value[dloc.next.ptr]
    /\ head' = [head EXCEPT !.ptr = dloc.next.ptr]
    /\ dpc' = "hcount"
    /\ UNCHANGED <<live, value, next, tail, pvars, dloc, ops>>

DeqStoreHeadCount ==
    /\ dpc = "hcount"
    /\ head' = [head EXCEPT !.count = dloc.head.count + 1]
    /\ dpc' = "free"
    /\ UNCHANGED <<live, value, next, tail, pvars, dloc, out, ops>>

(* "It is now safe to free the old dummy node" *)
DeqFree ==
    /\ dpc = "free"
    /\ live' = live \ {dloc.head.ptr}
    /\ dpc' = "idle"
    /\ UNCHANGED <<value, next, head, tail, pvars, dloc, out, ops>>

-----------------------------------------------------------------------------

EnqueueStep(p) ==
    \/ ReadTailCount(p) \/ ReadTailPtr(p) \/ ReadNextPtr(p) \/ ReadNextCount(p)
    \/ CheckTailCount(p) \/ CheckTailPtr(p)
    \/ LinkNode(p) \/ StoreNextCount(p) \/ SwingTail(p) \/ StoreTailCount(p)

DequeueStep ==
    \/ DeqReadTailCount \/ DeqReadTailPtr \/ DeqReadNextCount \/ DeqReadNextPtr
    \/ DeqSwingTail \/ DeqStoreTailCount
    \/ DeqSwingHead \/ DeqStoreHeadCount \/ DeqFree

Next ==
    \/ \E p \in Producers : (\E v \in Values : EnqueueStart(p, v)) \/ EnqueueStep(p)
    \/ DequeueStart
    \/ DequeueStep

Spec == Init /\ [][Next]_vars

(* A thread inside a queue operation keeps running; nobody has to start one. *)
FairSpec == Spec /\ WF_vars(DequeueStep) /\ \A p \in Producers : WF_vars(EnqueueStep(p))

-----------------------------------------------------------------------------

(* s is the list of the nodes that are linked from h on, h first. *)
IsList(s, h, nx) ==
    /\ s # <<>> /\ s[1] = h
    /\ \A i \in 1..Len(s) - 1 : nx[s[i]].ptr = s[i + 1]
    /\ nx[s[Len(s)]].ptr = NULL

Lists == BoundedSeq(Nodes, Cardinality(Nodes))

(* Refinement mapping: the values of the nodes linked behind the dummy node. *)
Behind(s, val) == [i \in 1..Len(s) - 1 |-> val[s[i + 1]]]
ContentsOf(h, nx, val) == Behind(CHOOSE s \in Lists : IsList(s, h, nx), val)
Contents == ContentsOf(head.ptr, next, value)

F == INSTANCE Fifo WITH q <- Contents, Empty <- NULL

(* With one producer the queue is a FIFO: what is linked comes out once, in order,
   and a dequeue fails only if the queue was empty; stale reads of a tail node
   that was freed in the meantime do no harm. *)
ImplementsFifo == F!Spec

(* "It is now safe to free the old dummy node" (_st_lock_free_dequeue): no enqueue is about to compare and
   swap the next field of a node that has been freed. *)
NoCasOnFreed == \A p \in Producers : ppc[p] = "link" => ploc[p].tail.ptr \in live

(* The enqueue loop of a producer ends, also when nobody dequeues. *)
EnqueueEnds == \A p \in Producers : ppc[p] # "idle" ~> ppc[p] = "idle"
=============================================================================
