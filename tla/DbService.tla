----------------------------- MODULE DbService -----------------------------
(***************************************************************************)
(* The database client of the library (db_sqlserver.cpp).  A connection is *)
(* served by an operating-system thread of its own, db_server, which takes *)
(* operations from a message queue (st_msg_queue_t of lock_queue.h) and    *)
(* posts the coroutine that asked to the completion queue.  The coroutines *)
(* that share a connection run one at a time, each until it waits for its  *)
(* answer; the database thread runs beside them.                           *)
(*                                                                         *)
(* The connection's fields _err_code, _pRst and _fetch_result are shared   *)
(* by all of them.  The database is one table from users to a state.       *)
(***************************************************************************)
EXTENDS Integers, Sequences, FiniteSets, SequencesExt

CONSTANTS
    Clients,    \* coroutines that use the connection
    Users,      \* keys of the table
    States,     \* values of the table
    Absent,     \* no row
    MaxCalls,   \* bound: calls made on the connection
    MaxErrors,  \* bound: failures of the database and of the system
    None

ASSUME DbServiceAssumption ==
    /\ MaxCalls \in Nat /\ MaxErrors \in Nat
    /\ Absent \notin States /\ None \notin Clients

VARIABLES
    dbfd,     \* the connection: "none", "opening", "live", "closing", "freed"
    srv,      \* where the database thread is
    oper,     \* the operation it has taken
    queue,    \* _msg_queue
    event,    \* _notify_event, a manual-reset event
    rst,      \* _pRst: None when closed, else the rows it is open on
    fetched,  \* _fetch_result
    err,      \* _err_code
    table,    \* the database
    running,  \* the coroutine between enqueue() and _st_wait()
    st,       \* the state of every coroutine
    asked,    \* the operation it asked for last
    calls, errors

dvars == <<dbfd, srv, oper, queue, event, rst, fetched, err, table>>
cvars == <<running, st, asked, calls, errors>>
vars  == <<dvars, cvars>>

(* The operations: open, query of a user, fetch, insert, update, close.    *)
Op(e, u, v) == [event |-> e, user |-> u, val |-> v]
Connect == Op("open", None, None)
Fetch   == Op("fetch", None, None)
Close   == Op("close", None, None)

Ops == {Op("query", u, None) : u \in Users} \cup {Fetch}
       \cup {Op(e, u, v) : e \in {"insert", "update"}, u \in Users, v \in States}
       \cup {Op("update", u, None) : u \in Users}

ASSUME NoneAssumption == None \notin [op : Ops \cup {Connect, Close}, thread : Clients]

DbInit ==
    /\ dbfd = "none" /\ srv = "none" /\ oper = None
    /\ queue = <<>> /\ event = FALSE
    /\ rst = None /\ fetched = <<>> /\ err = "ok"
    /\ table \in [Users -> {Absent} \cup States]
    /\ running = None
    /\ st = [c \in Clients |-> "idle"]
    /\ asked = [c \in Clients |-> None]
    /\ calls = 0 /\ errors = 0

-----------------------------------------------------------------------------
(* The coroutines.                                                         *)

(* Allocate the operation, clear the error code, enqueue.                  *)
Submit(c, op) ==
    /\ running \in {None, c}
    /\ queue' = Append(queue, [op |-> op, thread |-> c])
    /\ err' = "ok"
    /\ running' = c
    /\ st' = [st EXCEPT ![c] = "call"]
    /\ asked' = [asked EXCEPT ![c] = op]

(* notify(), then _st_wait(): the coroutine gives up the processor.        *)
Notify(c) ==
    /\ running = c /\ st[c] # "idle"
    /\ event' = TRUE
    /\ running' = None
    /\ st' = [st EXCEPT ![c] = IF @ = "call" THEN "wait" ELSE @]
    /\ UNCHANGED <<dbfd, srv, oper, queue, rst, fetched, err, table, asked, calls, errors>>

(* st_db_connect: the object, its queue and its thread; CreateThread may   *)
(* fail, which nobody notices.                                             *)
st_db_connect(c) ==
    /\ dbfd = "none" /\ st[c] = "idle" /\ running = None
    /\ dbfd' = "opening"
    /\ \/ srv' = "wait" /\ UNCHANGED errors
       \/ srv' = "none" /\ errors < MaxErrors /\ errors' = errors + 1
    /\ Submit(c, Connect)
    /\ UNCHANGED <<oper, event, rst, fetched, table>>

(* st_db_query, st_db_fetch and st_db_exec.                                *)
st_db_call(c, op) ==
    /\ dbfd = "live" /\ st[c] = "idle" /\ running = None
    /\ Submit(c, op)
    /\ UNCHANGED <<dbfd, srv, oper, event, rst, fetched, table, errors>>

(* st_db_close, by the last user of the connection.                        *)
st_db_close(c) ==
    /\ dbfd = "live" /\ running = None /\ \A d \in Clients : st[d] = "idle"
    /\ dbfd' = "closing"
    /\ Submit(c, Close)
    /\ UNCHANGED <<srv, oper, event, rst, fetched, table, errors>>

(* After _st_wait(): st_db_fetch moves the rows out of the connection; a   *)
(* failed st_db_connect and st_db_close free it.                           *)
Returned(c) ==
    /\ running = None /\ st[c] = "posted"
    /\ fetched' = IF asked[c] = Fetch THEN <<>> ELSE fetched
    /\ dbfd' = IF asked[c] = Close \/ (asked[c] = Connect /\ err # "ok") THEN "freed"
               ELSE IF asked[c] = Connect THEN "live" ELSE dbfd

Return(c) ==
    /\ Returned(c)
    /\ st' = [st EXCEPT ![c] = "idle"]
    /\ UNCHANGED <<srv, oper, queue, event, rst, err, table, running, asked, calls, errors>>

-----------------------------------------------------------------------------
(* The database thread.                                                    *)

Fail(e) == errors < MaxErrors /\ errors' = errors + 1 /\ err' = e

(* SqlServerDBOper::Open: an instance that cannot be created leaves the    *)
(* error code at 0.                                                        *)
DoOpen(ok) ==
    /\ IF ok THEN UNCHANGED <<err, errors>> ELSE Fail("com") \/ Fail("ok")
    /\ UNCHANGED <<rst, fetched, table>>

Row(u) == IF u \in Users THEN table[u] ELSE Absent

(* Query: the open recordset is closed first; MoveFirst fails on an empty  *)
(* one, which stays open.  A lost connection is opened again by            *)
(* CheckDBConnect.                                                         *)
DoQuery(u) ==
    /\ \/ /\ rst' = IF Row(u) = Absent THEN <<>> ELSE <<Row(u)>>
          /\ err' = IF Row(u) = Absent THEN "norow" ELSE "ok"
          /\ UNCHANGED errors
       \/ rst' = None /\ Fail("com")
    /\ UNCHANGED <<fetched, table>>

(* Fetch: nothing happens on a closed recordset.                           *)
DoFetch ==
    /\ \/ rst = None /\ UNCHANGED <<rst, fetched, err, errors>>
       \/ rst = <<>> /\ err' = "norow" /\ UNCHANGED <<rst, fetched, errors>>
       \/ rst \notin {None, <<>>} /\ fetched' = fetched \o rst /\ rst' = None
          /\ UNCHANGED <<err, errors>>
       \/ rst # None /\ Fail("com") /\ UNCHANGED <<rst, fetched>>
    /\ UNCHANGED table

(* Exec: an insert of a user that is there fails, an update of one that is *)
(* not changes nothing; val is None when the update is of other columns.   *)
DoExec(op) ==
    /\ \/ /\ op.event = "insert" /\ table[op.user] # Absent
          /\ err' = "dup" /\ UNCHANGED <<table, errors>>
       \/ /\ op.event = "insert" => table[op.user] = Absent
          /\ table' = [table EXCEPT ![op.user] =
                          IF op.event = "update" /\ (@ = Absent \/ op.val = None)
                          THEN @ ELSE op.val]
          /\ err' = "ok" /\ UNCHANGED errors
       \/ Fail("com") /\ UNCHANGED table
    /\ UNCHANGED <<rst, fetched>>

(* Defect: the event is reset after the queue has been looked at.          *)
WaitLate ==
    /\ \/ /\ srv = "wait" /\ event /\ queue # <<>> /\ srv' = "woken"
          /\ oper' = Head(queue) /\ queue' = Tail(queue) /\ UNCHANGED event
       \/ /\ srv = "woken" /\ srv' = "serve" /\ event' = FALSE
          /\ UNCHANGED <<oper, queue>>
    /\ UNCHANGED <<dbfd, rst, fetched, err, table, cvars>>

(* wait(): WaitForSingleObject, then ResetEvent.                           *)
Wait ==
    /\ \/ srv = "wait" /\ event /\ srv' = "woken" /\ UNCHANGED event
       \/ srv = "woken" /\ srv' = "take" /\ event' = FALSE
    /\ UNCHANGED <<dbfd, oper, queue, rst, fetched, err, table, cvars>>

(* Defect: the operation stays in the queue.                               *)
DequeuePeek ==
    /\ srv = "take"
    /\ IF queue = <<>> THEN srv' = "wait" /\ UNCHANGED <<oper, queue>>
       ELSE srv' = "serve" /\ oper' = Head(queue) /\ UNCHANGED queue
    /\ UNCHANGED <<dbfd, event, rst, fetched, err, table, cvars>>

(* One dequeue() for every wake-up, however many operations there are.     *)
Dequeue ==
    /\ srv = "take"
    /\ IF queue = <<>> THEN srv' = "wait" /\ UNCHANGED <<oper, queue>>
       ELSE srv' = "serve" /\ oper' = Head(queue) /\ queue' = Tail(queue)
    /\ UNCHANGED <<dbfd, event, rst, fetched, err, table, cvars>>

(* The body of db_server's loop; "last" is the round that sets exit.       *)
Serve ==
    /\ srv = "serve"
    /\ LET op == oper.op
       IN \/ op = Connect /\ \E ok \in BOOLEAN :
                DoOpen(ok) /\ srv' = IF ok THEN "post" ELSE "last"
          \/ op.event = "query" /\ DoQuery(op.user) /\ srv' = "post"
          \/ op = Fetch /\ DoFetch /\ srv' = "post"
          \/ op.event \in {"insert", "update"} /\ DoExec(op) /\ srv' = "post"
          \/ op = Close /\ srv' = "last" /\ UNCHANGED <<rst, fetched, err, table, errors>>
    /\ UNCHANGED <<dbfd, oper, queue, event, running, st, asked, calls>>

(* Post the coroutine to the completion queue, wake the scheduler and free *)
(* the operation.                                                          *)
Post ==
    /\ srv \in {"post", "last"}
    /\ st' = [st EXCEPT ![oper.thread] = "posted"]
    /\ oper' = None
    /\ srv' = IF srv = "last" THEN "dtor" ELSE "wait"
    /\ UNCHANGED <<dbfd, queue, event, rst, fetched, err, table, running, asked, calls, errors>>

(* ~SqlServerDBOper calls Close() on the connection, and the thread ends.  *)
Destroy ==
    /\ srv = "dtor" /\ srv' = "done"
    /\ UNCHANGED <<dbfd, oper, queue, event, rst, fetched, err, table, cvars>>

db_server == Wait \/ Dequeue \/ Serve \/ Post \/ Destroy

-----------------------------------------------------------------------------
Call(c) ==
    /\ calls < MaxCalls /\ calls' = calls + 1
    /\ st_db_connect(c) \/ st_db_close(c) \/ \E op \in Ops : st_db_call(c, op)

Next == db_server \/ \E c \in Clients : Call(c) \/ Notify(c) \/ Return(c)

DbFairness == WF_vars(db_server) /\ \A c \in Clients : WF_vars(Notify(c))

Spec == DbInit /\ [][Next]_vars /\ DbFairness

-----------------------------------------------------------------------------
(* The places where a coroutine's request can be: queued, with the         *)
(* database thread, posted.                                                *)
Places(c) ==
    Cardinality({i \in DOMAIN queue : queue[i].thread = c})
    + (IF oper # None /\ oper.thread = c THEN 1 ELSE 0)
    + (IF st[c] = "posted" THEN 1 ELSE 0)

(* However the coroutines and the database thread interleave, a request    *)
(* that waits for an answer is in exactly one place and a coroutine that   *)
(* does not wait has none (no answer is lost or given twice); a wake-up    *)
(* never finds the queue empty, since every notification follows an        *)
(* enqueue(); and when st_db_close or a failed st_db_connect has freed the *)
(* connection nothing is left of it but the database thread's last         *)
(* Close(), in the destructor db_server runs after it posted the answer.   *)
ConnectionSound ==
    /\ \A c \in Clients : Places(c) = IF st[c] = "idle" THEN 0 ELSE 1
    /\ srv = "take" => queue # <<>>
    /\ dbfd = "freed" => srv \in {"dtor", "done"} /\ oper = None /\ queue = <<>>

(* A notification serves the oldest request, although notifications        *)
(* coalesce, wait() resets the event after it has been set again, and a    *)
(* wake-up takes a single operation (db_server): the request at the head   *)
(* of the queue when the event is set is taken, unless the thread ends.    *)
OldestServed ==
    \A c \in Clients :
        LET oldest == queue # <<>> /\ queue[1].thread = c
        IN  (event /\ oldest /\ srv # "none") ~> (~oldest \/ srv \in {"dtor", "done"})
=============================================================================
