---------------------------- MODULE UserSyncProofs ----------------------------
(***************************************************************************)
(* Proof that a session of the synchronisation service which overlaps no   *)
(* other one tells the truth (AnswerTrue), for any number of sessions,     *)
(* items, users, failures and crashes.                                     *)
(*                                                                         *)
(* All sessions share the error code, the recordset and the fetched rows   *)
(* of one connection.  What the database thread has done for a session     *)
(* that is alone is still there when the session goes on, because nobody   *)
(* else has a request.                                                     *)
(***************************************************************************)
EXTENDS UserSync, TLAPS

Statements == {o \in [event : {"open", "query", "fetch", "insert", "update", "close"},
                      user : Users \cup {None}, val : States \cup {None}] :
                  o.event = "insert" => o.val \in States}
Messages   == [op : Statements, thread : Clients]
Busy       == {"call", "wait"}
Asking     == {"state_q", "state_f", "plat_q", "plat_f", "exec"}
SessionRec == [pc : Asking \cup {"free", "read", "loop", "write"}, items : Seq(Items),
               flag : BOOLEAN, res : Seq({"0", "1", "3", "4"})]

UsType ==
    /\ queue \in Seq(Messages)
    /\ st \in [Clients -> Busy \cup {"idle", "posted"}]
    /\ asked \in [Clients -> Statements \cup {None}]
    /\ table \in [Users -> {Absent} \cup States]
    /\ ses \in [Sessions -> SessionRec]
    /\ alone \subseteq Sessions

(* A request that is queued or with the database thread is the last one of *)
(* a coroutine that still waits, and its only one.                         *)
RequestOk ==
    /\ \A i \in 1..Len(queue) : /\ st[queue[i].thread] \in Busy
                                /\ queue[i].op = asked[queue[i].thread]
    /\ \A i, j \in 1..Len(queue) : queue[i].thread = queue[j].thread => i = j
    /\ srv \in {"serve", "post", "last"} =>
          /\ oper \in Messages /\ st[oper.thread] \in Busy /\ oper.op = asked[oper.thread]
          /\ \A i \in 1..Len(queue) : queue[i].thread # oper.thread

(* Who uses the connection: a session in one of its database calls, for    *)
(* the item at the head of its list, and the main coroutine while it       *)
(* connects, when there is no session.                                     *)
UseOk ==
    /\ \A s \in Sessions :
          /\ ses[s].pc \notin Asking => st[s] = "idle"
          /\ ses[s].pc \in Asking => ses[s].items # <<>>
          /\ ses[s].pc \in {"state_q", "state_f"} => Head(ses[s].items).cmd = "0101"
          /\ ses[s].pc \in {"plat_q", "plat_f"} => Head(ses[s].items).cmd \in {"0101", "0103"}
    /\ main # "connect" => st[Main] = "idle"
    /\ main # "serve" => \A s \in Sessions : ses[s] = Free
    /\ \A s \in alone : main = "serve" /\ \A q \in Sessions \ {s} : ses[q] = Free

(* Fetched rows are those of somebody who still has to take them.          *)
FetchOk == fetched # <<>> => \E c \in Clients : asked[c] = Fetch /\ st[c] # "idle"

(* The database thread is done with the request of s.                      *)
Served(s) == st[s] = "posted" \/ srv \in {"post", "last"}

Item(s) == Head(ses[s].items)
RowOf(s) == table[Item(s).user]

(* What a session that is alone knows at each stage of an item.            *)
Told(s) ==
    LET pc  == ses[s].pc
        cmd == Item(s).cmd
    IN  /\ pc = "state_q" =>
              /\ asked[s] = Op("query", Item(s).user, None)
              /\ Served(s) /\ err = "ok" => rst = <<RowOf(s)>>
        /\ pc = "state_f" =>
              /\ asked[s] = Fetch
              /\ IF Served(s) THEN fetched \in {<<>>, <<RowOf(s)>>}
                              ELSE fetched = <<>> /\ rst = <<RowOf(s)>>
        /\ pc \in {"plat_q", "plat_f"} =>
              /\ asked[s].event \in {"query", "fetch"}
              /\ cmd = "0101" => RowOf(s) = "0103"
        /\ pc = "exec" /\ cmd = "0101" /\ ses[s].flag =>
              IF Served(s) THEN err = "ok" => RowOf(s) = "0101"
              ELSE asked[s] = Insert(s) \/ (asked[s] = Update(s) /\ RowOf(s) = "0103")
        /\ pc = "exec" /\ cmd = "0103" =>
              IF Served(s) THEN err = "ok" => RowOf(s) # "0101"
              ELSE asked[s] = Update(s)

(* The inductive invariant.                                                *)
UsInv == UsType /\ RequestOk /\ UseOk /\ FetchOk /\ \A s \in alone : Told(s)

-----------------------------------------------------------------------------
(* Facts about the state.                                                  *)

(* Main is no session, every other coroutine is one.                       *)
LEMMA Coroutines ==
  /\ Main \in Clients /\ Main \notin Sessions /\ Sessions \subseteq Clients
  /\ \A c \in Clients : c = Main \/ c \in Sessions
BY UserSyncAssumption DEF Sessions

(* The queue is a sequence of requests.                                    *)
LEMMA QueueFacts ==
  ASSUME UsInv
  PROVE  /\ queue \in Seq(Messages) /\ Len(queue) \in Nat
         /\ \A i \in 1..Len(queue) : queue[i] \in Messages /\ queue[i].thread \in Clients
<1>1. queue \in Seq(Messages) /\ Len(queue) \in Nat
  BY DEF UsInv, UsType
<1>2. \A i \in 1..Len(queue) : queue[i] \in Messages
  BY <1>1
<1>3. \A m \in Messages : m.thread \in Clients
  BY DEF Messages
<1> QED BY <1>1, <1>2, <1>3

(* The fields of a session.                                                *)
LEMMA SessionFields ==
  ASSUME UsInv, NEW s \in Sessions
  PROVE  /\ ses[s] \in SessionRec /\ ses[s].items \in Seq(Items) /\ ses[s].flag \in BOOLEAN
         /\ ses[s].res \in Seq({"0", "1", "3", "4"})
         /\ ses[s].items # <<>> => Item(s) \in Items /\ Item(s).user \in Users
<1>1. ses[s] \in SessionRec
  BY DEF UsInv, UsType
<1>2. /\ ses[s].items \in Seq(Items) /\ ses[s].flag \in BOOLEAN
      /\ ses[s].res \in Seq({"0", "1", "3", "4"})
  BY <1>1 DEF SessionRec
<1>3. ses[s].items # <<>> => Item(s) \in Items
  BY <1>2 DEF Item
<1>4. \A i \in Items : i.user \in Users
  BY DEF Items
<1> QED BY <1>1, <1>2, <1>3, <1>4

(* A session that is alone has the connection to itself.                   *)
LEMMA AloneFacts ==
  ASSUME UsInv, NEW s \in alone
  PROVE  /\ s \in Sessions /\ s \in Clients /\ s # Main /\ main = "serve"
         /\ \A c \in Clients : c # s => st[c] = "idle"
         /\ \A i \in 1..Len(queue) : queue[i].thread = s
         /\ srv \in {"serve", "post", "last"} =>
               oper.thread = s /\ oper.op = asked[s] /\ st[s] \in Busy
<1>1. s \in Sessions /\ main = "serve" /\ \A q \in Sessions \ {s} : ses[q] = Free
  BY DEF UsInv, UsType, UseOk
<1>2. \A q \in Sessions \ {s} : st[q] = "idle"
  <2>1. Free.pc \notin Asking
    BY DEF Free, Asking
  <2> QED BY <1>1, <2>1 DEF UsInv, UseOk
<1>3. st[Main] = "idle"
  BY <1>1 DEF UsInv, UseOk
<1>4. \A c \in Clients : c # s => st[c] = "idle"
  BY <1>2, <1>3, Coroutines
<1>5. \A i \in 1..Len(queue) : queue[i].thread = s
  BY <1>4, QueueFacts DEF UsInv, RequestOk, Busy
<1>6. srv \in {"serve", "post", "last"} =>
         oper.thread = s /\ oper.op = asked[s] /\ st[s] \in Busy
  BY <1>4 DEF UsInv, RequestOk, Busy, Messages
<1> QED BY <1>1, <1>4, <1>5, <1>6, Coroutines

(* What a session that is alone knows does not depend on anything else.    *)
LEMMA ToldFrame ==
  ASSUME UsInv, NEW s \in alone, ses'[s] = ses[s], UNCHANGED <<err, rst, fetched, table>>,
         asked'[s] = asked[s], Served(s)' <=> Served(s)
  PROVE  Told(s)'
<1>1. Told(s)
  BY DEF UsInv
<1>2. Item(s)' = Item(s) /\ RowOf(s)' = RowOf(s) /\ Insert(s)' = Insert(s) /\ Update(s)' = Update(s)
  BY DEF Item, RowOf, Insert, Update
<1> QED BY <1>1, <1>2 DEF Told

(* A new request of a coroutine that has none.                             *)
LEMMA SubmitStep ==
  ASSUME UsInv, NEW c \in Clients, st[c] \notin Busy, NEW op \in Statements, Submit(c, op),
         UNCHANGED <<srv, oper>>
  PROVE  /\ queue' \in Seq(Messages) /\ st' \in [Clients -> Busy \cup {"idle", "posted"}]
         /\ asked' \in [Clients -> Statements \cup {None}]
         /\ RequestOk'
<1> DEFINE m == [op |-> op, thread |-> c]
           n == Len(queue)
<1>1. m \in Messages /\ m.op = op /\ m.thread = c
  BY DEF Messages
<1> HIDE DEF m
<1>2. queue \in Seq(Messages) /\ n \in Nat /\ queue' = Append(queue, m)
  BY QueueFacts DEF Submit, m
<1>3. /\ queue' \in Seq(Messages) /\ Len(queue') = n + 1 /\ queue'[n + 1] = m
      /\ \A i \in 1..n : queue'[i] = queue[i]
  BY <1>1, <1>2
<1>4. /\ st \in [Clients -> Busy \cup {"idle", "posted"}]
      /\ asked \in [Clients -> Statements \cup {None}]
      /\ st' = [st EXCEPT ![c] = "call"] /\ asked' = [asked EXCEPT ![c] = op]
  BY DEF UsInv, UsType, Submit
<1>5. /\ st'[c] \in Busy /\ asked'[c] = op
      /\ \A d \in Clients : d # c => st'[d] = st[d] /\ asked'[d] = asked[d]
      /\ st' \in [Clients -> Busy \cup {"idle", "posted"}]
      /\ asked' \in [Clients -> Statements \cup {None}]
  BY <1>4 DEF Busy
<1>6. \A i \in 1..n : queue[i].thread \in Clients /\ queue[i].thread # c
  BY QueueFacts DEF UsInv, RequestOk
<1> HIDE DEF n
<1>7. \A i \in 1..(n + 1) : i \in 1..n \/ i = n + 1
  BY <1>2
<1>8. \A i \in 1..Len(queue') : st'[queue'[i].thread] \in Busy
                                /\ queue'[i].op = asked'[queue'[i].thread]
  BY <1>1, <1>3, <1>5, <1>6, <1>7 DEF UsInv, RequestOk, n
<1>9. \A i, j \in 1..Len(queue') : queue'[i].thread = queue'[j].thread => i = j
  BY <1>1, <1>3, <1>6, <1>7 DEF UsInv, RequestOk, n
<1>10. ASSUME srv' \in {"serve", "post", "last"}
       PROVE  /\ oper' \in Messages /\ st'[oper'.thread] \in Busy /\ oper'.op = asked'[oper'.thread]
              /\ \A i \in 1..Len(queue') : queue'[i].thread # oper'.thread
  <2>1. /\ oper' = oper /\ oper \in Messages /\ st[oper.thread] \in Busy
        /\ oper.op = asked[oper.thread] /\ oper.thread \in Clients /\ oper.thread # c
        /\ \A i \in 1..n : queue[i].thread # oper.thread
    BY <1>10 DEF UsInv, RequestOk, Messages, n
  <2> QED BY <1>1, <1>3, <1>5, <1>7, <2>1
<1> QED BY <1>3, <1>5, <1>8, <1>9, <1>10 DEF RequestOk

-----------------------------------------------------------------------------
(* The process and the supervisor.                                         *)

(* Nothing that the invariant is about changes, except that a process may  *)
(* be started.                                                             *)
LEMMA QuietStep ==
  ASSUME UsInv, UNCHANGED <<vars, ses, alone>>,
         main' = main \/ (main = "none" /\ main' = "starting")
  PROVE  UsInv'
<1>1. /\ queue' = queue /\ st' = st /\ asked' = asked /\ table' = table /\ srv' = srv
      /\ oper' = oper /\ fetched' = fetched /\ err' = err /\ rst' = rst
      /\ ses' = ses /\ alone' = alone
  BY DEF vars, dvars, cvars
<1>2. UsType' /\ FetchOk'
  BY <1>1 DEF UsInv, UsType, FetchOk
<1>3. RequestOk'
  BY <1>1 DEF UsInv, RequestOk
<1>4. UseOk'
  BY <1>1 DEF UsInv, UseOk
<1>5. \A s \in alone' : Told(s)'
  <2> SUFFICES ASSUME NEW s \in alone PROVE Told(s)'
    BY <1>1
  <2>1. Served(s)' <=> Served(s)
    BY <1>1 DEF Served
  <2> QED BY <1>1, <2>1, ToldFrame
<1> QED BY <1>2, <1>3, <1>4, <1>5 DEF UsInv

(* The process ends and takes everything but the table with it.            *)
LEMMA EndStep == ASSUME UsInv, ProcessEnds PROVE UsInv'
<1>1. /\ queue' = <<>> /\ srv' = "none" /\ fetched' = <<>> /\ alone' = {} /\ main' = "none"
      /\ table' = table /\ st' = [c \in Clients |-> "idle"] /\ asked' = [c \in Clients |-> None]
      /\ ses' = [s \in Sessions |-> Free]
  BY DEF ProcessEnds
<1>2. Free \in SessionRec
  BY DEF Free, SessionRec
<1>3. UsType'
  BY <1>1, <1>2 DEF UsInv, UsType
<1>4. RequestOk' /\ FetchOk'
  BY <1>1 DEF RequestOk, FetchOk
<1>5. UseOk'
  BY <1>1, Coroutines DEF UseOk, Free, Asking
<1> QED BY <1>1, <1>3, <1>4, <1>5 DEF UsInv

(* The first state.                                                        *)
LEMMA InitInv == ASSUME Init PROVE UsInv
<1>1. Free \in SessionRec
  BY DEF Free, SessionRec
<1>2. UsType
  BY <1>1 DEF Init, DbInit, UsType
<1>3. RequestOk /\ FetchOk
  BY DEF Init, DbInit, RequestOk, FetchOk
<1>4. UseOk
  BY Coroutines DEF Init, DbInit, UseOk, Free, Asking
<1> QED BY <1>2, <1>3, <1>4 DEF UsInv, Init

(* The operations of the connection are statements.                        *)
LEMMA StatementTypes ==
  /\ Connect \in Statements /\ Fetch \in Statements
  /\ \A u \in Users \cup {None} : Op("query", u, None) \in Statements
  /\ \A u \in Users : Op("insert", u, "0101") \in Statements /\ Op("update", u, None) \in Statements
  /\ \A u \in Users, v \in {"0101", "0103"} : Op("update", u, v) \in Statements
BY UserSyncAssumption DEF Connect, Fetch, Op, Statements

(* ServiceMain: there is no session, and no other request.                 *)
LEMMA ServiceMainStep == ASSUME UsInv, ServiceMain PROVE UsInv'
<1>1. /\ main = "starting" /\ main' = "connect" /\ st_db_connect(Main)
      /\ ses' = ses /\ alone' = alone
  BY DEF ServiceMain
<1>2. /\ st[Main] = "idle" /\ Submit(Main, Connect) /\ oper' = oper /\ fetched' = fetched
      /\ table' = table /\ srv' \in {"wait", "none"}
  BY <1>1 DEF st_db_connect
<1>3. alone = {} /\ \A s \in Sessions : ses[s] = Free
  BY <1>1 DEF UsInv, UseOk
<1>4. \A c \in Clients : st[c] = "idle"
  <2>1. Free.pc \notin Asking
    BY DEF Free, Asking
  <2> QED BY <1>2, <1>3, <2>1, Coroutines DEF UsInv, UseOk
<1>5. queue = <<>>
  <2>1. \A i \in 1..Len(queue) : FALSE
    BY <1>4, QueueFacts DEF UsInv, RequestOk, Busy
  <2> QED BY <2>1, QueueFacts
<1> DEFINE m == [op |-> Connect, thread |-> Main]
<1>6. /\ m \in Messages /\ m.op = Connect /\ m.thread = Main
      /\ Connect \in Statements /\ Main \in Clients
  BY StatementTypes, Coroutines DEF Messages
<1>7. queue' = Append(queue, m) /\ st' = [st EXCEPT ![Main] = "call"]
      /\ asked' = [asked EXCEPT ![Main] = Connect]
  BY <1>2 DEF Submit
<1> HIDE DEF m
<1>8. queue' = <<m>> /\ Len(queue') = 1 /\ queue'[1] = m /\ queue' \in Seq(Messages)
  BY <1>5, <1>6, <1>7
<1>9. /\ st'[Main] = "call" /\ asked'[Main] = Connect /\ \A s \in Sessions : st'[s] = "idle"
      /\ st' \in [Clients -> Busy \cup {"idle", "posted"}]
      /\ asked' \in [Clients -> Statements \cup {None}]
  BY <1>4, <1>6, <1>7, Coroutines DEF UsInv, UsType, Busy
<1>10. UsType'
  BY <1>1, <1>2, <1>8, <1>9 DEF UsInv, UsType
<1>11. RequestOk'
  BY <1>2, <1>6, <1>8, <1>9 DEF RequestOk, Busy
<1>12. UseOk'
  BY <1>1, <1>3, <1>9 DEF UseOk, Free, Asking
<1>13. FetchOk'
  BY <1>2, <1>4 DEF UsInv, FetchOk
<1> QED BY <1>1, <1>3, <1>10, <1>11, <1>12, <1>13 DEF UsInv

(* Server() after InitDB.                                                  *)
LEMMA ServerStep == ASSUME UsInv, Server PROVE UsInv'
<1>1. CASE ProcessEnds
  BY <1>1, EndStep
<1>2. CASE ~ProcessEnds
  <2>1. /\ main = "connect" /\ st[Main] = "posted" /\ Returned(Main) /\ main' \in {"serve", "dead"}
        /\ st' = [st EXCEPT ![Main] = "idle"]
        /\ ses' = ses /\ alone' = alone /\ srv' = srv /\ oper' = oper /\ queue' = queue
        /\ table' = table /\ asked' = asked
    BY <1>2 DEF Server, Run
  <2>2. alone = {} /\ \A s \in Sessions : ses[s] = Free
    BY <2>1 DEF UsInv, UseOk
  <2>3. /\ st'[Main] = "idle" /\ \A c \in Clients : c # Main => st'[c] = st[c]
        /\ st' \in [Clients -> Busy \cup {"idle", "posted"}]
    BY <2>1, Coroutines DEF UsInv, UsType
  <2>4. UsType'
    BY <2>1, <2>3 DEF UsInv, UsType
  <2>5. RequestOk'
    <3>1. \A i \in 1..Len(queue) : queue[i].thread \in Clients /\ queue[i].thread # Main
      BY <2>1, QueueFacts DEF UsInv, RequestOk, Busy
    <3>2. srv \in {"serve", "post", "last"} => oper.thread \in Clients /\ oper.thread # Main
      BY <2>1 DEF UsInv, RequestOk, Busy, Messages
    <3> QED BY <2>1, <2>3, <3>1, <3>2 DEF UsInv, RequestOk
  <2>6. UseOk'
    BY <2>1, <2>2, <2>3, Coroutines DEF UsInv, UseOk
  <2>7. FetchOk'
    <3>1. fetched' = IF asked[Main] = Fetch THEN <<>> ELSE fetched
      BY <2>1 DEF Returned
    <3> QED BY <2>1, <2>3, <3>1 DEF UsInv, FetchOk
  <2> QED BY <2>1, <2>2, <2>4, <2>5, <2>6, <2>7 DEF UsInv
<1> QED BY <1>1, <1>2

-----------------------------------------------------------------------------
(* The connection.                                                         *)

(* The session variables do not change in a step of the connection.        *)
LEMMA UvarsFrame == ASSUME UNCHANGED uvars PROVE ses' = ses /\ alone' = alone /\ main' = main
BY DEF uvars

(* notify(): the caller waits, unless it has been posted already.          *)
LEMMA NotifyStep == ASSUME UsInv, NEW c \in Clients, Notify(c), UNCHANGED uvars PROVE UsInv'
<1>1. /\ ses' = ses /\ alone' = alone /\ main' = main /\ queue' = queue /\ asked' = asked
      /\ table' = table /\ srv' = srv /\ oper' = oper /\ fetched' = fetched /\ err' = err
      /\ rst' = rst
      /\ st' = [st EXCEPT ![c] = IF st[c] = "call" THEN "wait" ELSE st[c]]
  BY UvarsFrame DEF Notify
<1>2. /\ st' \in [Clients -> Busy \cup {"idle", "posted"}]
      /\ \A d \in Clients : /\ st'[d] \in Busy <=> st[d] \in Busy
                            /\ st'[d] = "idle" <=> st[d] = "idle"
                            /\ st'[d] = "posted" <=> st[d] = "posted"
  BY <1>1 DEF UsInv, UsType, Busy
<1>3. UsType'
  BY <1>1, <1>2 DEF UsInv, UsType
<1>4. RequestOk'
  <2>1. srv \in {"serve", "post", "last"} => oper.thread \in Clients
    BY DEF UsInv, RequestOk, Messages
  <2> QED BY <1>1, <1>2, <2>1, QueueFacts DEF UsInv, RequestOk
<1>5. UseOk'
  BY <1>1, <1>2, Coroutines DEF UsInv, UseOk
<1>6. FetchOk'
  BY <1>1, <1>2 DEF UsInv, FetchOk
<1>7. ASSUME NEW s \in alone PROVE Told(s)'
  <2>1. Served(s)' <=> Served(s)
    BY <1>1, <1>2, AloneFacts DEF Served
  <2> QED BY <1>1, <2>1, ToldFrame
<1> QED BY <1>1, <1>3, <1>4, <1>5, <1>6, <1>7 DEF UsInv

(* A step of the database thread between two requests.                     *)
LEMMA BetweenStep ==
  ASSUME UsInv, UNCHANGED <<oper, queue, rst, fetched, err, table, st, asked>>,
         UNCHANGED uvars, srv \notin {"serve", "post", "last"}, srv' \notin {"serve", "post", "last"}
  PROVE  UsInv'
<1>1. ses' = ses /\ alone' = alone /\ main' = main
  BY UvarsFrame
<1>2. UsType' /\ FetchOk' /\ UseOk'
  BY <1>1 DEF UsInv, UsType, FetchOk, UseOk
<1>3. RequestOk'
  BY DEF UsInv, RequestOk
<1>4. ASSUME NEW s \in alone PROVE Told(s)'
  <2>1. Served(s)' <=> Served(s)
    BY DEF Served
  <2> QED BY <1>1, <2>1, ToldFrame
<1> QED BY <1>1, <1>2, <1>3, <1>4 DEF UsInv

(* dequeue(): the request at the head is with the database thread.         *)
LEMMA DequeueStep == ASSUME UsInv, Dequeue, UNCHANGED uvars PROVE UsInv'
<1>1. /\ ses' = ses /\ alone' = alone /\ main' = main /\ asked' = asked /\ st' = st
      /\ table' = table /\ fetched' = fetched /\ err' = err /\ rst' = rst /\ srv = "take"
  BY UvarsFrame DEF Dequeue, cvars
<1>2. CASE queue = <<>>
  BY <1>1, <1>2, BetweenStep DEF Dequeue
<1>3. CASE queue # <<>>
  <2>1. srv' = "serve" /\ oper' = Head(queue) /\ queue' = Tail(queue)
    BY <1>3 DEF Dequeue
  <2> DEFINE n == Len(queue)
  <2>2. /\ n \in Nat /\ n >= 1 /\ oper' = queue[1] /\ queue' \in Seq(Messages)
        /\ Len(queue') = n - 1 /\ \A i \in 1..(n - 1) : queue'[i] = queue[i + 1]
    BY <1>3, <2>1, QueueFacts
  <2>3. /\ \A i \in 1..n : /\ queue[i] \in Messages /\ st[queue[i].thread] \in Busy
                           /\ queue[i].op = asked[queue[i].thread]
        /\ \A i, j \in 1..n : queue[i].thread = queue[j].thread => i = j
    BY QueueFacts DEF UsInv, RequestOk
  <2> HIDE DEF n
  <2>4. /\ 1 \in 1..n
        /\ \A i \in 1..(n - 1) : i + 1 \in 1..n /\ i + 1 # 1
        /\ \A i, j \in 1..(n - 1) : i + 1 = j + 1 => i = j
    BY <2>2
  <2>5. RequestOk'
    <3>1. \A i \in 1..Len(queue') : st'[queue'[i].thread] \in Busy
                                    /\ queue'[i].op = asked'[queue'[i].thread]
      BY <1>1, <2>2, <2>3, <2>4
    <3>2. \A i, j \in 1..Len(queue') : queue'[i].thread = queue'[j].thread => i = j
      BY <2>2, <2>3, <2>4
    <3>3. /\ oper' \in Messages /\ st'[oper'.thread] \in Busy /\ oper'.op = asked'[oper'.thread]
          /\ \A i \in 1..Len(queue') : queue'[i].thread # oper'.thread
      BY <1>1, <2>2, <2>3, <2>4
    <3> QED BY <3>1, <3>2, <3>3 DEF RequestOk
  <2>6. UsType' /\ FetchOk' /\ UseOk'
    BY <1>1, <2>2 DEF UsInv, UsType, FetchOk, UseOk
  <2>7. ASSUME NEW s \in alone PROVE Told(s)'
    <3>1. Served(s)' <=> Served(s)
      BY <1>1, <2>1 DEF Served
    <3> QED BY <1>1, <3>1, ToldFrame
  <2> QED BY <1>1, <2>5, <2>6, <2>7 DEF UsInv
<1> QED BY <1>2, <1>3

(* The answer is posted.                                                   *)
LEMMA PostStep == ASSUME UsInv, Post, UNCHANGED uvars PROVE UsInv'
<1>1. /\ ses' = ses /\ alone' = alone /\ main' = main /\ asked' = asked /\ queue' = queue
      /\ table' = table /\ fetched' = fetched /\ err' = err /\ rst' = rst
      /\ srv \in {"post", "last"} /\ srv' \in {"dtor", "wait"}
      /\ st' = [st EXCEPT ![oper.thread] = "posted"]
  BY UvarsFrame DEF Post
<1>2. /\ oper.thread \in Clients /\ st[oper.thread] \in Busy
      /\ \A i \in 1..Len(queue) : queue[i].thread # oper.thread
  BY <1>1 DEF UsInv, RequestOk, Messages
<1>3. /\ st'[oper.thread] = "posted" /\ st'[oper.thread] # "idle"
      /\ \A c \in Clients : c # oper.thread => st'[c] = st[c]
      /\ \A c \in Clients : st'[c] = "idle" <=> st[c] = "idle"
      /\ st' \in [Clients -> Busy \cup {"idle", "posted"}]
  BY <1>1, <1>2 DEF UsInv, UsType, Busy
<1>4. UsType'
  BY <1>1, <1>3 DEF UsInv, UsType
<1>5. RequestOk'
  BY <1>1, <1>2, <1>3, QueueFacts DEF UsInv, RequestOk
<1>6. UseOk'
  BY <1>1, <1>3, Coroutines DEF UsInv, UseOk
<1>7. FetchOk'
  BY <1>1, <1>3 DEF UsInv, FetchOk
<1>8. ASSUME NEW s \in alone PROVE Told(s)'
  <2>1. Served(s)' <=> Served(s)
    BY <1>1, <1>3, AloneFacts DEF Served
  <2> QED BY <1>1, <2>1, ToldFrame
<1> QED BY <1>1, <1>4, <1>5, <1>6, <1>7, <1>8 DEF UsInv

(* Which statement the database thread carries out.                        *)
LEMMA ServeKinds ==
  ASSUME Serve
  PROVE  /\ srv = "serve" /\ srv' \in {"post", "last"}
         /\ UNCHANGED <<oper, queue, st, asked>>
         /\ oper.op.event = "query" => DoQuery(oper.op.user)
         /\ oper.op.event = "fetch" => oper.op = Fetch /\ DoFetch
         /\ oper.op.event \in {"insert", "update"} => DoExec(oper.op)
         /\ \/ UNCHANGED <<table, fetched>>
            \/ oper.op = Fetch
            \/ oper.op.event \in {"insert", "update"} /\ DoExec(oper.op)
<1>1. /\ Connect.event = "open" /\ Fetch.event = "fetch" /\ Close.event = "close"
  BY DEF Connect, Fetch, Close, Op
<1>2. /\ srv = "serve" /\ srv' \in {"post", "last"} /\ UNCHANGED <<oper, queue, st, asked>>
  BY DEF Serve
<1>3. \/ oper.op = Connect /\ \E ok \in BOOLEAN : DoOpen(ok)
      \/ oper.op.event = "query" /\ DoQuery(oper.op.user)
      \/ oper.op = Fetch /\ DoFetch
      \/ oper.op.event \in {"insert", "update"} /\ DoExec(oper.op)
      \/ oper.op = Close /\ UNCHANGED <<table, fetched>>
  BY DEF Serve
<1>4. CASE oper.op = Connect /\ \E ok \in BOOLEAN : DoOpen(ok)
  BY <1>1, <1>2, <1>4 DEF DoOpen
<1>5. CASE oper.op.event = "query" /\ DoQuery(oper.op.user)
  BY <1>2, <1>5 DEF DoQuery
<1>6. CASE oper.op = Fetch /\ DoFetch
  BY <1>1, <1>2, <1>6
<1>7. CASE oper.op.event \in {"insert", "update"} /\ DoExec(oper.op)
  BY <1>2, <1>7
<1>8. CASE oper.op = Close /\ UNCHANGED <<table, fetched>>
  BY <1>1, <1>2, <1>8
<1> QED BY <1>3, <1>4, <1>5, <1>6, <1>7, <1>8

(* A query that reports no error has opened the recordset on the row.      *)
LEMMA QueryDone ==
  ASSUME NEW u, DoQuery(u)
  PROVE  table' = table /\ fetched' = fetched /\ (err' = "ok" => rst' = <<Row(u)>>)
BY DEF DoQuery, Fail

(* A fetch appends the rows of the recordset, or nothing.                  *)
LEMMA FetchDone ==
  ASSUME DoFetch
  PROVE  table' = table /\ (fetched' = fetched \/ fetched' = fetched \o rst)
BY DEF DoFetch

(* What a statement that reports no error has done to the row of its user: *)
(* the table stays a table.                                                *)
LEMMA ExecDone ==
  ASSUME UsType, NEW op \in Statements, op.event \in {"insert", "update"}, DoExec(op)
  PROVE  /\ fetched' = fetched
         /\ table' \in [Users -> {Absent} \cup States]
         /\ (err' = "ok" /\ op.user \in Users) =>
               /\ op.event = "insert" => table'[op.user] = op.val
               /\ op.event = "update" =>
                     table'[op.user] = IF table[op.user] = Absent \/ op.val = None
                                       THEN table[op.user] ELSE op.val
<1>1. /\ table \in [Users -> {Absent} \cup States] /\ op.val \in States \cup {None}
      /\ op.event = "insert" => op.val \in States
  BY DEF UsType, Statements
<1>2. fetched' = fetched
  BY DEF DoExec
<1>3. CASE table' = table /\ err' # "ok"
  BY <1>1, <1>2, <1>3
<1>4. CASE table' = [table EXCEPT ![op.user] =
                        IF op.event = "update" /\ (@ = Absent \/ op.val = None)
                        THEN @ ELSE op.val]
  BY <1>1, <1>2, <1>4
<1>5. (table' = table /\ err' # "ok")
      \/ table' = [table EXCEPT ![op.user] =
                        IF op.event = "update" /\ (@ = Absent \/ op.val = None)
                        THEN @ ELSE op.val]
  BY DEF DoExec, Fail
<1> QED BY <1>3, <1>4, <1>5

(* The session that is alone learns what the database thread did for it.   *)
LEMMA ServeTold == ASSUME UsInv, Serve, UNCHANGED uvars, NEW s \in alone PROVE Told(s)'
<1>1. /\ s \in Sessions /\ s \in Clients /\ oper.op = asked[s] /\ st[s] \in Busy
      /\ srv = "serve" /\ srv' \in {"post", "last"} /\ UNCHANGED <<st, asked, ses, alone>>
  BY AloneFacts, ServeKinds, UvarsFrame
<1>2. ~Served(s) /\ Served(s)' /\ Told(s)
  BY <1>1 DEF Served, Busy, UsInv
<1>3. /\ Item(s)' = Item(s) /\ Insert(s)' = Insert(s) /\ Update(s)' = Update(s)
      /\ Item(s) = Head(ses[s].items)
  BY <1>1 DEF Item, Insert, Update
<1>4. ses[s].pc \in Asking => /\ ses[s].items # <<>> /\ Item(s).user \in Users
                              /\ asked[s] \in Statements
  <2>1. ses[s].pc \in Asking => ses[s].items # <<>>
    BY <1>1 DEF UsInv, UseOk
  <2>2. asked[s] \in Statements
    BY <1>1 DEF UsInv, RequestOk, Messages
  <2> QED BY <1>1, <2>1, <2>2, SessionFields
<1>5. CASE ses[s].pc = "state_q"
  <2>1. asked[s] = Op("query", Item(s).user, None) /\ Item(s).user \in Users
    BY <1>2, <1>4, <1>5 DEF Told, Asking
  <2>2. DoQuery(Item(s).user)
    BY <1>1, <2>1, ServeKinds DEF Op
  <2>3. RowOf(s)' = RowOf(s) /\ (err' = "ok" => rst' = <<RowOf(s)>>)
    BY <1>3, <2>1, <2>2, QueryDone DEF Row, RowOf
  <2> QED BY <1>1, <1>3, <1>5, <2>1, <2>3 DEF Told
<1>6. CASE ses[s].pc = "state_f"
  <2>1. asked[s] = Fetch /\ fetched = <<>> /\ rst = <<RowOf(s)>>
    BY <1>2, <1>6 DEF Told
  <2>2. DoFetch
    BY <1>1, <2>1, ServeKinds DEF Fetch, Op
  <2>3. table' = table /\ (fetched' = <<>> \/ fetched' = <<>> \o <<RowOf(s)>>)
    BY <2>1, <2>2, FetchDone
  <2>4. RowOf(s)' = RowOf(s) /\ fetched' \in {<<>>, <<RowOf(s)>>}
    BY <1>3, <2>3 DEF RowOf
  <2> QED BY <1>1, <1>2, <1>3, <1>6, <2>1, <2>4 DEF Told
<1>7. CASE ses[s].pc \in {"plat_q", "plat_f"}
  <2>1. asked[s].event \in {"query", "fetch"} /\ (Item(s).cmd = "0101" => RowOf(s) = "0103")
    BY <1>2, <1>7 DEF Told
  <2>2. table' = table
    <3>1. CASE asked[s].event = "query"
      BY <1>1, <3>1, ServeKinds, QueryDone
    <3>2. CASE asked[s].event = "fetch"
      BY <1>1, <3>2, ServeKinds, FetchDone
    <3> QED BY <2>1, <3>1, <3>2
  <2>3. RowOf(s)' = RowOf(s)
    BY <1>3, <2>2 DEF RowOf
  <2> QED BY <1>1, <1>3, <1>7, <2>1, <2>3 DEF Told
<1>8. CASE ses[s].pc = "exec"
  <2> DEFINE u == Item(s).user
             cmd == Item(s).cmd
  <2>1. u \in Users /\ asked[s] \in Statements
    BY <1>4, <1>8 DEF Asking
  <2>2. /\ cmd = "0101" /\ ses[s].flag =>
              asked[s] = Insert(s) \/ (asked[s] = Update(s) /\ table[u] = "0103")
        /\ cmd = "0103" => asked[s] = Update(s)
    BY <1>2, <1>8 DEF Told, RowOf
  <2>3. Insert(s) = Op("insert", u, "0101") /\ Update(s) = Op("update", u, cmd)
    BY DEF Insert, Update, Item
  <2>4. RowOf(s)' = table'[u]
    BY <1>3 DEF RowOf
  <2>5. Absent \notin States /\ None \notin States /\ {"0101", "0103"} \subseteq States
    BY DbServiceAssumption, UserSyncAssumption
  <2>6. ASSUME asked[s] = Insert(s), err' = "ok" PROVE table'[u] = "0101"
    <3>1. asked[s].event = "insert" /\ asked[s].user = u /\ asked[s].val = "0101"
      BY <2>3, <2>6 DEF Op
    <3>2. DoExec(asked[s])
      BY <1>1, <3>1, ServeKinds
    <3> QED BY <2>1, <2>6, <3>1, <3>2, ExecDone DEF UsInv
  <2>7. ASSUME asked[s] = Update(s), err' = "ok"
        PROVE  table'[u] = IF table[u] = Absent \/ cmd = None THEN table[u] ELSE cmd
    <3>1. asked[s].event = "update" /\ asked[s].user = u /\ asked[s].val = cmd
      BY <2>3, <2>7 DEF Op
    <3>2. DoExec(asked[s])
      BY <1>1, <3>1, ServeKinds
    <3> QED BY <2>1, <2>7, <3>1, <3>2, ExecDone DEF UsInv
  <2>8. cmd = "0101" /\ ses[s].flag /\ err' = "ok" => table'[u] = "0101"
    BY <2>2, <2>5, <2>6, <2>7
  <2>9. cmd = "0103" /\ err' = "ok" => table'[u] # "0101"
    BY <2>2, <2>5, <2>7
  <2> QED BY <1>1, <1>2, <1>3, <1>8, <2>4, <2>8, <2>9 DEF Told
<1>9. CASE ses[s].pc \notin Asking
  BY <1>1, <1>9 DEF Told, Asking
<1> QED BY <1>5, <1>6, <1>7, <1>8, <1>9 DEF Asking

(* The body of db_server's loop.                                           *)
LEMMA ServeStep == ASSUME UsInv, Serve, UNCHANGED uvars PROVE UsInv'
<1>1. /\ srv = "serve" /\ srv' \in {"post", "last"} /\ ses' = ses /\ alone' = alone /\ main' = main
      /\ oper' = oper /\ queue' = queue /\ st' = st /\ asked' = asked
  BY ServeKinds, UvarsFrame
<1>2. /\ oper \in Messages /\ oper.op \in Statements /\ oper.thread \in Clients
      /\ st[oper.thread] \in Busy /\ oper.op = asked[oper.thread]
  BY <1>1 DEF UsInv, RequestOk, Messages
<1>3. UsType'
  <2>1. table' \in [Users -> {Absent} \cup States]
    <3>1. CASE table' = table
      BY <3>1 DEF UsInv, UsType
    <3>2. CASE oper.op = Fetch
      BY <3>1, <3>2, ServeKinds, FetchDone DEF Fetch, Op
    <3>3. CASE oper.op.event \in {"insert", "update"} /\ DoExec(oper.op)
      BY <1>2, <3>3, ExecDone DEF UsInv
    <3> QED BY <3>1, <3>2, <3>3, ServeKinds
  <2> QED BY <1>1, <2>1 DEF UsInv, UsType
<1>4. RequestOk' /\ UseOk'
  <2>1. RequestOk'
    BY <1>1 DEF UsInv, RequestOk
  <2>2. UseOk'
    BY <1>1 DEF UsInv, UseOk
  <2> QED BY <2>1, <2>2
<1>5. FetchOk'
  <2>1. CASE fetched' = fetched
    BY <1>1, <2>1 DEF UsInv, FetchOk
  <2>2. CASE oper.op = Fetch
    BY <1>1, <1>2, <2>2 DEF FetchOk, Busy
  <2>3. CASE oper.op.event \in {"insert", "update"} /\ DoExec(oper.op)
    BY <2>1, <2>3 DEF DoExec
  <2> QED BY <2>1, <2>2, <2>3, ServeKinds
<1>6. ASSUME NEW s \in alone PROVE Told(s)'
  BY ServeTold
<1> QED BY <1>1, <1>3, <1>4, <1>5, <1>6 DEF UsInv

(* A step of the database thread.                                          *)
LEMMA ThreadStep == ASSUME UsInv, db_server, UNCHANGED uvars PROVE UsInv'
<1>1. CASE Wait
  BY <1>1, BetweenStep DEF Wait, cvars
<1>2. CASE Destroy
  BY <1>2, BetweenStep DEF Destroy, cvars
<1> QED BY <1>1, <1>2, DequeueStep, ServeStep, PostStep DEF db_server

-----------------------------------------------------------------------------
(* The sessions.                                                           *)

(* A session that exists is the only one that can be alone.                *)
LEMMA OnlyAlone ==
  ASSUME UsInv, NEW s \in Sessions, ses[s].pc # "free"
  PROVE  main = "serve" /\ \A q \in alone : q = s
<1>1. ses[s] # Free
  BY DEF Free
<1> QED BY <1>1 DEF UsInv, UseOk

(* A step of a session that leaves the connection alone, or is done with   *)
(* an answer.                                                              *)
LEMMA AwayStep ==
  ASSUME UsInv, NEW s \in Sessions, ses[s].pc # "free",
         UNCHANGED <<queue, srv, oper, table, asked, main>>,
         st[s] \notin Busy, st' = [st EXCEPT ![s] = "idle"],
         fetched' = IF st[s] = "posted" /\ asked[s] = Fetch THEN <<>> ELSE fetched,
         ses' \in [Sessions -> SessionRec], \A q \in Sessions : q # s => ses'[q] = ses[q],
         ses'[s].pc \notin Asking, alone' \subseteq alone
  PROVE  UsInv'
<1>1. main = "serve" /\ (\A q \in alone : q = s) /\ s \in Clients
  BY OnlyAlone, Coroutines
<1>2. /\ st' \in [Clients -> Busy \cup {"idle", "posted"}] /\ st'[s] = "idle"
      /\ \A c \in Clients : c # s => st'[c] = st[c]
  BY <1>1 DEF UsInv, UsType
<1>3. UsType'
  BY <1>2 DEF UsInv, UsType
<1>4. RequestOk'
  <2>1. \A i \in 1..Len(queue) : queue[i].thread \in Clients /\ queue[i].thread # s
    BY QueueFacts DEF UsInv, RequestOk
  <2>2. srv \in {"serve", "post", "last"} => oper.thread \in Clients /\ oper.thread # s
    BY DEF UsInv, RequestOk, Messages
  <2> QED BY <1>2, <2>1, <2>2 DEF UsInv, RequestOk
<1>5. UseOk'
  <2>1. ASSUME NEW q \in Sessions
        PROVE  /\ ses'[q].pc \notin Asking => st'[q] = "idle"
               /\ ses'[q].pc \in Asking => ses'[q].items # <<>>
               /\ ses'[q].pc \in {"state_q", "state_f"} => Head(ses'[q].items).cmd = "0101"
               /\ ses'[q].pc \in {"plat_q", "plat_f"} =>
                     Head(ses'[q].items).cmd \in {"0101", "0103"}
    <3>1. CASE q = s
      BY <1>2, <3>1 DEF Asking
    <3>2. CASE q # s
      BY <1>2, <3>2, Coroutines DEF UsInv, UseOk
    <3> QED BY <3>1, <3>2
  <2>2. \A q \in alone' : main' = "serve" /\ \A r \in Sessions \ {q} : ses'[r] = Free
    BY <1>1 DEF UsInv, UseOk
  <2>3. st'[Main] = st[Main]
    BY <1>2, Coroutines
  <2> QED BY <1>1, <2>1, <2>2, <2>3 DEF UsInv, UseOk
<1>6. FetchOk'
  <2> SUFFICES ASSUME fetched' # <<>>
               PROVE  \E c \in Clients : asked'[c] = Fetch /\ st'[c] # "idle"
    BY DEF FetchOk
  <2>1. PICK c \in Clients : asked[c] = Fetch /\ st[c] # "idle"
    BY DEF UsInv, FetchOk
  <2>2. c # s
    BY <1>1, <2>1 DEF UsInv, UsType
  <2> QED BY <1>2, <2>1, <2>2
<1>7. \A q \in alone' : Told(q)'
  BY <1>1 DEF Told, Asking
<1> QED BY <1>3, <1>4, <1>5, <1>6, <1>7 DEF UsInv

(* A connection is accepted.                                               *)
LEMMA AcceptStep == ASSUME UsInv, NEW s \in Sessions, HandleConnectTask(s) PROVE UsInv'
<1>1. /\ main = "serve" /\ main' = main /\ ses[s] = Free /\ queue' = queue /\ st' = st
      /\ asked' = asked /\ table' = table /\ srv' = srv /\ oper' = oper /\ fetched' = fetched
      /\ ses' = [ses EXCEPT ![s].pc = "read"]
      /\ alone' = IF \A q \in Sessions : ses[q] = Free THEN {s} ELSE {}
  BY DEF HandleConnectTask, vars, dvars, cvars
<1>2. /\ ses' \in [Sessions -> SessionRec] /\ ses'[s].pc = "read"
      /\ \A q \in Sessions : q # s => ses'[q] = ses[q]
  BY <1>1 DEF UsInv, UsType, SessionRec
<1>3. UsType' /\ FetchOk'
  BY <1>1, <1>2 DEF UsInv, UsType, FetchOk
<1>4. RequestOk'
  BY <1>1 DEF UsInv, RequestOk
<1>5. UseOk'
  <2>1. st[s] = "idle"
    BY <1>1 DEF UsInv, UseOk, Free, Asking
  <2>2. ASSUME NEW q \in Sessions
        PROVE  /\ ses'[q].pc \notin Asking => st'[q] = "idle"
               /\ ses'[q].pc \in Asking => ses'[q].items # <<>>
               /\ ses'[q].pc \in {"state_q", "state_f"} => Head(ses'[q].items).cmd = "0101"
               /\ ses'[q].pc \in {"plat_q", "plat_f"} =>
                     Head(ses'[q].items).cmd \in {"0101", "0103"}
    <3>1. CASE q = s
      BY <1>1, <1>2, <2>1, <3>1 DEF Asking
    <3>2. CASE q # s
      BY <1>1, <1>2, <3>2 DEF UsInv, UseOk
    <3> QED BY <3>1, <3>2
  <2> QED BY <1>1, <1>2, <2>2 DEF UsInv, UseOk
<1>6. \A q \in alone' : Told(q)'
  BY <1>1, <1>2 DEF Told
<1> QED BY <1>3, <1>4, <1>5, <1>6 DEF UsInv

(* The request has been read.                                              *)
LEMMA ParseStep == ASSUME UsInv, NEW s \in Sessions, ParseWebService(s) PROVE UsInv'
<1>1. /\ ses[s].pc = "read" /\ main' = main /\ queue' = queue /\ st' = st
      /\ asked' = asked /\ table' = table /\ srv' = srv /\ oper' = oper /\ fetched' = fetched
      /\ alone' = alone
  BY DEF ParseWebService, dvars
<1>2. st[s] = "idle" /\ st[s] \notin Busy /\ st' = [st EXCEPT ![s] = "idle"]
  BY <1>1 DEF UsInv, UsType, UseOk, Asking, Busy
<1>3. PICK is \in ItemLists :
         \/ ses' = [ses EXCEPT ![s].pc = "loop", ![s].items = is]
         \/ ses' = [ses EXCEPT ![s].pc = "write"]
  BY DEF ParseWebService
<1>4. is \in Seq(Items)
  <2>1. PICK m \in 0..MaxItems : is \in [1..m -> Items]
    BY DEF ItemLists, BoundedSeq, SeqOf
  <2>2. m \in Nat
    BY <2>1, UserSyncAssumption
  <2> QED BY <2>1, <2>2
<1>5. /\ ses' \in [Sessions -> SessionRec] /\ ses'[s].pc \in {"loop", "write"}
      /\ \A q \in Sessions : q # s => ses'[q] = ses[q]
  <2>1. ses \in [Sessions -> SessionRec] /\ ses[s] \in SessionRec
    BY DEF UsInv, UsType
  <2> DEFINE x == IF ses' = [ses EXCEPT ![s].pc = "write"]
                  THEN [ses[s] EXCEPT !.pc = "write"]
                  ELSE [ses[s] EXCEPT !.pc = "loop", !.items = is]
  <2>2. x \in SessionRec /\ x.pc \in {"loop", "write"}
    BY <1>4, <2>1 DEF SessionRec
  <2>3. ses' = [ses EXCEPT ![s] = x]
    BY <1>3, <2>1
  <2> HIDE DEF x
  <2> QED BY <2>1, <2>2, <2>3
<1> QED BY <1>1, <1>2, <1>5, AwayStep DEF Asking

(* The answer is written and the session is gone.                          *)
LEMMA PacketStep == ASSUME UsInv, NEW s \in Sessions, PacketWebService(s) PROVE UsInv'
<1>1. /\ ses[s].pc = "write" /\ main' = main /\ queue' = queue /\ st' = st
      /\ asked' = asked /\ table' = table /\ srv' = srv /\ oper' = oper /\ fetched' = fetched
      /\ alone' \subseteq alone /\ ses' = [ses EXCEPT ![s] = Free]
  BY DEF PacketWebService, vars, dvars, cvars
<1>2. st[s] = "idle" /\ st[s] \notin Busy /\ st' = [st EXCEPT ![s] = "idle"]
  BY <1>1 DEF UsInv, UsType, UseOk, Asking, Busy
<1>3. /\ ses' \in [Sessions -> SessionRec] /\ ses'[s].pc = "free"
      /\ \A q \in Sessions : q # s => ses'[q] = ses[q]
  <2>1. Free \in SessionRec /\ Free.pc = "free"
    BY DEF Free, SessionRec
  <2> QED BY <1>1, <2>1 DEF UsInv, UsType
<1> QED BY <1>1, <1>2, <1>3, AwayStep DEF Asking

(* A session asks the database for the item at the head of its list: the   *)
(* next stage is right when the session that is alone knows enough for it. *)
LEMMA AskStep ==
  ASSUME UsInv, NEW s \in Sessions, ses[s].pc # "free", st[s] \notin Busy,
         ses[s].items # <<>>,
         NEW pc \in Asking, NEW op \in Statements, NEW flag \in BOOLEAN, Ask(s, pc, op, flag),
         pc \in {"state_q", "state_f"} => Item(s).cmd = "0101",
         pc \in {"plat_q", "plat_f"} => Item(s).cmd \in {"0101", "0103"},
         fetched' = IF st[s] = "posted" /\ asked[s] = Fetch THEN <<>> ELSE fetched,
         UNCHANGED <<srv, oper, rst, table, main, alone>>
  PROVE  /\ UsType' /\ RequestOk' /\ UseOk' /\ FetchOk'
         /\ ses'[s].pc = pc /\ ses'[s].flag = flag /\ Item(s)' = Item(s) /\ asked'[s] = op
         /\ err' = "ok" /\ RowOf(s)' = RowOf(s) /\ Insert(s)' = Insert(s) /\ Update(s)' = Update(s)
         /\ \A q \in alone' : q = s
         /\ s \in alone => ~Served(s)' /\ fetched' = <<>>
<1>1. /\ s \in Clients /\ Submit(s, op) /\ ses' = [ses EXCEPT ![s].pc = pc, ![s].flag = flag]
      /\ main = "serve" /\ main' = main /\ alone' = alone /\ \A q \in alone : q = s
  BY OnlyAlone, Coroutines DEF Ask
<1>2. /\ queue' \in Seq(Messages) /\ st' \in [Clients -> Busy \cup {"idle", "posted"}]
      /\ asked' \in [Clients -> Statements \cup {None}] /\ RequestOk'
  BY <1>1, SubmitStep
<1>3. /\ ses' \in [Sessions -> SessionRec] /\ \A q \in Sessions : q # s => ses'[q] = ses[q]
      /\ ses'[s].pc = pc /\ ses'[s].flag = flag /\ ses'[s].items = ses[s].items
  BY <1>1 DEF UsInv, UsType, SessionRec
<1>4. /\ st'[s] = "call" /\ asked'[s] = op
      /\ \A c \in Clients : c # s => st'[c] = st[c] /\ asked'[c] = asked[c]
  BY <1>1 DEF Submit, UsInv, UsType
<1>5. UsType'
  BY <1>1, <1>2, <1>3 DEF UsInv, UsType
<1>6. UseOk'
  <2>1. ASSUME NEW q \in Sessions
        PROVE  /\ ses'[q].pc \notin Asking => st'[q] = "idle"
               /\ ses'[q].pc \in Asking => ses'[q].items # <<>>
               /\ ses'[q].pc \in {"state_q", "state_f"} => Head(ses'[q].items).cmd = "0101"
               /\ ses'[q].pc \in {"plat_q", "plat_f"} =>
                     Head(ses'[q].items).cmd \in {"0101", "0103"}
    <3>1. CASE q = s
      BY <1>3, <3>1 DEF Item
    <3>2. CASE q # s
      BY <1>3, <1>4, <3>2, Coroutines DEF UsInv, UseOk
    <3> QED BY <3>1, <3>2
  <2>2. \A q \in alone' : main' = "serve" /\ \A r \in Sessions \ {q} : ses'[r] = Free
    BY <1>1, <1>3 DEF UsInv, UseOk
  <2>3. st'[Main] = st[Main]
    BY <1>4, Coroutines
  <2> QED BY <1>1, <2>1, <2>2, <2>3 DEF UsInv, UseOk
<1>7. FetchOk'
  <2> SUFFICES ASSUME fetched' # <<>>
               PROVE  \E c \in Clients : asked'[c] = Fetch /\ st'[c] # "idle"
    BY DEF FetchOk
  <2>1. PICK c \in Clients : asked[c] = Fetch /\ st[c] # "idle"
    BY DEF UsInv, FetchOk
  <2>2. c # s
    BY <1>1, <2>1 DEF UsInv, UsType
  <2> QED BY <1>4, <2>1, <2>2
<1>8. ASSUME s \in alone PROVE ~Served(s)' /\ fetched' = <<>>
  <2>1. ~Served(s)'
    BY <1>4, <1>8, AloneFacts DEF Served
  <2>2. ASSUME fetched' # <<>> PROVE FALSE
    <3>1. fetched # <<>>
      BY <2>2
    <3>2. PICK c \in Clients : asked[c] = Fetch /\ st[c] # "idle"
      BY <3>1 DEF UsInv, FetchOk
    <3>3. c = s
      BY <1>8, <3>2, AloneFacts
    <3>4. st[s] = "posted"
      BY <3>2, <3>3 DEF UsInv, UsType
    <3> QED BY <2>2, <3>2, <3>3, <3>4
  <2> QED BY <2>1, <2>2
<1>9. Item(s)' = Item(s) /\ RowOf(s)' = RowOf(s) /\ Insert(s)' = Insert(s) /\ Update(s)' = Update(s)
  BY <1>3 DEF Item, RowOf, Insert, Update
<1>10. err' = "ok"
  BY <1>1 DEF Submit
<1> QED BY <1>1, <1>2, <1>3, <1>4, <1>5, <1>6, <1>7, <1>8, <1>9, <1>10

(* The head of the loop of HandleSessionTask.                              *)
LEMMA ItemStep == ASSUME UsInv, NEW s \in Sessions, NextItem(s) PROVE UsInv'
<1>1. /\ ses[s].pc = "loop" /\ main' = main /\ table' = table /\ srv' = srv /\ oper' = oper
      /\ fetched' = fetched /\ rst' = rst /\ alone' = alone
  BY DEF NextItem
<1>2. st[s] = "idle" /\ st[s] \notin Busy
  BY <1>1 DEF UsInv, UseOk, Asking, Busy
<1>3. /\ ses \in [Sessions -> SessionRec] /\ ses[s] \in SessionRec
      /\ fetched' = IF st[s] = "posted" /\ asked[s] = Fetch THEN <<>> ELSE fetched
  BY <1>1, <1>2 DEF UsInv, UsType
<1>4. CASE /\ ses' = [ses EXCEPT ![s].pc = "write"] /\ UNCHANGED <<queue, st, asked>>
  <2>1. /\ ses' \in [Sessions -> SessionRec] /\ ses'[s].pc = "write"
        /\ \A q \in Sessions : q # s => ses'[q] = ses[q]
    BY <1>3, <1>4 DEF SessionRec
  <2>2. st' = [st EXCEPT ![s] = "idle"]
    BY <1>2, <1>4 DEF UsInv, UsType
  <2> QED BY <1>1, <1>2, <1>4, <2>1, <2>2, AwayStep DEF Asking
<1>5. CASE /\ ses[s].items # <<>>
           /\ ses' = [ses EXCEPT ![s].items = Tail(@), ![s].res = Append(@, "4")]
           /\ UNCHANGED <<queue, st, asked>>
  <2>1. /\ Tail(ses[s].items) \in Seq(Items)
        /\ Append(ses[s].res, "4") \in Seq({"0", "1", "3", "4"})
    BY <1>5, SessionFields
  <2>2. /\ ses' \in [Sessions -> SessionRec] /\ ses'[s].pc = "loop"
        /\ \A q \in Sessions : q # s => ses'[q] = ses[q]
    BY <1>1, <1>3, <1>5, <2>1 DEF SessionRec
  <2>3. st' = [st EXCEPT ![s] = "idle"]
    BY <1>2, <1>5 DEF UsInv, UsType
  <2> QED BY <1>1, <1>2, <1>5, <2>2, <2>3, AwayStep DEF Asking
<1>6. ASSUME ses[s].items # <<>> PROVE Item(s).user \in Users
  BY <1>6, SessionFields
<1>7. CASE /\ ses[s].items # <<>> /\ Item(s).cmd = "0101"
           /\ Ask(s, "state_q", Op("query", Item(s).user, None), FALSE)
  <2> DEFINE op == Op("query", Item(s).user, None)
  <2>1. op \in Statements /\ \E no \in BOOLEAN : Ask(s, "state_q", op, no)
    BY <1>6, <1>7, StatementTypes
  <2>2. /\ "state_q" \in Asking /\ ses[s].pc # "free"
        /\ "state_q" \notin {"plat_q", "plat_f"}
    BY <1>1 DEF Asking
  <2> HIDE DEF op
  <2>3. /\ UsType' /\ RequestOk' /\ UseOk' /\ FetchOk'
        /\ ses'[s].pc = "state_q" /\ Item(s)' = Item(s) /\ asked'[s] = op
        /\ \A q \in alone' : q = s
        /\ s \in alone => ~Served(s)'
    <3>1. PICK no \in BOOLEAN : Ask(s, "state_q", op, no)
      BY <2>1
    <3> QED BY <1>1, <1>2, <1>3, <1>7, <2>1, <2>2, <3>1, AskStep
  <2>4. s \in alone => Told(s)'
    BY <2>3 DEF Told, op
  <2> QED BY <1>1, <2>3, <2>4 DEF UsInv
<1>8. CASE /\ ses[s].items # <<>> /\ Item(s).cmd = "0102"
           /\ Ask(s, "exec", Op("update", Item(s).user, None), TRUE)
  <2> DEFINE op == Op("update", Item(s).user, None)
  <2>1. op \in Statements
    BY <1>6, <1>8, StatementTypes
  <2>2. "exec" \in Asking /\ TRUE \in BOOLEAN
    BY DEF Asking
  <2> HIDE DEF op
  <2>3. /\ UsType' /\ RequestOk' /\ UseOk' /\ FetchOk'
        /\ ses'[s].pc = "exec" /\ Item(s)' = Item(s) /\ \A q \in alone' : q = s
    BY <1>1, <1>2, <1>8, <2>1, <2>2, AskStep DEF op
  <2>4. s \in alone => Told(s)'
    BY <1>8, <2>3 DEF Told
  <2> QED BY <1>1, <2>3, <2>4 DEF UsInv
<1>9. CASE /\ ses[s].items # <<>> /\ Item(s).cmd = "0103"
           /\ Ask(s, "plat_q", Op("query", None, None), TRUE)
  <2> DEFINE op == Op("query", None, None)
  <2>1. op \in Statements /\ op.event = "query" /\ Ask(s, "plat_q", op, TRUE)
    BY <1>9, StatementTypes DEF Op
  <2>2. /\ "plat_q" \in Asking /\ TRUE \in BOOLEAN /\ ses[s].pc # "free"
        /\ "plat_q" \notin {"state_q", "state_f"}
    BY <1>1 DEF Asking
  <2> HIDE DEF op
  <2>3. /\ UsType' /\ RequestOk' /\ UseOk' /\ FetchOk'
        /\ ses'[s].pc = "plat_q" /\ Item(s)' = Item(s) /\ asked'[s] = op
        /\ \A q \in alone' : q = s
    BY <1>1, <1>2, <1>9, <2>1, <2>2, AskStep
  <2>4. s \in alone => Told(s)'
    BY <1>9, <2>1, <2>3 DEF Told
  <2> QED BY <1>1, <2>3, <2>4 DEF UsInv
<1> QED BY <1>4, <1>5, <1>7, <1>8, <1>9 DEF NextItem, Item

(* What a session learns from an answer that has been posted.              *)
LEMMA ReturnFacts ==
  ASSUME UsInv, NEW s \in Sessions, Continue(s)
  PROVE  /\ ses[s].pc \in Asking /\ ses[s].items # <<>> /\ Item(s).user \in Users
         /\ st[s] = "posted" /\ st[s] \notin Busy
         /\ main' = main /\ table' = table /\ srv' = srv /\ oper' = oper /\ rst' = rst
         /\ alone' = alone
         /\ fetched' = IF st[s] = "posted" /\ asked[s] = Fetch THEN <<>> ELSE fetched
         /\ ses[s].pc \in {"state_q", "state_f"} => Item(s).cmd = "0101"
         /\ ses[s].pc \in {"plat_q", "plat_f"} => Item(s).cmd \in {"0101", "0103"}
         /\ s \in alone => Told(s) /\ Served(s)
<1>1. /\ Returned(s) /\ main' = main /\ table' = table /\ srv' = srv /\ oper' = oper /\ rst' = rst
      /\ alone' = alone
  BY DEF Continue
<1>2. /\ st[s] = "posted" /\ st[s] \notin Busy
      /\ fetched' = IF st[s] = "posted" /\ asked[s] = Fetch THEN <<>> ELSE fetched
  BY <1>1 DEF Returned, Busy
<1>3. ses[s].pc \in Asking
  BY <1>2 DEF UsInv, UseOk
<1>4. /\ ses[s].items # <<>>
      /\ ses[s].pc \in {"state_q", "state_f"} => Item(s).cmd = "0101"
      /\ ses[s].pc \in {"plat_q", "plat_f"} => Item(s).cmd \in {"0101", "0103"}
  BY <1>3 DEF UsInv, UseOk, Item
<1>5. Item(s).user \in Users
  BY <1>4, SessionFields
<1>6. s \in alone => Told(s) /\ Served(s)
  BY <1>2 DEF UsInv, Served
<1> QED BY <1>1, <1>2, <1>3, <1>4, <1>5, <1>6

(* The session goes on to the statement of its item.                       *)
LEMMA ExecAsked ==
  ASSUME UsInv, NEW s \in Sessions, Continue(s), NEW flag \in BOOLEAN,
         NEW op \in Statements, Ask(s, "exec", op, flag),
         s \in alone =>
            /\ Item(s).cmd = "0101" /\ flag =>
                  op = Insert(s) \/ (op = Update(s) /\ RowOf(s) = "0103")
            /\ Item(s).cmd = "0103" => op = Update(s)
  PROVE  UsInv'
<1>1. "exec" \in Asking /\ ses[s].pc # "free"
  BY ReturnFacts DEF Asking
<1>2. /\ UsType' /\ RequestOk' /\ UseOk' /\ FetchOk'
      /\ ses'[s].pc = "exec" /\ ses'[s].flag = flag /\ Item(s)' = Item(s) /\ asked'[s] = op
      /\ RowOf(s)' = RowOf(s) /\ Insert(s)' = Insert(s) /\ Update(s)' = Update(s)
      /\ \A q \in alone' : q = s
      /\ s \in alone => ~Served(s)'
  BY <1>1, ReturnFacts, AskStep
<1>3. s \in alone => Told(s)'
  BY <1>2 DEF Told
<1> QED BY <1>2, <1>3, ReturnFacts DEF UsInv

(* The session goes on to another query or fetch.                          *)
LEMMA LookupAsked ==
  ASSUME UsInv, NEW s \in Sessions, Continue(s), NEW flag \in BOOLEAN,
         NEW op \in Statements, NEW pc \in {"state_f", "plat_q", "plat_f"}, Ask(s, pc, op, flag),
         pc = "state_f" => /\ Item(s).cmd = "0101" /\ op = Fetch
                           /\ s \in alone => rst = <<RowOf(s)>>,
         pc \in {"plat_q", "plat_f"} =>
            /\ Item(s).cmd \in {"0101", "0103"} /\ op.event \in {"query", "fetch"}
            /\ s \in alone /\ Item(s).cmd = "0101" => RowOf(s) = "0103"
  PROVE  UsInv'
<1>1. pc \in Asking /\ ses[s].pc # "free" /\ pc # "state_q"
  BY ReturnFacts DEF Asking
<1>2. /\ UsType' /\ RequestOk' /\ UseOk' /\ FetchOk'
      /\ ses'[s].pc = pc /\ ses'[s].flag = flag /\ Item(s)' = Item(s) /\ asked'[s] = op
      /\ RowOf(s)' = RowOf(s)
      /\ \A q \in alone' : q = s
      /\ s \in alone => ~Served(s)' /\ fetched' = <<>>
  BY <1>1, ReturnFacts, AskStep
<1>3. s \in alone => Told(s)'
  BY <1>1, <1>2, ReturnFacts DEF Told
<1> QED BY <1>2, <1>3, ReturnFacts DEF UsInv

(* The item is finished.                                                   *)
LEMMA FinishStep ==
  ASSUME UsInv, NEW s \in Sessions, Continue(s), FinishItem(s)
  PROVE  UsInv'
<1> DEFINE code == IF ses[s].flag /\ err = "ok" THEN "0"
                   ELSE IF Head(ses[s].items).cmd = "0103" THEN "3" ELSE "1"
<1>1. /\ st' = [st EXCEPT ![s] = "idle"] /\ queue' = queue /\ asked' = asked
      /\ ses' = [ses EXCEPT ![s].pc = "loop", ![s].items = Tail(@), ![s].res = Append(@, code)]
  BY DEF FinishItem
<1>2. code \in {"0", "1", "3", "4"}
  OBVIOUS
<1> HIDE DEF code
<1>3. /\ Tail(ses[s].items) \in Seq(Items)
      /\ Append(ses[s].res, code) \in Seq({"0", "1", "3", "4"})
  BY <1>2, SessionFields, ReturnFacts
<1>4. ses \in [Sessions -> SessionRec] /\ ses[s] \in SessionRec
  BY DEF UsInv, UsType
<1>5. /\ ses' \in [Sessions -> SessionRec] /\ ses'[s].pc = "loop"
      /\ \A q \in Sessions : q # s => ses'[q] = ses[q]
  BY <1>1, <1>3, <1>4 DEF SessionRec
<1>6. ses[s].pc # "free" /\ ses'[s].pc \notin Asking
  BY <1>5, ReturnFacts DEF Asking
<1>7. /\ st[s] \notin Busy /\ alone' \subseteq alone
      /\ fetched' = IF st[s] = "posted" /\ asked[s] = Fetch THEN <<>> ELSE fetched
      /\ srv' = srv /\ oper' = oper /\ table' = table /\ main' = main
  BY ReturnFacts
<1> QED BY <1>1, <1>5, <1>6, <1>7, AwayStep

(* A database call returns and the session goes on.                        *)
LEMMA ContinueStep == ASSUME UsInv, NEW s \in Sessions, Continue(s) PROVE UsInv'
<1>1. /\ Insert(s) \in Statements /\ Fetch \in Statements /\ Fetch.event = "fetch"
      /\ Op("query", None, None) \in Statements /\ Op("query", None, None).event = "query"
  BY ReturnFacts, StatementTypes DEF Insert, Item, Fetch, Op
<1>2. CASE ses[s].pc \in {"state_q", "state_f"} /\ Ask(s, "exec", Insert(s), FALSE)
  BY <1>1, <1>2, ReturnFacts, ExecAsked
<1>3. CASE ses[s].pc = "state_q" /\ err = "ok" /\ Ask(s, "state_f", Fetch, FALSE)
  <2>1. s \in alone => rst = <<RowOf(s)>>
    BY <1>3, ReturnFacts DEF Told
  <2> QED BY <1>1, <1>3, <2>1, ReturnFacts, LookupAsked
<1>4. CASE /\ ses[s].pc = "state_f" /\ fetched = <<"0103">>
           /\ Ask(s, "plat_q", Op("query", None, None), TRUE)
  <2>1. s \in alone => RowOf(s) = "0103"
    <3>1. s \in alone => <<"0103">> = <<>> \/ <<"0103">> = <<RowOf(s)>>
      BY <1>4, ReturnFacts DEF Told
    <3> QED BY <3>1
  <2> QED BY <1>1, <1>4, <2>1, ReturnFacts, LookupAsked
<1>5. CASE ses[s].pc = "state_f" /\ Ask(s, "exec", Insert(s), TRUE)
  BY <1>1, <1>5, ReturnFacts, ExecAsked
<1>6. CASE ses[s].pc \in {"plat_q", "plat_f"} /\ Ask(s, "exec", Update(s), TRUE)
  <2>1. Item(s).cmd \in {"0101", "0103"} /\ Update(s) \in Statements
    BY <1>6, ReturnFacts, StatementTypes DEF Update, Item
  <2>2. s \in alone /\ Item(s).cmd = "0101" => RowOf(s) = "0103"
    BY <1>6, ReturnFacts DEF Told
  <2> QED BY <1>6, <2>1, <2>2, ExecAsked
<1>7. CASE ses[s].pc = "plat_q" /\ Ask(s, "plat_f", Fetch, TRUE)
  <2>1. s \in alone /\ Item(s).cmd = "0101" => RowOf(s) = "0103"
    BY <1>7, ReturnFacts DEF Told
  <2> QED BY <1>1, <1>7, <2>1, ReturnFacts, LookupAsked
<1>8. CASE FinishItem(s)
  BY <1>8, FinishStep
<1> QED BY <1>2, <1>3, <1>4, <1>5, <1>6, <1>7, <1>8 DEF Continue

-----------------------------------------------------------------------------
(* The service.                                                            *)

(* Every step keeps the invariant.                                         *)
LEMMA NextInv == ASSUME UsInv, [UserSyncNext]_allvars PROVE UsInv'
<1>1. CASE UNCHANGED allvars
  BY <1>1, QuietStep DEF allvars, uvars
<1>2. CASE Process
  BY <1>2, ServiceMainStep, ServerStep, NotifyStep, ThreadStep, Coroutines DEF Process
<1>3. CASE Supervisor
  <2>1. CASE SuperviseCheck
    BY <2>1, QuietStep DEF SuperviseCheck
  <2>2. CASE StartServer
    BY <2>2, QuietStep DEF StartServer
  <2> QED BY <1>3, <2>1, <2>2 DEF Supervisor
<1>4. CASE StopSupervisor
  BY <1>4, QuietStep DEF StopSupervisor
<1>5. CASE Crash
  BY <1>5, EndStep DEF Crash
<1>6. CASE Reap
  BY <1>6, QuietStep DEF Reap
<1>7. ASSUME NEW s \in Sessions, HandleConnectTask(s) \/ Session(s) PROVE UsInv'
  <2>1. s \in Clients
    BY Coroutines
  <2> QED BY <1>7, <2>1, AcceptStep, ParseStep, ItemStep, ContinueStep, PacketStep, NotifyStep
          DEF Session
<1> QED BY <1>1, <1>2, <1>3, <1>4, <1>5, <1>6, <1>7 DEF UserSyncNext

(* Requests and sessions of the synchronisation service stay consistent:   *)
(* a request that is queued or with the database thread is the last one of *)
(* a coroutine that waits, fetched rows belong to somebody who waits for   *)
(* them, and a session that is alone knows the row of its user at every    *)
(* stage of an item (HandleSessionTask and db_sqlserver.cpp).              *)
THEOREM UsInductive == UserSyncSpec => []UsInv
<1>1. Init => UsInv
  BY InitInv
<1>2. UsInv /\ [UserSyncNext]_allvars => UsInv'
  BY NextInv
<1> QED BY <1>1, <1>2, PTL DEF UserSyncSpec

(* The item of a session that is alone gets code 0 only when it has been   *)
(* carried out.                                                            *)
Truthful(s) ==
    (s \in alone /\ ses[s].pc = "exec" /\ ses'[s].pc = "loop" /\ Last(ses'[s].res) = "0") =>
        LET i == Head(ses[s].items)
        IN  /\ i.cmd = "0101" => table[i.user] = "0101"
            /\ i.cmd = "0103" => table[i.user] # "0101"

(* A step that does not touch the session answers nothing.                 *)
LEMMA SilentStep ==
  ASSUME NEW s \in Sessions, ses'[s] = ses[s] \/ ses'[s].pc = "free" \/ ses[s].pc # "exec"
  PROVE  Truthful(s)
BY DEF Truthful, Free

(* FinishItem gives code 0 for a statement that has been carried out.      *)
LEMMA AnswerStep == ASSUME UsInv, NEW s \in Sessions, Continue(s) PROVE Truthful(s)
<1> SUFFICES ASSUME s \in alone, ses[s].pc = "exec", Last(ses'[s].res) = "0"
             PROVE  /\ Item(s).cmd = "0101" => RowOf(s) = "0101"
                    /\ Item(s).cmd = "0103" => RowOf(s) # "0101"
  BY DEF Truthful, Item, RowOf
<1>1. FinishItem(s) /\ Told(s) /\ Served(s)
  BY ReturnFacts DEF Continue
<1> DEFINE code == IF ses[s].flag /\ err = "ok" THEN "0"
                   ELSE IF Head(ses[s].items).cmd = "0103" THEN "3" ELSE "1"
<1>2. ses' = [ses EXCEPT ![s].pc = "loop", ![s].items = Tail(@), ![s].res = Append(@, code)]
  BY <1>1 DEF FinishItem
<1>3. code = "0" => ses[s].flag /\ err = "ok"
  OBVIOUS
<1>4. code \in {"0", "1", "3", "4"}
  OBVIOUS
<1> HIDE DEF code
<1>5. ses \in [Sessions -> SessionRec] /\ ses[s] \in SessionRec
      /\ ses[s].res \in Seq({"0", "1", "3", "4"})
  BY SessionFields DEF UsInv, UsType
<1>6. ses'[s].res = Append(ses[s].res, code)
  BY <1>2, <1>5 DEF SessionRec
<1>7. Last(ses'[s].res) = code
  BY <1>4, <1>5, <1>6 DEF Last
<1> QED BY <1>1, <1>3, <1>7 DEF Told

(* Nobody but the session itself gives its item a code.                    *)
LEMMA OtherStep ==
  ASSUME UsInv, NEW s \in Sessions, NEW q \in Sessions, q # s,
         HandleConnectTask(q) \/ ParseWebService(q) \/ NextItem(q) \/ Continue(q)
         \/ PacketWebService(q)
  PROVE  ses'[s] = ses[s]
<1>1. ses \in [Sessions -> SessionRec]
  BY DEF UsInv, UsType
<1>2. CASE HandleConnectTask(q)
  BY <1>1, <1>2 DEF HandleConnectTask
<1>3. CASE ParseWebService(q)
  BY <1>1, <1>3 DEF ParseWebService
<1>4. CASE NextItem(q)
  BY <1>1, <1>4 DEF NextItem, Ask
<1>5. CASE Continue(q)
  BY <1>1, <1>5 DEF Continue, Ask, FinishItem
<1>6. CASE PacketWebService(q)
  BY <1>1, <1>6 DEF PacketWebService
<1> QED BY <1>2, <1>3, <1>4, <1>5, <1>6

(* However the statements failed, and whatever earlier sessions left in    *)
(* the shared error code, recordset and fetched rows, a session that no    *)
(* other one overlaps answers code 0 only for an item that has been        *)
(* carried out (HandleSessionTask and the methods of DatabaseSync).        *)
THEOREM AnswersStayTrue == UserSyncSpec => AnswerTrue
<1>1. ASSUME UsInv, [UserSyncNext]_allvars, NEW s \in Sessions
      PROVE  Truthful(s)
  <2>1. CASE UNCHANGED ses
    BY <2>1, SilentStep
  <2>2. CASE ProcessEnds
    BY <2>2, SilentStep DEF ProcessEnds, Free
  <2>3. ASSUME NEW q \in Sessions,
               HandleConnectTask(q) \/ ParseWebService(q) \/ NextItem(q) \/ Continue(q)
               \/ PacketWebService(q)
        PROVE  Truthful(s)
    <3>1. CASE q # s
      BY <1>1, <2>3, <3>1, OtherStep, SilentStep
    <3>2. CASE q = s /\ ~Continue(s)
      <4>1. ses[s].pc # "exec"
        <5>1. HandleConnectTask(s) \/ ParseWebService(s) \/ NextItem(s) \/ PacketWebService(s)
          BY <2>3, <3>2
        <5>2. ses[s] = Free \/ ses[s].pc \in {"read", "loop", "write"}
          BY <5>1 DEF HandleConnectTask, ParseWebService, NextItem, PacketWebService
        <5> QED BY <5>2 DEF Free
      <4> QED BY <4>1, SilentStep
    <3>3. CASE q = s /\ Continue(s)
      BY <1>1, <3>3, AnswerStep
    <3> QED BY <3>1, <3>2, <3>3
  <2>4. \/ UNCHANGED ses \/ ProcessEnds
        \/ \E q \in Sessions : HandleConnectTask(q) \/ ParseWebService(q) \/ NextItem(q)
                               \/ Continue(q) \/ PacketWebService(q)
    <3>1. CASE UNCHANGED allvars
      BY <3>1 DEF allvars, uvars
    <3>2. CASE Process
      BY <3>2 DEF Process, ServiceMain, Server, uvars
    <3>3. CASE Supervisor \/ StopSupervisor \/ Crash \/ Reap
      BY <3>3 DEF Supervisor, SuperviseCheck, StartServer, StopSupervisor, Crash, Reap
    <3>4. CASE \E q \in Sessions : HandleConnectTask(q) \/ Session(q)
      BY <3>4 DEF Session, uvars
    <3> QED BY <1>1, <3>1, <3>2, <3>3, <3>4 DEF UserSyncNext
  <2> QED BY <2>1, <2>2, <2>3, <2>4
<1>2. UsInv /\ [UserSyncNext]_allvars =>
         [\A s \in Sessions :
            (s \in alone /\ ses[s].pc = "exec" /\ ses'[s].pc = "loop" /\ Last(ses'[s].res) = "0") =>
               LET i == Head(ses[s].items)
               IN  /\ i.cmd = "0101" => table[i.user] = "0101"
                   /\ i.cmd = "0103" => table[i.user] # "0101"]_allvars
  BY <1>1 DEF Truthful
<1> QED BY <1>2, UsInductive, PTL DEF UserSyncSpec, AnswerTrue
=============================================================================
