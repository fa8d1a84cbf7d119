------------------------------ MODULE UserSync ------------------------------
(***************************************************************************)
(* The user synchronisation service (HMSyncPlatformServer) on the database *)
(* client, and the supervisor (HMSupervisonServer) that keeps the service  *)
(* running.                                                                *)
(*                                                                         *)
(* A session is a coroutine: it reads a request with a list of items,      *)
(* carries the items out on the database, answers and closes.  All         *)
(* sessions share one database connection.  The service process connects,  *)
(* listens and serves; the service control manager (SCM) knows a state of  *)
(* it that the supervisor polls.  The process is the one that ServiceMain  *)
(* runs (HM_SYNC_DEBUG 0); a process that ends takes everything but the    *)
(* database with it.                                                       *)
(***************************************************************************)
EXTENDS DbService

CONSTANTS
    Main,        \* the coroutine that connects and listens
    MaxItems,    \* bound: items of one request
    MaxSessions, \* bound: sessions accepted
    MaxCrashes   \* bound: ends of the process that nobody asked for

ASSUME UserSyncAssumption ==
    /\ Main \in Clients /\ {MaxItems, MaxSessions, MaxCrashes} \subseteq Nat
    /\ {"0101", "0103"} \subseteq States /\ None \notin States

Sessions == Clients \ {Main}

VARIABLES
    svc,      \* the service in the SCM: "absent", "stopped", "pending", "running"
    main,     \* the process: "none", "starting", "connect", "serve", "dead"
    sup,      \* where the supervisor's loop is
    brun,     \* the supervisor's brun
    ses,      \* the sessions
    alone,    \* history: sessions that have not overlapped with another one
    accepted, crashes

uvars == <<svc, main, sup, brun, ses, alone, accepted, crashes>>
allvars == <<vars, uvars>>

(* An item: create (0101), rename (0102), retire (0103) or anything else;  *)
(* or one that lacks a field other than its stream number.                 *)
Items == [cmd : {"0101", "0102", "0103", "other", "incomplete"}, user : Users]

(* What a client sends: whether the HTTP header is a POST with a length,   *)
(* whether the XML has a SyncData element, and the items.                  *)
ItemLists == BoundedSeq(Items, MaxItems)
Requests == [post : BOOLEAN, xml : BOOLEAN, items : ItemLists]

(* ReadInfo leaves the body empty unless the request is a POST.            *)
ReadInfo(r) == r.post

(* ParseData finds in a request with the items "sent" the items "is": it   *)
(* leaves an item out that lacks a field, and keeps the order.             *)
ParseData(sent, is) ==
    \E place \in [DOMAIN is -> DOMAIN sent] :
        /\ {place[k] : k \in DOMAIN is} = {n \in DOMAIN sent : sent[n].cmd # "incomplete"}
        /\ \A k \in DOMAIN is : is[k] = sent[place[k]]
        /\ \A j, k \in DOMAIN is : j < k => place[j] < place[k]

Free == [pc |-> "free", items |-> <<>>, flag |-> FALSE, res |-> <<>>]

Init ==
    /\ DbInit
    /\ svc \in {"absent", "stopped"} /\ main = "none"
    /\ sup = "check" /\ brun = TRUE
    /\ ses = [s \in Sessions |-> Free] /\ alone = {}
    /\ accepted = 0 /\ crashes = 0

-----------------------------------------------------------------------------
(* The process.                                                            *)

(* ServiceMain reports SERVICE_RUNNING before Server() connects to the     *)
(* database.                                                               *)
ServiceMain ==
    /\ main = "starting" /\ main' = "connect"
    /\ svc' = "running"
    /\ st_db_connect(Main)
    /\ UNCHANGED <<sup, brun, ses, alone, accepted, crashes, calls>>

(* The process ends: its memory is gone, the table stays.                  *)
ProcessEnds ==
    /\ main' = "none"
    /\ dbfd' = "none" /\ srv' = "none" /\ oper' = None /\ queue' = <<>>
    /\ event' = FALSE /\ rst' = None /\ fetched' = <<>> /\ err' = "ok"
    /\ running' = None
    /\ st' = [c \in Clients |-> "idle"] /\ asked' = [c \in Clients |-> None]
    /\ ses' = [s \in Sessions |-> Free] /\ alone' = {}
    /\ UNCHANGED <<table, calls>>

(* SyncServer::Run: the process listens, or cannot.                        *)
Run ==
    \/ main' = "serve" /\ UNCHANGED errors
    \/ main' = "dead" /\ errors < MaxErrors /\ errors' = errors + 1

(* Server() after InitDB: without a connection the service stops itself;   *)
(* then Run() listens.  When it cannot, ServiceMain returns and the SCM is *)
(* not told.                                                               *)
Server ==
    /\ main = "connect" /\ st[Main] = "posted" /\ running = None
    /\ \/ /\ err # "ok"
          /\ svc' = "stopped" /\ ProcessEnds /\ UNCHANGED errors
       \/ /\ err = "ok" /\ Returned(Main) /\ Run
          /\ st' = [st EXCEPT ![Main] = "idle"]
          /\ UNCHANGED <<svc, ses, alone, srv, oper, queue, event, rst, err, table,
                         running, asked, calls>>
    /\ UNCHANGED <<sup, brun, accepted, crashes>>

(* The process crashes, or an administrator stops the service: CtrlHandler *)
(* reports SERVICE_STOPPED and the process ends.                           *)
Crash ==
    /\ main # "none" /\ crashes < MaxCrashes
    /\ crashes' = crashes + 1
    /\ ProcessEnds
    /\ svc' \in IF svc = "running" THEN {"running", "stopped"} ELSE {svc}
    /\ UNCHANGED <<sup, brun, accepted, errors>>

(* The SCM notices that the process of a service is gone.                  *)
Reap ==
    /\ main = "none" /\ svc \in {"pending", "running"}
    /\ svc' = "stopped"
    /\ UNCHANGED <<vars, main, sup, brun, ses, alone, accepted, crashes>>

-----------------------------------------------------------------------------
(* The supervisor: Server() of supervision.cpp, once every ten seconds.    *)

(* Defect: a service that is not installed is not installed.               *)
CheckNotServerSkip == svc

(* CheckNotServer, CreateServer: the state of the service afterwards.      *)
CheckNotServer == IF svc = "absent" THEN "stopped" ELSE svc

(* GetServerStatus: the service is to be started.                          *)
GetServerStatus(now) == now \notin {"running", "pending"}

(* The first half of a round, up to the decision to start the service.     *)
(* Without it only CheckOneProcess follows: the SCM cannot stop a service  *)
(* without a process, so its StopServer has no effect.                     *)
SuperviseCheck ==
    /\ sup = "check" /\ brun
    /\ svc' = CheckNotServer
    /\ sup' = IF GetServerStatus(svc') THEN "start" ELSE "check"
    /\ UNCHANGED <<vars, main, brun, ses, alone, accepted, crashes>>

(* StartService fails unless the service is stopped.                       *)
StartServer ==
    /\ sup = "start" /\ sup' = "check"
    /\ IF svc = "stopped" /\ main = "none"
       THEN svc' = "pending" /\ main' = "starting"
       ELSE UNCHANGED <<svc, main>>
    /\ UNCHANGED <<vars, brun, ses, alone, accepted, crashes>>

Supervisor == SuperviseCheck \/ StartServer

(* CtrlHandler of the supervisor.                                          *)
StopSupervisor ==
    /\ brun /\ brun' = FALSE
    /\ UNCHANGED <<vars, svc, main, sup, ses, alone, accepted, crashes>>

-----------------------------------------------------------------------------
(* The sessions.                                                           *)

(* HandleConnectTask: the accepted connection gets a session coroutine,    *)
(* and the listener another HandleConnectTask, as it does after a failure. *)
HandleConnectTask(s) ==
    /\ main = "serve" /\ running = None /\ ses[s] = Free /\ accepted < MaxSessions
    /\ accepted' = accepted + 1
    /\ ses' = [ses EXCEPT ![s].pc = "read"]
    /\ alone' = IF \A q \in Sessions : ses[q] = Free THEN {s} ELSE {}
    /\ UNCHANGED <<vars, svc, main, sup, brun, crashes>>

(* Defect: a request that cannot be parsed ends the session there.         *)
ParseWebServiceDrop(s) ==
    /\ running = None /\ ses[s].pc = "read"
    /\ \E r \in Requests, is \in ItemLists :
          IF ReadInfo(r) /\ r.xml
          THEN /\ ParseData(r.items, is)
               /\ ses' = [ses EXCEPT ![s].pc = "loop", ![s].items = is]
               /\ running' = s
          ELSE ses' = [ses EXCEPT ![s].pc = "lost"] /\ UNCHANGED running
    /\ UNCHANGED <<dvars, st, asked, calls, errors, svc, main, sup, brun, alone, accepted, crashes>>

(* ParseWebService: the request has been read.  Without a body or without  *)
(* a SyncData element the answer is 404.                                   *)
ParseWebService(s) ==
    /\ running = None /\ ses[s].pc = "read"
    /\ \E r \in Requests, is \in ItemLists :
          IF ReadInfo(r) /\ r.xml
          THEN /\ ParseData(r.items, is)
               /\ ses' = [ses EXCEPT ![s].pc = "loop", ![s].items = is]
               /\ running' = s
          ELSE ses' = [ses EXCEPT ![s].pc = "write"] /\ UNCHANGED running
    /\ UNCHANGED <<dvars, st, asked, calls, errors, svc, main, sup, brun, alone, accepted, crashes>>

(* The database call of a session's next stage.                            *)
Ask(s, pc, op, flag) ==
    /\ Submit(s, op)
    /\ ses' = [ses EXCEPT ![s].pc = pc, ![s].flag = flag]

(* The head of the loop of HandleSessionTask.  The answer is written when  *)
(* the items are done.                                                     *)
NextItem(s) ==
    /\ running = s /\ ses[s].pc = "loop"
    /\ \/ /\ ses[s].items = <<>>
          /\ ses' = [ses EXCEPT ![s].pc = "write"]
          /\ running' = None
          /\ UNCHANGED <<queue, err, st, asked>>
       \/ /\ ses[s].items # <<>>
          /\ LET i == Head(ses[s].items)
             IN \/ i.cmd = "0101" /\ Ask(s, "state_q", Op("query", i.user, None), FALSE)
                \/ i.cmd = "0102" /\ Ask(s, "exec", Op("update", i.user, None), TRUE)
                \/ i.cmd = "0103" /\ Ask(s, "plat_q", Op("query", None, None), TRUE)
                \/ /\ i.cmd = "other"
                   /\ ses' = [ses EXCEPT ![s].items = Tail(@), ![s].res = Append(@, "4")]
                   /\ UNCHANGED <<queue, err, running, st, asked>>
    /\ UNCHANGED <<dbfd, srv, oper, event, rst, fetched, table, calls, errors,
                   svc, main, sup, brun, alone, accepted, crashes>>

Insert(s) == Op("insert", Head(ses[s].items).user, "0101")
Update(s) == Op("update", Head(ses[s].items).user, Head(ses[s].items).cmd)

(* Defect: the error of the statement is not looked at.                    *)
FinishItemDeaf(s) ==
    /\ running' = s
    /\ st' = [st EXCEPT ![s] = "idle"]
    /\ ses' = [ses EXCEPT ![s].pc = "loop", ![s].items = Tail(@),
                  ![s].res = Append(@, IF ses[s].flag THEN "0"
                                       ELSE IF Head(ses[s].items).cmd = "0103" THEN "3"
                                       ELSE "1")]
    /\ UNCHANGED <<queue, err, asked>>

(* CreateUserByDB, UpdateUserByDB or UpdateUserStateByDB returns, and      *)
(* HandleSessionTask gives the item its code.                              *)
FinishItem(s) ==
    /\ running' = s
    /\ st' = [st EXCEPT ![s] = "idle"]
    /\ ses' = [ses EXCEPT ![s].pc = "loop", ![s].items = Tail(@),
                  ![s].res = Append(@, IF ses[s].flag /\ err = "ok" THEN "0"
                                       ELSE IF Head(ses[s].items).cmd = "0103" THEN "3"
                                       ELSE "1")]
    /\ UNCHANGED <<queue, err, asked>>

(* A database call returns and the session goes on.  GetUserState asks for *)
(* the state of the user to be created, with a query and a fetch: a user   *)
(* that was retired is updated, any other is inserted, and when there was  *)
(* no row the creation counts as failed whatever the insert does.          *)
(* GetPlatName is a query and a fetch too, for a name that is no user.     *)
Continue(s) ==
    /\ Returned(s)
    /\ LET pc == ses[s].pc
       IN \/ pc = "state_q" /\ err # "ok" /\ Ask(s, "exec", Insert(s), FALSE)
          \/ pc = "state_q" /\ err = "ok" /\ Ask(s, "state_f", Fetch, FALSE)
          \/ pc = "state_f" /\ err # "ok" /\ Ask(s, "exec", Insert(s), FALSE)
          \/ /\ pc = "state_f" /\ err = "ok"
             /\ IF fetched = <<"0103">> THEN Ask(s, "plat_q", Op("query", None, None), TRUE)
                                        ELSE Ask(s, "exec", Insert(s), TRUE)
          \/ pc = "plat_q" /\ err # "ok" /\ Ask(s, "exec", Update(s), TRUE)
          \/ pc = "plat_q" /\ err = "ok" /\ Ask(s, "plat_f", Fetch, TRUE)
          \/ pc = "plat_f" /\ Ask(s, "exec", Update(s), TRUE)
          \/ pc = "exec" /\ FinishItem(s)
    /\ UNCHANGED <<srv, oper, event, rst, table, calls, errors,
                   svc, main, sup, brun, alone, accepted, crashes>>

(* PacketWebService, then st_netfd_close.                                  *)
PacketWebService(s) ==
    /\ running = None /\ ses[s].pc = "write"
    /\ ses' = [ses EXCEPT ![s] = Free]
    /\ alone' = alone \ {s}
    /\ UNCHANGED <<vars, svc, main, sup, brun, accepted, crashes>>

Session(s) ==
    \/ ParseWebService(s) \/ NextItem(s) \/ Continue(s) \/ PacketWebService(s)
    \/ Notify(s) /\ UNCHANGED uvars

-----------------------------------------------------------------------------
Process ==
    \/ ServiceMain \/ Server
    \/ Notify(Main) /\ UNCHANGED uvars
    \/ db_server /\ UNCHANGED uvars

UserSyncNext ==
    \/ Process \/ Supervisor \/ StopSupervisor \/ Crash \/ Reap
    \/ \E s \in Sessions : HandleConnectTask(s) \/ Session(s)

(* The threads, the SCM and the supervisor run on; the client of a session *)
(* sends its request and reads the answer, or goes away.                   *)
UserSyncSpec ==
    /\ Init /\ [][UserSyncNext]_allvars
    /\ WF_allvars(ServiceMain \/ Server) /\ WF_allvars(Notify(Main) /\ UNCHANGED uvars)
    /\ WF_allvars(db_server /\ UNCHANGED uvars)
    /\ WF_allvars(Supervisor) /\ WF_allvars(Reap)
    /\ \A s \in Sessions : WF_allvars(Session(s))

-----------------------------------------------------------------------------
(* A session that no other session overlaps tells the truth: an item       *)
(* answered with code 0 has been carried out, a created user is there, and *)
(* a retired one is not active, whatever statements failed on the way and  *)
(* whatever earlier sessions left in the shared recordset and error code   *)
(* (HandleSessionTask and the methods of DatabaseSync).                    *)
AnswerTrue ==
    [][\A s \in Sessions :
         (s \in alone /\ ses[s].pc = "exec" /\ ses'[s].pc = "loop" /\ Last(ses'[s].res) = "0") =>
            LET i == Head(ses[s].items)
            IN  /\ i.cmd = "0101" => table[i.user] = "0101"
                /\ i.cmd = "0103" => table[i.user] # "0101"]_allvars

(* Such a session is answered and closed, whatever its request and         *)
(* whatever fails, as long as the process and its database thread live.    *)
AloneAnswered ==
    \A s \in Sessions :
        (s \in alone) ~> (s \notin alone \/ srv \in {"none", "dtor", "done"})

(* The supervisor brings the service up again after a crash, a stop, a     *)
(* failed start or when it was never installed (Server() of                *)
(* supervision.cpp), unless the supervisor is stopped itself.              *)
ServiceHealed == (svc # "running" /\ brun) ~> (svc = "running" \/ ~brun)
=============================================================================
