-------------------------------- MODULE NetFd --------------------------------
(***************************************************************************)
(* Descriptor objects and sockets (io_win.cpp) and the completion worker   *)
(* (sched_win.cpp, _st_iocp_thread_pool).                                  *)
(*                                                                         *)
(* An st_netfd_t comes from a free list and keeps the osfd it had.  The    *)
(* worker learns the socket of a completion from the completion key, which *)
(* the listening socket shares with every socket accepted through it, and  *)
(* the operation from the context of the thread, which the thread's next   *)
(* operation overwrites.  Socket numbers are reissued by the system in any *)
(* order once they are closed.                                             *)
(***************************************************************************)
EXTENDS Integers, Sequences, SequencesExt

CONSTANTS Callers,    \* threads that do I/O
          Acceptors,  \* those that call st_accept; they set no time limits
          SockNums,   \* socket numbers the system has
          MaxObjs,    \* bound on the descriptor objects allocated
          MaxKeys,    \* bound on the completion keys allocated
          MaxIoCalls, \* bound on the calls made
          NoSock      \* not a socket number

ASSUME NfAssumption ==
  /\ Acceptors \subseteq Callers /\ NoSock \notin SockNums
  /\ MaxObjs \in Nat /\ MaxKeys \in Nat /\ MaxIoCalls \in Nat

VARIABLES
  sock,       \* state of each socket number: closed, open, listen or conn
  assoc,      \* the completion key a socket is associated with, 0 if none
  hdata,      \* per_handle_data->socket of every key allocated
  objs,       \* the descriptor objects: inuse, osfd, priv (private_data)
  freelist,   \* _st_netfd_freelist, from its head
  ctx,        \* context_switch of each thread: operator_type and osfd
  wait,       \* what each thread waits for in _st_wait: "none" or the call
  pend,       \* overlapped operations the kernel has not completed
  lsn,        \* history: the socket number st_netfd_listen made
  ncalls      \* history: calls made so far

nfvars == <<sock, assoc, hdata, objs, freelist, ctx, wait, pend, lsn, ncalls>>

NoObj == [inuse |-> FALSE, osfd |-> NoSock, priv |-> FALSE]

NfInit ==
  /\ sock = [s \in SockNums |-> "closed"]
  /\ assoc = [s \in SockNums |-> 0]
  /\ hdata = <<>> /\ objs = <<>> /\ freelist = <<>>
  /\ ctx = [c \in Callers |-> [type |-> "none", osfd |-> NoSock]]
  /\ wait = [c \in Callers |-> "none"]
  /\ pend = {} /\ lsn = NoSock /\ ncalls = 0

Call == ncalls < MaxIoCalls /\ ncalls' = ncalls + 1

\* closesocket: the operations pending on the socket are aborted, and their
\* completions still arrive, with the key they were started with.
CloseSocket(s) ==
  /\ sock' = [sock EXCEPT ![s] = "closed"]
  /\ assoc' = [assoc EXCEPT ![s] = 0]
  /\ pend' = {[p EXCEPT !.aborted = @ \/ p.sock = s] : p \in pend}

----------------------------------------------------------------------------
(* Descriptor objects *)

\* The object _st_netfd_new returns; one from the free list keeps its osfd.
NewObj == IF freelist # <<>> THEN Head(freelist) ELSE Len(objs) + 1
NewOsfd(osfd) == IF freelist # <<>> THEN objs[NewObj].osfd ELSE osfd

_st_netfd_new(osfd) ==
  /\ NewObj <= MaxObjs
  /\ IF freelist # <<>>
     THEN /\ objs' = [objs EXCEPT ![NewObj].inuse = TRUE]
          /\ freelist' = Tail(freelist)
     ELSE /\ objs' = Append(objs, [NoObj EXCEPT !.inuse = TRUE, !.osfd = osfd])
          /\ UNCHANGED freelist

FreeAgain(o) ==
  /\ objs' = [objs EXCEPT ![o].inuse = FALSE, ![o].priv = FALSE]
  /\ freelist' = <<o>> \o freelist
\* Freeing an object that is not in use does nothing.
st_netfd_free(o) ==
  IF ~objs[o].inuse THEN UNCHANGED <<objs, freelist>>
  ELSE /\ objs' = [objs EXCEPT ![o].inuse = FALSE, ![o].priv = FALSE]
       /\ freelist' = <<o>> \o freelist

FreeObj(o) ==
  /\ Call
  /\ st_netfd_free(o)
  /\ UNCHANGED <<sock, assoc, hdata, ctx, wait, pend, lsn>>

\* The program may close an object twice, or close one it freed: its socket
\* number is closed again, whoever has it now.
st_netfd_close(o) ==
  /\ Call
  /\ st_netfd_free(o)
  /\ IF objs[o].osfd \in SockNums THEN CloseSocket(objs[o].osfd)
                                  ELSE UNCHANGED <<sock, assoc, pend>>
  /\ lsn' = IF objs[o].osfd = lsn THEN NoSock ELSE lsn
  /\ UNCHANGED <<hdata, ctx, wait>>

st_netfd_setspecific(o) ==
  /\ Call /\ objs[o].inuse
  /\ objs' = [objs EXCEPT ![o].priv = TRUE]
  /\ UNCHANGED <<sock, assoc, hdata, freelist, ctx, wait, pend, lsn>>

----------------------------------------------------------------------------
(* Calls *)

\* The programs listen before they open any other descriptor.  A failed bind
\* or listen (ok is FALSE) leaves the socket open.
st_netfd_listen(s, ok) ==
  /\ Call /\ objs = <<>> /\ sock[s] = "closed" /\ Len(hdata) < MaxKeys
  /\ hdata' = Append(hdata, s)
  /\ assoc' = [assoc EXCEPT ![s] = Len(hdata) + 1]
  /\ sock' = [sock EXCEPT ![s] = IF ok THEN "listen" ELSE "open"]
  /\ lsn' = IF ok THEN s ELSE NoSock
  /\ IF ok THEN _st_netfd_new(s) ELSE UNCHANGED <<objs, freelist>>
  /\ UNCHANGED <<ctx, wait, pend>>

Pend(c, s, peer) ==
  pend' = pend \cup {[thread |-> c, sock |-> s, peer |-> peer,
                      key |-> assoc[s], aborted |-> FALSE]}

\* AcceptEx gets the object's osfd and the context the new socket; the call
\* fails, and leaves both behind, unless the listening socket listens and
\* the object's socket is a fresh one.
st_accept(c, o, s) ==
  /\ Call /\ c \in Acceptors
  /\ wait[c] = "none" /\ objs[o].inuse /\ objs[o].osfd \in SockNums
  /\ sock[objs[o].osfd] # "closed" /\ sock[s] = "closed"
  /\ sock' = [sock EXCEPT ![s] = "open"]
  /\ _st_netfd_new(s)
  /\ ctx' = [ctx EXCEPT ![c] = [type |-> "ACCEPT", osfd |-> s]]
  /\ IF /\ sock[objs[o].osfd] = "listen"
        /\ sock'[NewOsfd(s)] = "open"
     THEN Pend(c, objs[o].osfd, NewOsfd(s)) /\ wait' = [wait EXCEPT ![c] = "forever"]
     ELSE UNCHANGED <<pend, wait>>
  /\ UNCHANGED <<assoc, hdata, lsn>>

\* ConnectEx works on the new socket itself.  With no extension function for
\* the object's osfd (a stale one) the call returns before it is bound.
st_connect(c, s) ==
  /\ Call /\ wait[c] = "none" /\ sock[s] = "closed" /\ Len(hdata) < MaxKeys
  /\ _st_netfd_new(s)
  /\ LET ready == NewOsfd(s) = s \/ sock[NewOsfd(s)] # "closed" IN
       /\ sock' = [sock EXCEPT ![s] = "open"]
       /\ IF ready
          THEN /\ ctx' = [ctx EXCEPT ![c] = [type |-> "CONNECT", osfd |-> s]]
               /\ hdata' = Append(hdata, s)
               /\ assoc' = [assoc EXCEPT ![s] = Len(hdata) + 1]
               /\ pend' = pend \cup {[thread |-> c, sock |-> s, peer |-> NoSock,
                                      key |-> Len(hdata) + 1, aborted |-> FALSE]}
               /\ wait' = [wait EXCEPT ![c] = "forever"]
          ELSE UNCHANGED <<ctx, hdata, assoc, pend, wait>>
  /\ UNCHANGED lsn

\* st_read and st_write; the worker treats RECV_OPER and SEND_OPER alike.  On
\* a socket that is not connected the call fails at once, after it has set
\* the context's operation.
Transfer(c, o) ==
  /\ Call /\ wait[c] = "none" /\ objs[o].inuse /\ objs[o].osfd \in SockNums
  /\ ctx' = [ctx EXCEPT ![c].type = "TRANSFER"]
  /\ IF sock[objs[o].osfd] = "conn" /\ assoc[objs[o].osfd] # 0
     THEN /\ Pend(c, objs[o].osfd, NoSock)
          /\ wait' = [wait EXCEPT ![c] = "timed"]
     ELSE UNCHANGED <<pend, wait>>
  /\ UNCHANGED <<sock, assoc, hdata, objs, freelist, lsn>>

\* A read gives up; the operation and the use of the context live on.
Timeout(c) ==
  /\ c \notin Acceptors /\ wait[c] = "timed"
  /\ wait' = [wait EXCEPT ![c] = "none"]
  /\ UNCHANGED <<sock, assoc, hdata, objs, freelist, ctx, pend, lsn, ncalls>>

----------------------------------------------------------------------------
(* The completion worker *)

ClosesAccepting(type, ok) == ~ok /\ type # "CONNECT"
\* A failed transfer, or one of no bytes, closes the key's socket.
Closes(type, ok) == ~ok /\ type # "ACCEPT" /\ type # "CONNECT"

\* What the kernel did to the sockets before it queued the completion.
Completed(p, ok) ==
  [s \in SockNums |->
     IF ok /\ sock[s] = "open"
           /\ s = (IF p.peer # NoSock THEN p.peer ELSE p.sock)
     THEN "conn" ELSE sock[s]]

\* An accepted socket is put into the key of the listening socket, with
\* which it is then associated.
_st_iocp_thread_pool(p, ok) ==
  LET c == p.thread
      type == ctx[c].type
      done == Completed(p, ok)
      shut == IF Closes(type, ok) THEN hdata[p.key] ELSE NoSock
      s == ctx[c].osfd
  IN /\ p.aborted => ~ok
     /\ sock' = [x \in SockNums |-> IF x = shut THEN "closed" ELSE done[x]]
     /\ hdata' = IF type = "ACCEPT" THEN [hdata EXCEPT ![p.key] = s] ELSE hdata
     /\ assoc' = [x \in SockNums |->
                    IF x = shut THEN 0
                    ELSE IF type = "ACCEPT" /\ x = s /\ assoc[x] = 0
                            /\ sock[x] # "closed" THEN p.key
                    ELSE assoc[x]]
     /\ pend' = {[q EXCEPT !.aborted = @ \/ q.sock = shut] : q \in pend \ {p}}
     /\ wait' = [wait EXCEPT ![c] = "none"]
     /\ UNCHANGED <<objs, freelist, ctx, lsn, ncalls>>

NfNext ==
  \/ \E o \in DOMAIN objs : FreeObj(o) \/ st_netfd_close(o)
                              \/ st_netfd_setspecific(o)
  \/ \E s \in SockNums, ok \in BOOLEAN : st_netfd_listen(s, ok)
  \/ \E c \in Callers, s \in SockNums :
       st_connect(c, s) \/ \E o \in DOMAIN objs : st_accept(c, o, s)
  \/ \E c \in Callers, o \in DOMAIN objs : Transfer(c, o)
  \/ \E c \in Callers : Timeout(c)
  \/ \E p \in pend, ok \in BOOLEAN : _st_iocp_thread_pool(p, ok)

NfSpec == NfInit /\ [][NfNext]_nfvars

----------------------------------------------------------------------------
(* An object is in use or linked in the free list, never both and never    *)
(* twice, even when it is freed or closed again; one in the list carries   *)
(* no private data to its next user (io_win.cpp, st_netfd_free).           *)
FreelistSound ==
  /\ IsInjective(freelist)
  /\ \A o \in DOMAIN objs :
       /\ objs[o].inuse <=> o \notin ToSet(freelist)
       /\ ~objs[o].inuse => ~objs[o].priv

(* Only closing its own descriptor closes the listening socket: no failed  *)
(* read, late completion, second close or reissued socket number does,     *)
(* although the worker closes the socket it finds in a key that the        *)
(* listening socket shares (sched_win.cpp, _st_iocp_thread_pool).          *)
ListenerOpen == lsn # NoSock => sock[lsn] = "listen"

=============================================================================
