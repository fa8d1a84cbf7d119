------------------------------ MODULE Gateway ------------------------------
(***************************************************************************)
(* The gateway of examples/proxy.c and, with a pass() of its own, of       *)
(* server/proxy.c.  Its processes accept clients; a thread per client      *)
(* connects to the remote host and pumps the data through, one direction   *)
(* after the other, until an end of file or an error, and closes both      *)
(* sockets.                                                                *)
(*                                                                         *)
(* The sides of a session are "cli" and "rmt".  A side's stream is what    *)
(* its peer has sent: numbered bytes that are in the gateway's receive     *)
(* buffer (in), in buf while the thread writes them, in the send buffer    *)
(* towards the other side (out) or have reached the other peer (got).      *)
(***************************************************************************)
EXTENDS Integers, Sequences, FiniteSets, FiniteSetsExt, SequencesExt

CONSTANTS
    Conns,      \* clients' connections
    PortArgs,   \* numbers given as port
    NumProcs,   \* values of num_procs; -1 from cpu_count when it cannot tell
    IoBufSize,  \* bytes of buf
    SockBuf,    \* bytes of a socket's buffer
    MaxBytes    \* bound: bytes the peer on each side sends

ASSUME GatewayAssumption ==
    /\ PortArgs \subseteq Nat /\ NumProcs \subseteq Int
    /\ IoBufSize \in Nat \ {0} /\ SockBuf \in Nat \ {0}
    /\ MaxBytes \in [{"cli", "rmt"} -> Nat]

VARIABLES
    gw,     \* the program: its stage, the processes to fork and those that serve
    ses,    \* the thread of every connection
    net     \* the streams of every connection

gwvars == <<gw, ses, net>>

Sides == {"cli", "rmt"}
Other(d) == IF d = "cli" THEN "rmt" ELSE "cli"

NoSession == [pc |-> "none", proc |-> 0, open |-> {}, todo |-> {}, buf |-> <<>>]
NoStream == [sent |-> 0, in |-> <<>>, out |-> <<>>, got |-> <<>>,
             eof |-> FALSE, gone |-> FALSE]

GwInit ==
    /\ gw = [stage |-> "main", left |-> 0, procs |-> {}]
    /\ ses = [c \in Conns |-> NoSession]
    /\ net = [c \in Conns |-> [d \in Sides |-> NoStream]]

-----------------------------------------------------------------------------
(* The processes.                                                          *)

(* The port is kept in 16 bits, in examples/ as a signed number.           *)
read_address(n, short) ==
    LET p == n % 65536 IN IF short /\ p >= 32768 THEN p - 65536 ELSE p

(* Options, daemon and listening socket, each of which may end the         *)
(* program; only the program in server/ can serve without forking.         *)
gw_main(port, short, n, one_process) ==
    /\ gw.stage = "main" /\ (one_process => ~short)
    /\ \/ gw' = [gw EXCEPT !.stage = "exit"]
       \/ /\ read_address(port, short) >= 1
          /\ gw' = IF one_process THEN [gw EXCEPT !.stage = "exit", !.procs = {1}]
                   ELSE [gw EXCEPT !.stage = "fork", !.left = Max({n, 1})]
    /\ UNCHANGED <<ses, net>>

(* The parent forks the processes and exits, earlier if a fork fails.      *)
set_concurrency ==
    /\ gw.stage = "fork"
    /\ \/ gw.left > 0 /\ gw' = [gw EXCEPT !.left = @ - 1, !.procs = @ \cup {gw.left}]
       \/ gw' = [gw EXCEPT !.stage = "exit"]
    /\ UNCHANGED <<ses, net>>

(* A session ends: its sockets are closed.                                 *)
ShutClient(s) == [s EXCEPT !.pc = "done", !.open = @ \ {"cli"}, !.todo = {}, !.buf = <<>>]
Shut(s) == [s EXCEPT !.pc = "done", !.open = {}, !.todo = {}, !.buf = <<>>]

(* The loop of main: a failed st_accept or st_thread_create ends the       *)
(* process with all of its sessions.                                       *)
Accept(p) ==
    /\ p \in gw.procs
    /\ \/ /\ \E c \in Conns :
               /\ ses[c].pc = "none"
               /\ ses' = [ses EXCEPT ![c] = [NoSession EXCEPT !.pc = "connect",
                                                !.proc = p, !.open = {"cli"}]]
          /\ UNCHANGED gw
       \/ /\ gw' = [gw EXCEPT !.procs = @ \ {p}]
          /\ ses' = [c \in Conns |-> IF ses[c].proc = p
                                     THEN [Shut(ses[c]) EXCEPT !.open = {}] ELSE ses[c]]
    /\ UNCHANGED net

-----------------------------------------------------------------------------
(* The thread of a connection: handle_request.                             *)

(* Step(c, s): the thread goes on as s.                                    *)
Step(c, s) == ses' = [ses EXCEPT ![c] = s] /\ UNCHANGED gw

ConnectRemote(c) ==
    /\ ses[c].pc = "connect" /\ UNCHANGED net
    /\ \/ Step(c, [ses[c] EXCEPT !.pc = "poll", !.open = Sides])
       \/ Step(c, Shut(ses[c]))

Readable(c) == {d \in Sides : net[c][d].in # <<>> \/ net[c][d].eof}

(* st_poll reports what was readable when the idle thread looked.          *)
Poll(c) ==
    /\ ses[c].pc = "poll" /\ UNCHANGED net
    /\ \/ \E ready \in SUBSET Readable(c) \ {{}} :
            Step(c, [ses[c] EXCEPT !.pc = "read", !.todo = ready])
       \/ Step(c, Shut(ses[c]))

(* The direction that is pumped: the client's first.                       *)
From(c) == IF "cli" \in ses[c].todo THEN "cli" ELSE "rmt"

(* The first half of pass(): an end of file or an error ends the session.  *)
Read(c) ==
    LET d == From(c)
        n == Min({Len(net[c][d].in), IoBufSize})
    IN /\ ses[c].pc = "read"
       /\ \/ /\ n > 0
             /\ net' = [net EXCEPT ![c][d].in = SubSeq(@, n + 1, Len(@))]
             /\ Step(c, [ses[c] EXCEPT !.pc = "write", !.buf = SubSeq(net[c][d].in, 1, n)])
          \/ /\ n = 0 \/ net[c][d].gone
             /\ UNCHANGED net /\ Step(c, Shut(ses[c]))

(* The thread has written a part of buf, and goes on with rest.            *)
Wrote(c, d, rest) ==
    LET left == ses[c].todo \ {d}
    IN Step(c, IF rest # <<>> THEN [ses[c] EXCEPT !.buf = rest]
               ELSE [ses[c] EXCEPT !.buf = <<>>, !.todo = left,
                                   !.pc = IF left = {} THEN "poll" ELSE "read"])

(* Defect: what the first write leaves over is dropped.                    *)
WriteOnce(c) ==
    LET d == From(c)
        n == Min({SockBuf - Len(net[c][d].out), Len(ses[c].buf)})
    IN /\ ses[c].pc = "write"
       /\ \/ /\ n > 0 /\ net' = [net EXCEPT ![c][d].out = @ \o SubSeq(ses[c].buf, 1, n)]
             /\ Wrote(c, d, <<>>)
          \/ /\ net[c][Other(d)].gone /\ UNCHANGED net /\ Step(c, Shut(ses[c]))

(* The second half: st_write waits until all is written, as far as there   *)
(* is room each time, or fails when the other peer is gone.                *)
Write(c) ==
    LET d == From(c)
        n == Min({SockBuf - Len(net[c][d].out), Len(ses[c].buf)})
    IN /\ ses[c].pc = "write"
       /\ \/ /\ n > 0 /\ net' = [net EXCEPT ![c][d].out = @ \o SubSeq(ses[c].buf, 1, n)]
             /\ Wrote(c, d, SubSeq(ses[c].buf, n + 1, Len(ses[c].buf)))
          \/ /\ net[c][Other(d)].gone /\ UNCHANGED net /\ Step(c, Shut(ses[c]))

handle_request(c) == ConnectRemote(c) \/ Poll(c) \/ Read(c) \/ Write(c)

-----------------------------------------------------------------------------
(* The peers.  A peer sends, may finish sending or go away altogether, and *)
(* receives what was written, also after the gateway has closed.           *)

Peer(c, d, s) == net' = [net EXCEPT ![c][d] = s] /\ UNCHANGED <<gw, ses>>

PeerSend(c, d) ==
    LET s == net[c][d]
    IN /\ d \in ses[c].open /\ ~s.eof /\ s.sent < MaxBytes[d] /\ Len(s.in) < SockBuf
       /\ Peer(c, d, [s EXCEPT !.sent = @ + 1, !.in = Append(@, s.sent + 1)])

PeerLeave(c, d) ==
    /\ d \in ses[c].open /\ ~net[c][d].eof
    /\ \E gone \in BOOLEAN : Peer(c, d, [net[c][d] EXCEPT !.eof = TRUE, !.gone = gone])

PeerReceive(c, d) ==
    LET s == net[c][d]
    IN /\ s.out # <<>> /\ ~net[c][Other(d)].gone
       /\ Peer(c, d, [s EXCEPT !.out = Tail(@), !.got = Append(@, Head(s.out))])

GwNext ==
    \/ \E port \in PortArgs, short, one \in BOOLEAN, n \in NumProcs : gw_main(port, short, n, one)
    \/ set_concurrency
    \/ \E p \in gw.procs : Accept(p)
    \/ \E c \in Conns : handle_request(c)
    \/ \E c \in Conns, d \in Sides : PeerSend(c, d) \/ PeerLeave(c, d) \/ PeerReceive(c, d)

(* The threads run on and the peers read what reaches them: two peers that *)
(* only write would block a gateway that pumps one direction at a time.    *)
GwFairness ==
    \A c \in Conns : /\ WF_gwvars(handle_request(c))
                     /\ \A d \in Sides : WF_gwvars(PeerReceive(c, d))

GwSpec == GwInit /\ [][GwNext]_gwvars /\ GwFairness

-----------------------------------------------------------------------------
(* The data is pumped through "without any modification", as the comment   *)
(* on main says: what the other peer has received is a prefix of what was  *)
(* sent, and while the session lasts nothing of the rest is missing,       *)
(* doubled or out of order, however the two directions, the pieces st_read *)
(* returns and the room st_write finds interleave.                         *)
StreamsKept ==
    \A c \in Conns, d \in Sides :
        LET s == net[c][d]
            written == s.got \o s.out
            held == IF ses[c].pc = "write" /\ From(c) = d THEN ses[c].buf ELSE <<>>
            all == [i \in 1..s.sent |-> i]
        IN IF ses[c].pc = "done" THEN IsPrefix(written, all)
           ELSE written \o held \o s.in = all

(* The thread of handle_request never gets stuck in one direction: all     *)
(* that was sent arrives unless the session ends, and the session ends,    *)
(* with both of its sockets closed, once either peer has stopped sending.  *)
SessionsPumped ==
    \A c \in Conns, d \in Sides :
        LET over == ses[c].pc = "done" /\ ses[c].open = {}
        IN /\ net[c][d].eof ~> over
           /\ []<>(Len(net[c][d].got) = net[c][d].sent \/ over)
=============================================================================
