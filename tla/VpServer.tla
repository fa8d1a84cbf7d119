------------------------------ MODULE VpServer ------------------------------
(***************************************************************************)
(* The general server sample (examples/server.c): a watchdog process that  *)
(* forks VpCount server processes ("virtual processors", VPs), forwards    *)
(* signals to them and replaces them when they die, and, inside every VP,  *)
(* a pool of state threads that grows and shrinks with the load.           *)
(*                                                                         *)
(* A VP is a process of its own, so its steps interleave freely with those *)
(* of the watchdog and of the other VPs.  The threads of one VP switch     *)
(* only in accept and in the session's I/O, so everything between two such *)
(* calls is one step.  Signals are sets of pending signal numbers (POSIX   *)
(* merges a signal that is already pending).                               *)
(***************************************************************************)
EXTENDS Integers, Sequences, FiniteSets

CONSTANTS
    VpCount,        \* -p: number of server processes
    SkCount,        \* number of listening sockets
    FdLimit,        \* st_getfdlimit()
    OptMaxWait,     \* -t <min_thr>: 0 when not given
    OptMaxThreads,  \* -t :<max_thr>: 0 when not given
    MaxPids,        \* bound: processes fork() can create before it fails
    MaxSignals      \* bound: signals an operator sends

ASSUME VpServerAssumption ==
    /\ {VpCount, SkCount, FdLimit, MaxPids} \subseteq Nat \ {0}
    /\ {OptMaxWait, OptMaxThreads, MaxSignals} \subseteq Nat
    /\ FdLimit * VpCount >= 2 * SkCount

(* SIGUSR1 takes the same way as SIGHUP and only prints: it is left out.   *)
Sig     == {"TERM", "HUP"}
Pids    == 1..MaxPids
Slots   == 1..VpCount
Sockets == 1..SkCount
NoPid   == -1

-----------------------------------------------------------------------------
(* Thread limits.                                                          *)

CeilDiv(a, b) == IF a % b # 0 THEN a \div b + 1 ELSE a \div b

(* Limits for the whole server are worked out first and then divided,      *)
(* rounding up, among the processes.                                       *)
set_thread_throttling(optWait, optMax, vps, sks, fds) ==
    LET allThreads == IF optMax = 0 THEN ((fds * vps) \div 2) \div sks ELSE optMax
        wantWait   == IF optWait = 0 THEN 8 * vps ELSE optWait
        allWait    == IF wantWait > allThreads THEN allThreads ELSE wantWait
        wait       == CeilDiv(allWait, vps)
    IN  [max_wait    |-> wait,
         max_threads |-> CeilDiv(allThreads, vps),
         min_wait    |-> IF 2 > wait THEN wait ELSE 2]

limits == set_thread_throttling(OptMaxWait, OptMaxThreads, VpCount, SkCount, FdLimit)

-----------------------------------------------------------------------------
VARIABLES
    wd,        \* watchdog: program counter, slot in hand, pending signals
    vp_pids,   \* the watchdog's table of VP pids; vp_count is its domain
    proc,      \* every process the server forked
    pidfile,   \* the pid file exists
    cfgver,    \* version of the configuration on disk
    sent       \* signals sent by the operator

vars == <<wd, vp_pids, proc, pidfile, cfgver, sent>>

(* WAIT_THREADS and BUSY_THREADS of a socket, next to where its threads    *)
(* really are: created but not yet run, in accept, in a session; "failed"  *)
(* records that creating a thread failed.                                  *)
NoPool == [wait |-> 0, busy |-> 0, new |-> 0, accept |-> 0, session |-> 0,
           failed |-> FALSE]

(* handler: whose signal handlers are installed ("dfl": default action).   *)
NoProc == [st |-> "free", idx |-> 0, handler |-> "dfl", blocked |-> FALSE,
           pending |-> {}, pipe |-> <<>>, conf |-> 0,
           pool |-> [i \in Sockets |-> NoPool]]

Live(p)   == proc[p].st \in {"boot", "ready", "run"}
Exited(p) == [NoProc EXCEPT !.st = "zombie", !.idx = proc[p].idx]
FreePids  == {p \in Pids : proc[p].st = "free"}
NextPid   == CHOOSE p \in FreePids : \A q \in FreePids : p <= q

(* Defect: the signal mask is left alone around the fork.                  *)
WdBlockedNever == FALSE

(* The watchdog blocks signals from before it forks until the new pid is   *)
(* in its table.                                                           *)
WdBlocked == wd.pc \in {"blocked", "forked"}

(* Defect: the child starts with the signals unblocked.                    *)
ForkedUnblocked(i, h, b) ==
    [NoProc EXCEPT !.st = "boot", !.idx = i, !.handler = h, !.blocked = FALSE]

(* A forked child inherits the handlers and the signal mask of its parent. *)
Forked(i, h, b) == [NoProc EXCEPT !.st = "boot", !.idx = i, !.handler = h, !.blocked = b]

Init ==
    /\ wd = [pc |-> "args", interactive |-> FALSE, i |-> 1, pid |-> 0, pending |-> {}]
    /\ vp_pids = <<>>
    /\ proc = [p \in Pids |-> NoProc]
    /\ pidfile = FALSE
    /\ cfgver = 0
    /\ sent = 0

-----------------------------------------------------------------------------
(* Start-up.                                                               *)

(* What main does before the first fork, each part of which may fail and   *)
(* end the program.  Stage(a, b) goes from a to b or gives up.             *)
Stage(a, b) ==
    /\ wd.pc = a
    /\ wd' \in {[wd EXCEPT !.pc = b], [wd EXCEPT !.pc = "quit"]}
    /\ UNCHANGED <<vp_pids, proc, cfgver, sent>>

(* A bad number, a missing log directory or -h end the program; -i asks    *)
(* for a single process that stays in the foreground.  VpCount, SkCount    *)
(* and the -t limits are what the options, or their defaults, come to.     *)
parse_arguments ==
    /\ wd.pc = "args"
    /\ wd' \in {[wd EXCEPT !.pc = "daemon"], [wd EXCEPT !.pc = "quit"],
               [wd EXCEPT !.pc = "listen", !.interactive = TRUE]}
    /\ UNCHANGED <<vp_pids, proc, pidfile, cfgver, sent>>

start_daemon     == Stage("daemon", "listen") /\ UNCHANGED pidfile
create_listeners == Stage("listen", "user") /\ UNCHANGED pidfile
change_user      == Stage("user", "logs") /\ UNCHANGED pidfile

(* The pid file is written before the error log is opened; neither is in   *)
(* interactive mode.                                                       *)
open_log_files ==
    IF wd.interactive
    THEN /\ wd.pc = "logs"
         /\ wd' = [wd EXCEPT !.pc = "single"]
         /\ UNCHANGED <<vp_pids, proc, pidfile, cfgver, sent>>
    ELSE /\ Stage("logs", "fork")
         /\ pidfile' \in IF wd'.pc = "fork" THEN {TRUE} ELSE BOOLEAN

(* Interactive mode: the process itself becomes the only VP.               *)
StartInteractive ==
    /\ wd.pc = "single" /\ proc[1].st = "free"
    /\ proc' = [proc EXCEPT ![1] = Forked(1, "dfl", FALSE)]
    /\ UNCHANGED <<wd, vp_pids, pidfile, cfgver, sent>>

(* One turn of the first loop of start_processes.  A failing fork lowers   *)
(* vp_count, and ends the program when no process was started at all.      *)
ForkFirst ==
    /\ wd.pc = "fork"
    /\ \/ /\ FreePids # {}
          /\ proc' = [proc EXCEPT ![NextPid] = Forked(wd.i, "dfl", FALSE)]
          /\ vp_pids' = Append(vp_pids, NextPid)
          /\ wd' = [wd EXCEPT !.pc = IF wd.i = VpCount THEN "install" ELSE "fork",
                              !.i = @ + 1]
       \/ /\ wd' = [wd EXCEPT !.pc = IF wd.i = 1 THEN "quit" ELSE "install"]
          /\ UNCHANGED <<vp_pids, proc>>
    /\ UNCHANGED <<pidfile, cfgver, sent>>

InstallWatchdog ==
    /\ wd.pc = "install"
    /\ wd' = [wd EXCEPT !.pc = "wait"]
    /\ UNCHANGED <<vp_pids, proc, pidfile, cfgver, sent>>

-----------------------------------------------------------------------------
(* The watchdog loop.                                                      *)

(* wait(2) returns a dead child, or fails when there is no child left.     *)
WaitChild ==
    /\ wd.pc = "wait"
    /\ \/ \E p \in Pids :
             /\ proc[p].st = "zombie"
             /\ proc' = [proc EXCEPT ![p] = [NoProc EXCEPT !.st = "reaped"]]
             /\ wd' = [wd EXCEPT !.pc = "reaped", !.pid = p]
       \/ /\ \A p \in Pids : proc[p].st \in {"free", "reaped"}
          /\ wd' = [wd EXCEPT !.pc = "quit"]
          /\ UNCHANGED proc
    /\ UNCHANGED <<vp_pids, pidfile, cfgver, sent>>

(* Find the slot of the dead child and block signals.                      *)
BlockSignals ==
    /\ wd.pc = "reaped"
    /\ \E i \in DOMAIN vp_pids :
          /\ vp_pids[i] = wd.pid
          /\ wd' = [wd EXCEPT !.pc = "blocked", !.i = i]
    /\ UNCHANGED <<vp_pids, proc, pidfile, cfgver, sent>>

ForkReplacement ==
    /\ wd.pc = "blocked"
    /\ \/ /\ FreePids # {}
          /\ wd' = [wd EXCEPT !.pc = "forked", !.pid = NextPid]
          /\ proc' = [proc EXCEPT ![NextPid] = Forked(wd.i, "wdog", WdBlocked)]
       \/ /\ wd' = [wd EXCEPT !.pc = "forked", !.pid = NoPid]
          /\ UNCHANGED proc
    /\ UNCHANGED <<vp_pids, pidfile, cfgver, sent>>

(* Defect: the replacement is recorded in the first slot.                  *)
RecordPidFirst ==
    /\ wd.pc = "forked"
    /\ vp_pids' = [vp_pids EXCEPT ![1] = wd.pid]
    /\ wd' = [wd EXCEPT !.pc = "wait"]
    /\ UNCHANGED <<proc, pidfile, cfgver, sent>>

(* vp_pids[i] = pid, -1 after a failed fork; then restore the signal mask. *)
RecordPid ==
    /\ wd.pc = "forked"
    /\ vp_pids' = [vp_pids EXCEPT ![wd.i] = wd.pid]
    /\ wd' = [wd EXCEPT !.pc = "wait"]
    /\ UNCHANGED <<proc, pidfile, cfgver, sent>>

(* The handler forwards the signal to every VP in the table, then reopens  *)
(* the log (which may fail and end the watchdog), or ends it.              *)
wdog_sighandler(s) ==
    /\ wd.pc \in {"wait", "reaped", "blocked", "forked"} /\ ~WdBlocked
    /\ s \in wd.pending
    /\ LET targets == {vp_pids[i] : i \in DOMAIN vp_pids}
       IN  proc' = [p \in Pids |-> IF p \in targets /\ Live(p)
                                   THEN [proc[p] EXCEPT !.pending = @ \cup {s}]
                                   ELSE proc[p]]
    /\ \/ /\ wd' = [wd EXCEPT !.pending = @ \ {s},
                              !.pc = IF s = "TERM" THEN "terminated" ELSE @]
          /\ pidfile' = (s # "TERM" /\ pidfile)
       \/ /\ s = "HUP"
          /\ wd' = [wd EXCEPT !.pending = @ \ {s}, !.pc = "quit"]
          /\ UNCHANGED pidfile
    /\ UNCHANGED <<vp_pids, cfgver, sent>>

(* Before its handlers are installed any of the signals ends the watchdog. *)
DefaultSignal ==
    /\ wd.pc \in {"fork", "install"}
    /\ wd.pending # {}
    /\ wd' = [wd EXCEPT !.pc = "killed", !.pending = {}]
    /\ UNCHANGED <<vp_pids, proc, pidfile, cfgver, sent>>

(* The operator changes the configuration and sends SIGHUP, or sends       *)
(* another signal, to the process named in the pid file (to the only       *)
(* process in interactive mode).                                           *)
SendSignal(s) ==
    /\ sent < MaxSignals
    /\ sent' = sent + 1
    /\ cfgver' = IF s = "HUP" THEN cfgver + 1 ELSE cfgver
    /\ \/ /\ wd.pc \in {"fork", "install", "wait", "reaped", "blocked", "forked"}
          /\ wd' = [wd EXCEPT !.pending = @ \cup {s}]
          /\ UNCHANGED proc
       \/ /\ wd.pc = "single" /\ Live(1)
          /\ proc' = [proc EXCEPT ![1].pending = @ \cup {s}]
          /\ UNCHANGED wd
    /\ UNCHANGED <<vp_pids, pidfile>>

-----------------------------------------------------------------------------
(* A server process.                                                       *)

(* Signal pipe, own handlers, unblock: the first thing a VP does after     *)
(* start_processes returns in it.                                          *)
install_sighandlers(p) ==
    /\ proc[p].st = "boot"
    /\ proc' = [proc EXCEPT ![p].st = "ready", ![p].handler = "child", ![p].blocked = FALSE]
    /\ UNCHANGED <<wd, vp_pids, pidfile, cfgver, sent>>

(* load_configs and start_threads: n threads out of max_wait come up on    *)
(* each socket; a socket without any thread ends the process.              *)
start_threads(p) ==
    /\ proc[p].st = "ready"
    /\ \E n \in [Sockets -> 0..limits.max_wait] :
          proc' = [proc EXCEPT ![p] =
             IF \E i \in Sockets : n[i] = 0 THEN Exited(p)
             ELSE [@ EXCEPT !.st = "run", !.conf = cfgver,
                    !.pool = [i \in Sockets |->
                       [NoPool EXCEPT !.wait = n[i], !.new = n[i],
                                      !.failed = n[i] < limits.max_wait]]]]
    /\ UNCHANGED <<wd, vp_pids, pidfile, cfgver, sent>>

(* A signal reaches a VP: the default action ends it, its own handler      *)
(* writes the number into the signal pipe.                                 *)
child_sighandler(p, s) ==
    /\ Live(p) /\ ~proc[p].blocked /\ s \in proc[p].pending
    /\ proc' = [proc EXCEPT ![p] =
                  IF proc[p].handler = "dfl" THEN Exited(p)
                  ELSE [proc[p] EXCEPT !.pending = @ \ {s}, !.pipe = Append(@, s)]]
    /\ UNCHANGED <<wd, vp_pids, pidfile, cfgver, sent>>

(* Defect: the configuration is not loaded again on SIGHUP.                *)
process_signals_no_reload(p) ==
    /\ proc[p].st = "run" /\ proc[p].pipe # <<>>
    /\ proc' = [proc EXCEPT ![p] = IF Head(proc[p].pipe) = "TERM" THEN Exited(p)
                                   ELSE [@ EXCEPT !.pipe = Tail(@)]]
    /\ UNCHANGED <<wd, vp_pids, pidfile, cfgver, sent>>

(* The signal thread takes the next number out of the pipe.  Reopening the *)
(* error log may fail, which ends the VP.                                  *)
process_signals(p) ==
    /\ proc[p].st = "run" /\ proc[p].pipe # <<>>
    /\ LET s == Head(proc[p].pipe)
           rest == [proc[p] EXCEPT !.pipe = Tail(@)]
       IN  \/ s = "TERM" /\ proc' = [proc EXCEPT ![p] = Exited(p)]
           \/ s = "HUP"  /\ proc' = [proc EXCEPT ![p] = [rest EXCEPT !.conf = cfgver]]
           \/ s = "HUP"  /\ wd.pc # "single" /\ proc' = [proc EXCEPT ![p] = Exited(p)]
    /\ UNCHANGED <<wd, vp_pids, pidfile, cfgver, sent>>

(* A VP crashes.                                                           *)
Crash(p) ==
    /\ Live(p)
    /\ proc' = [proc EXCEPT ![p] = Exited(p)]
    /\ UNCHANGED <<wd, vp_pids, pidfile, cfgver, sent>>

-----------------------------------------------------------------------------
(* handle_connections: the loop of one connection thread.                  *)

(* A new thread tests the loop condition for the first time.               *)
ThreadStart(pool) ==
    IF pool.wait <= limits.max_wait
    THEN [pool EXCEPT !.new = @ - 1, !.accept = @ + 1]
    ELSE [pool EXCEPT !.new = @ - 1, !.wait = @ - 1]

(* Defect: the spare thread is not created when it would be the last one.  *)
AcceptedShort(pool, created) ==
    LET left == [pool EXCEPT !.wait = @ - 1, !.busy = @ + 1,
                             !.accept = @ - 1, !.session = @ + 1]
    IN  IF left.wait < limits.min_wait /\ left.wait + left.busy + 1 < limits.max_threads
        THEN IF created THEN [left EXCEPT !.wait = @ + 1, !.new = @ + 1]
                        ELSE [left EXCEPT !.failed = TRUE]
        ELSE left

(* st_accept returned a connection; a spare thread is created when too few *)
(* are left and the limit allows it; created says whether that succeeded.  *)
Accepted(pool, created) ==
    LET left == [pool EXCEPT !.wait = @ - 1, !.busy = @ + 1,
                             !.accept = @ - 1, !.session = @ + 1]
    IN  IF left.wait < limits.min_wait /\ left.wait + left.busy < limits.max_threads
        THEN IF created THEN [left EXCEPT !.wait = @ + 1, !.new = @ + 1]
                        ELSE [left EXCEPT !.failed = TRUE]
        ELSE left

(* Defect: a thread always goes back to accept after a session.            *)
SessionDoneStays(pool) ==
    [pool EXCEPT !.wait = @ + 1, !.busy = @ - 1, !.session = @ - 1, !.accept = @ + 1]

(* handle_session returned (whether or not it answered); the connection is *)
(* closed and the loop condition decides whether the thread goes on.       *)
SessionDone(pool) ==
    LET back == [pool EXCEPT !.wait = @ + 1, !.busy = @ - 1, !.session = @ - 1]
    IN  IF back.wait <= limits.max_wait
        THEN [back EXCEPT !.accept = @ + 1]
        ELSE [back EXCEPT !.wait = @ - 1]

handle_connections(p, i) ==
    /\ proc[p].st = "run"
    /\ LET pool == proc[p].pool[i]
           Becomes(q) == proc' = [proc EXCEPT ![p].pool[i] = q]
       IN  \/ pool.new > 0     /\ Becomes(ThreadStart(pool))
           \/ pool.accept > 0  /\ \E created \in BOOLEAN : Becomes(Accepted(pool, created))
           \/ pool.session > 0 /\ Becomes(SessionDone(pool))
    /\ UNCHANGED <<wd, vp_pids, pidfile, cfgver, sent>>

-----------------------------------------------------------------------------
Watchdog == \/ parse_arguments \/ start_daemon \/ create_listeners \/ change_user
            \/ open_log_files \/ StartInteractive \/ ForkFirst \/ InstallWatchdog \/ WaitChild
            \/ BlockSignals \/ ForkReplacement \/ RecordPid \/ DefaultSignal
            \/ \E s \in Sig : wdog_sighandler(s)

VpStep(p) == \/ install_sighandlers(p) \/ start_threads(p) \/ process_signals(p)
             \/ \E s \in Sig : child_sighandler(p, s)

Next ==
    \/ Watchdog
    \/ \E s \in Sig : SendSignal(s)
    \/ \E p \in Pids : VpStep(p) \/ Crash(p) \/ \E i \in Sockets : handle_connections(p, i)

Spec == Init /\ [][Next]_vars

(* Processes that can run are run by the operating system, and a pending   *)
(* signal that is not blocked is delivered.                                *)
FairSpec == Spec /\ WF_vars(Watchdog) /\ \A p \in Pids : WF_vars(VpStep(p))

-----------------------------------------------------------------------------
(* While the watchdog can be interrupted, every child it has not reaped is *)
(* in its table, under its own index: the search after wait(2) always ends *)
(* inside the table, and no VP is missed when a signal is forwarded.  When *)
(* SIGTERM has ended the watchdog, every VP still alive has the signal on  *)
(* its way, pending or in its pipe: none outlives its watchdog             *)
(* (start_processes and wdog_sighandler of server.c).                      *)
TableCoversChildren ==
    wd.pc \in {"wait", "reaped", "terminated"} =>
        \A p \in Pids : proc[p].st \notin {"free", "reaped"} =>
            proc[p].idx \in DOMAIN vp_pids /\ vp_pids[proc[p].idx] = p

TermOnItsWay ==
    wd.pc = "terminated" =>
        \A p \in Pids : Live(p) =>
            "TERM" \in proc[p].pending \cup {proc[p].pipe[k] : k \in DOMAIN proc[p].pipe}

NoVpMissed == TableCoversChildren /\ TermOnItsWay

(* No signal is delivered to a VP while it still has the handlers it       *)
(* inherited from the watchdog: it would forward the signal to its         *)
(* siblings and remove the pid file (the mask of start_processes, lifted   *)
(* by install_sighandlers, server.c).                                      *)
NoInheritedHandler ==
    \A p \in Pids : Live(p) /\ proc[p].handler = "wdog" => proc[p].blocked

(* The counters of a socket say where its threads are, and the pool stays  *)
(* within its limits.  Unless creating a thread failed, a socket has       *)
(* min_wait spare threads or as many as the limit leaves: it is deaf only  *)
(* when every thread it may have is busy (handle_connections of server.c). *)
PoolSound ==
    \A p \in Pids, i \in Sockets :
        LET q == proc[p].pool[i]
        IN  /\ q.wait = q.new + q.accept /\ q.busy = q.session
            /\ q.wait <= limits.max_wait /\ q.wait + q.busy <= limits.max_threads
            /\ proc[p].st = "run" /\ ~q.failed =>
                  q.wait >= limits.min_wait \/ q.wait + q.busy = limits.max_threads

(* Once SIGTERM has ended the watchdog all VPs end; and a VP, one that     *)
(* replaces a dead VP too, ends up with the configuration the last SIGHUP  *)
(* announced, as long as there is a watchdog to forward it ("Upon          *)
(* receiving a restart signal (SIGHUP), all VPs ... reload configuration", *)
(* examples/server.c:187-189).                                             *)
SignalsReachAll ==
    /\ wd.pc = "terminated" ~> \A p \in Pids : ~Live(p)
    /\ <>[](wd.pc = "wait" => \A p \in Pids : proc[p].st = "run" => proc[p].conf = cfgver)
=============================================================================
