--------------------------- MODULE VpServerProofs ---------------------------
(***************************************************************************)
(* Proofs about the multi-process server of VpServer, for any number of    *)
(* processes, sockets, signals and thread limits: no VP is missed by the   *)
(* watchdog (NoVpMissed), none runs a handler of the watchdog              *)
(* (NoInheritedHandler), and the thread pools keep their counters and      *)
(* limits (PoolSound).                                                     *)
(***************************************************************************)
EXTENDS VpServer, SequenceTheorems, WellFoundedInduction, TLAPS

States == {"free", "boot", "ready", "run", "zombie", "reaped"}
Startup == {"args", "daemon", "listen", "user", "logs"}
Table   == {"fork", "install", "wait", "reaped", "blocked", "terminated"}
Stages  == Startup \cup Table \cup {"single", "forked", "quit", "killed"}

Pools == [wait : Nat, busy : Nat, new : Nat, accept : Nat, session : Nat, failed : BOOLEAN]

Procs == [st : States, idx : Nat, handler : {"dfl", "wdog", "child"}, blocked : BOOLEAN,
          pending : SUBSET Sig, pipe : Seq(Sig), conf : Nat, pool : [Sockets -> Pools]]

Wds == [pc : Stages, interactive : BOOLEAN, i : Nat, pid : Pids \cup {0, NoPid},
        pending : SUBSET Sig]

VpType ==
    /\ wd \in Wds
    /\ vp_pids \in Seq(Pids \cup {NoPid})
    /\ proc \in [Pids -> Procs]
    /\ cfgver \in Nat

(* A child that has not been reaped is in the slot it was forked for.      *)
InSlot(p) == proc[p].st \notin {"free", "reaped"} =>
                 proc[p].idx \in 1..Len(vp_pids) /\ vp_pids[proc[p].idx] = p

(* Where the watchdog is between two turns of its loops.  The slot that it *)
(* has in hand holds a pid that was reaped, so that no child is lost when  *)
(* the slot is overwritten.                                                *)
TableInv ==
    /\ wd.pc \in Startup => \A p \in Pids : proc[p].st = "free"
    /\ wd.pc \in Startup \cup {"fork"} => wd.i = Len(vp_pids) + 1
    /\ wd.pc \in Table => \A p \in Pids : InSlot(p)
    /\ wd.pc = "reaped" => wd.pid \in Pids /\ proc[wd.pid].st = "reaped"
    /\ wd.pc \in {"blocked", "forked"} =>
          /\ wd.i \in 1..Len(vp_pids)
          /\ vp_pids[wd.i] \in Pids /\ proc[vp_pids[wd.i]].st = "reaped"
    /\ wd.pc = "forked" =>
          /\ wd.pid # 0
          /\ wd.pid \in Pids => proc[wd.pid].idx = wd.i
          /\ \A p \in Pids : p # wd.pid => InSlot(p)

HasTerm(q) == "TERM" \in q.pending \/ \E k \in 1..Len(q.pipe) : q.pipe[k] = "TERM"

TermInv == wd.pc = "terminated" => \A p \in Pids : Live(p) => HasTerm(proc[p])

PoolOk(q) ==
    /\ q.wait = q.new + q.accept /\ q.busy = q.session
    /\ q.wait <= limits.max_wait /\ q.wait + q.busy <= limits.max_threads

Spare(q) == q.failed \/ q.wait >= limits.min_wait \/ q.wait + q.busy = limits.max_threads

(* What every process keeps by itself.                                     *)
ProcOk(v) ==
    /\ v.handler = "wdog" => v.blocked
    /\ \A i \in Sockets : PoolOk(v.pool[i]) /\ (v.st = "run" => Spare(v.pool[i]))

ProcInv == \A p \in Pids : ProcOk(proc[p])

VpInv == VpType /\ TableInv /\ TermInv /\ ProcInv

-----------------------------------------------------------------------------
(* Facts about the operators of the model.                                 *)

Less == {ss \in Nat \X Nat : ss[1] < ss[2]}

(* A set of natural numbers has a least element.                           *)
LEMMA NatMin ==
    ASSUME NEW S, S \subseteq Nat, S # {} PROVE \E x \in S : \A y \in S : x <= y
<1>1. Less = OpToRel(<, Nat)
  BY Zenon DEF Less, OpToRel
<1>2. IsWellFoundedOn(Less, Nat)
  BY <1>1, NatLessThanWellFounded
<1>3. PICK x \in S : \A y \in S : ~(<<y, x>> \in Less)
  BY <1>2, WFMin
<1>4. ASSUME NEW y \in S PROVE x <= y
  <2>1. <<y, x>> \in Nat \X Nat /\ <<y, x>>[1] = y /\ <<y, x>>[2] = x
    OBVIOUS
  <2>2. ~(y < x)
    BY <1>3, <2>1 DEF Less
  <2> QED BY <2>2
<1> QED BY <1>4

(* fork() returns a pid that is free.                                      *)
LEMMA NextPidFree == ASSUME FreePids # {} PROVE NextPid \in FreePids
<1>1. FreePids \subseteq Nat
  BY VpServerAssumption DEF FreePids, Pids
<1>2. \E x \in FreePids : \A y \in FreePids : x <= y
  BY <1>1, NatMin
<1> HIDE DEF FreePids
<1> QED BY <1>2 DEF NextPid

(* Rounding up keeps the order.                                            *)
LEMMA CeilDivFacts ==
    ASSUME NEW v \in Nat \ {0}, NEW a \in Nat, NEW b \in Nat, a <= b
    PROVE  /\ CeilDiv(a, v) \in Nat /\ CeilDiv(b, v) \in Nat
           /\ CeilDiv(a, v) <= CeilDiv(b, v)
BY DEF CeilDiv

(* set_thread_throttling: dividing by the number of processes keeps the    *)
(* order of the limits, whatever the options say.                          *)
LEMMA LimitsFacts ==
    /\ limits.max_wait \in Nat /\ limits.max_threads \in Nat /\ limits.min_wait \in Nat
    /\ limits.max_wait <= limits.max_threads /\ limits.min_wait <= limits.max_wait
<1> DEFINE allThreads == IF OptMaxThreads = 0 THEN ((FdLimit * VpCount) \div 2) \div SkCount
                                              ELSE OptMaxThreads
           wantWait == IF OptMaxWait = 0 THEN 8 * VpCount ELSE OptMaxWait
           allWait  == IF wantWait > allThreads THEN allThreads ELSE wantWait
           wait     == CeilDiv(allWait, VpCount)
<1>1. VpCount \in Nat \ {0} /\ SkCount \in Nat \ {0} /\ FdLimit \in Nat
      /\ OptMaxWait \in Nat /\ OptMaxThreads \in Nat
  BY VpServerAssumption
<1>2. allThreads \in Nat
  <2>1. FdLimit * VpCount \in Nat
    BY <1>1
  <2>2. (FdLimit * VpCount) \div 2 \in Nat
    BY <2>1
  <2>3. ((FdLimit * VpCount) \div 2) \div SkCount \in Nat
    BY <1>1, <2>2
  <2> QED BY <1>1, <2>3
<1>3. wantWait \in Nat
  BY <1>1
<1>4. /\ limits.max_wait = wait /\ limits.max_threads = CeilDiv(allThreads, VpCount)
      /\ limits.min_wait = IF 2 > wait THEN wait ELSE 2
  BY DEF limits, set_thread_throttling
<1> HIDE DEF allThreads, wantWait
<1>5. allWait \in Nat /\ allWait <= allThreads
  BY <1>2, <1>3
<1> HIDE DEF allWait
<1>6. wait \in Nat /\ CeilDiv(allThreads, VpCount) \in Nat /\ wait <= CeilDiv(allThreads, VpCount)
  BY <1>1, <1>2, <1>5, CeilDivFacts
<1> HIDE DEF wait
<1> QED BY <1>4, <1>6

(* A new process, and one that has ended, have nothing to break.           *)
LEMMA FreshProcs ==
    ASSUME NEW v \in Procs, v.handler \in {"dfl", "child"} \/ v.blocked,
           v.st # "run", v.pool = NoProc.pool
    PROVE  ProcOk(v)
<1>1. \A i \in Sockets : v.pool[i] = NoPool
  BY DEF NoProc
<1>2. PoolOk(NoPool)
  BY LimitsFacts DEF PoolOk, NoPool
<1> QED BY <1>1, <1>2 DEF ProcOk

(* The types of the processes that the model makes.                        *)
LEMMA NoProcFacts ==
    /\ NoProc \in Procs /\ NoProc.st = "free" /\ NoProc.idx = 0
    /\ NoProc.handler = "dfl" /\ NoProc.pending = {} /\ Len(NoProc.pipe) = 0
BY DEF NoProc, Procs, States, Pools, NoPool

(* A process is forked with the handlers of its parent, blocked or not.    *)
LEMMA ForkedFacts ==
    ASSUME NEW i \in Nat, NEW h \in {"dfl", "wdog"}, NEW b \in BOOLEAN, h = "wdog" => b
    PROVE  /\ Forked(i, h, b) \in Procs /\ ProcOk(Forked(i, h, b))
           /\ Forked(i, h, b).st = "boot" /\ Forked(i, h, b).idx = i
<1> DEFINE v == Forked(i, h, b)
<1>1. v \in Procs /\ v.st = "boot" /\ v.idx = i /\ v.handler = h /\ v.blocked = b
      /\ v.pool = NoProc.pool
  BY NoProcFacts DEF Forked, NoProc, Procs, States
<1> HIDE DEF v
<1>2. ProcOk(v)
  BY <1>1, FreshProcs
<1> QED BY <1>1, <1>2 DEF v

(* A process that dies keeps its slot in the table.                        *)
LEMMA ExitedFacts ==
    ASSUME VpType, NEW p \in Pids
    PROVE  /\ Exited(p) \in Procs /\ ProcOk(Exited(p))
           /\ Exited(p).st = "zombie" /\ Exited(p).idx = proc[p].idx
<1> DEFINE v == Exited(p)
<1>1. proc[p].idx \in Nat
  BY DEF VpType, Procs
<1>2. v \in Procs /\ v.st = "zombie" /\ v.idx = proc[p].idx /\ v.handler = "dfl"
      /\ v.pool = NoProc.pool
  BY <1>1, NoProcFacts DEF Exited, NoProc, Procs, States
<1> HIDE DEF v
<1>3. ProcOk(v)
  BY <1>2, FreshProcs
<1> QED BY <1>2, <1>3 DEF v

(* What the watchdog has waited for holds nothing any more.                *)
LEMMA ReapedFacts ==
    LET v == [NoProc EXCEPT !.st = "reaped"] IN v \in Procs /\ ProcOk(v) /\ v.st = "reaped"
<1> DEFINE v == [NoProc EXCEPT !.st = "reaped"]
<1>1. v \in Procs /\ v.st = "reaped" /\ v.handler = "dfl" /\ v.pool = NoProc.pool
  BY NoProcFacts DEF NoProc, Procs, States
<1> HIDE DEF v
<1>2. ProcOk(v)
  BY <1>1, FreshProcs
<1> QED BY <1>1, <1>2 DEF v

-----------------------------------------------------------------------------
(* A step of one VP keeps the invariant when the process it leaves behind  *)
(* is sound by itself, still counts as a child in the same slot, and has   *)
(* SIGTERM if it had.                                                      *)
LEMMA VpKeeps ==
    ASSUME VpInv, NEW p \in Pids, Live(p), NEW v \in Procs, ProcOk(v),
           v.st \notin {"free", "reaped"}, v.idx = proc[p].idx,
           v.st # "zombie" /\ HasTerm(proc[p]) => HasTerm(v),
           proc' = [proc EXCEPT ![p] = v], UNCHANGED <<wd, vp_pids>>, cfgver' \in Nat
    PROVE  VpInv'
<1>1. /\ proc \in [Pids -> Procs] /\ proc' \in [Pids -> Procs] /\ proc'[p] = v
      /\ \A q \in Pids : q # p => proc'[q] = proc[q]
  BY DEF VpInv, VpType
<1>2. VpType'
  BY <1>1 DEF VpInv, VpType
<1>3. proc[p].st \notin {"free", "reaped", "zombie"}
  BY DEF Live
<1>4. \A q \in Pids : /\ InSlot(q) => InSlot(q)'
                      /\ proc[q].st = "reaped" => proc'[q].st = "reaped"
                      /\ proc'[q].idx = proc[q].idx
  BY <1>1, <1>3 DEF InSlot
<1>5. TableInv'
  <2>1. wd.pc \notin Startup
    BY <1>3 DEF VpInv, TableInv
  <2>2. wd.pc \in Table => \A q \in Pids : InSlot(q)'
    BY <1>4 DEF VpInv, TableInv
  <2>3. wd.pc \in {"blocked", "forked"} =>
          /\ wd.i \in 1..Len(vp_pids)
          /\ vp_pids[wd.i] \in Pids /\ proc'[vp_pids[wd.i]].st = "reaped"
    BY <1>4 DEF VpInv, TableInv
  <2>4. wd.pc = "forked" =>
          /\ wd.pid # 0
          /\ wd.pid \in Pids => proc'[wd.pid].idx = wd.i
          /\ \A q \in Pids : q # wd.pid => InSlot(q)'
    BY <1>4 DEF VpInv, TableInv
  <2>5. /\ wd.pc = "reaped" => wd.pid \in Pids /\ proc'[wd.pid].st = "reaped"
        /\ wd.pc = "fork" => wd.i = Len(vp_pids) + 1
    BY <1>4 DEF VpInv, TableInv
  <2> QED BY <2>1, <2>2, <2>3, <2>4, <2>5 DEF TableInv
<1>6. TermInv'
  <2> SUFFICES ASSUME wd.pc = "terminated", NEW q \in Pids, Live(q)' PROVE HasTerm(proc[q])'
    BY DEF TermInv
  <2>1. CASE q = p
    BY <1>1, <1>3, <2>1 DEF VpInv, TermInv, Live
  <2>2. CASE q # p
    BY <1>1, <2>2 DEF VpInv, TermInv, Live
  <2> QED BY <2>1, <2>2
<1>7. ProcInv'
  BY <1>1 DEF VpInv, ProcInv
<1> QED BY <1>2, <1>5, <1>6, <1>7 DEF VpInv

(* The end of a VP, from a crash, a signal or an error.                    *)
LEMMA ExitStep ==
    ASSUME VpInv, NEW p \in Pids, Live(p), proc' = [proc EXCEPT ![p] = Exited(p)],
           UNCHANGED <<wd, vp_pids, cfgver>>
    PROVE  VpInv'
<1>1. /\ Exited(p) \in Procs /\ ProcOk(Exited(p))
      /\ Exited(p).st = "zombie" /\ Exited(p).idx = proc[p].idx
  BY ExitedFacts DEF VpInv
<1>2. cfgver' \in Nat
  BY DEF VpInv, VpType
<1> HIDE DEF Exited
<1> QED BY <1>1, <1>2, VpKeeps

(* install_sighandlers: the inherited handlers go before the mask does.    *)
LEMMA InstallStep == ASSUME VpInv, NEW p \in Pids, install_sighandlers(p) PROVE VpInv'
<1> DEFINE v == [proc[p] EXCEPT !.st = "ready", !.handler = "child", !.blocked = FALSE]
<1>1. /\ proc[p] \in Procs /\ ProcOk(proc[p]) /\ proc[p].st = "boot"
      /\ proc' = [proc EXCEPT ![p] = v] /\ UNCHANGED <<wd, vp_pids>> /\ cfgver' \in Nat
  BY DEF VpInv, VpType, ProcInv, install_sighandlers
<1>2. /\ v \in Procs /\ v.st = "ready" /\ v.idx = proc[p].idx /\ v.handler = "child"
      /\ v.pool = proc[p].pool /\ v.pending = proc[p].pending /\ v.pipe = proc[p].pipe
  BY <1>1 DEF Procs, States
<1> HIDE DEF v
<1>3. ProcOk(v) /\ Live(p) /\ (HasTerm(proc[p]) => HasTerm(v))
  BY <1>1, <1>2 DEF ProcOk, Live, HasTerm
<1> QED BY <1>1, <1>2, <1>3, VpKeeps

(* start_threads: every socket gets a thread, or the VP ends.              *)
LEMMA StartStep == ASSUME VpInv, NEW p \in Pids, start_threads(p) PROVE VpInv'
<1> DEFINE P(n) == [i \in Sockets |-> [NoPool EXCEPT !.wait = n[i], !.new = n[i],
                                          !.failed = n[i] < limits.max_wait]]
           V(n) == [proc[p] EXCEPT !.st = "run", !.conf = cfgver, !.pool = P(n)]
<1>1. /\ proc[p] \in Procs /\ ProcOk(proc[p]) /\ proc[p].st = "ready" /\ Live(p)
      /\ UNCHANGED <<wd, vp_pids, cfgver>> /\ cfgver \in Nat
  BY DEF VpInv, VpType, ProcInv, start_threads, Live
<1>2. PICK n \in [Sockets -> 0..limits.max_wait] :
         proc' = [proc EXCEPT ![p] = IF \E i \in Sockets : n[i] = 0 THEN Exited(p) ELSE V(n)]
  BY DEF start_threads
<1>3. CASE \E i \in Sockets : n[i] = 0
  BY <1>1, <1>2, <1>3, ExitStep
<1>4. CASE ~\E i \in Sockets : n[i] = 0
  <2>0. ASSUME NEW i \in Sockets
        PROVE  P(n)[i] \in Pools /\ PoolOk(P(n)[i]) /\ Spare(P(n)[i])
    <3> DEFINE short == n[i] < limits.max_wait
               r == [NoPool EXCEPT !.wait = n[i], !.new = n[i], !.failed = short]
    <3>1. n[i] \in Nat /\ n[i] <= limits.max_wait /\ short \in BOOLEAN
      BY LimitsFacts
    <3>2. ~short => n[i] = limits.max_wait
      BY <3>1, LimitsFacts
    <3> HIDE DEF short
    <3>3. /\ r.wait = n[i] /\ r.busy = 0 /\ r.new = n[i] /\ r.accept = 0 /\ r.session = 0
          /\ r.failed = short /\ r \in Pools
      BY <3>1 DEF NoPool, Pools
    <3>4. P(n)[i] = r
      BY DEF short
    <3> HIDE DEF r, P
    <3>5. PoolOk(r)
      BY <3>1, <3>3, LimitsFacts DEF PoolOk
    <3>6. Spare(r)
      BY <3>1, <3>2, <3>3, LimitsFacts DEF Spare
    <3> QED BY <3>3, <3>4, <3>5, <3>6
  <2>1. P(n) \in [Sockets -> Pools]
    BY <2>0
  <2>2. \A i \in Sockets : PoolOk(P(n)[i]) /\ Spare(P(n)[i])
    BY <2>0
  <2> HIDE DEF P
  <2>3. /\ V(n) \in Procs /\ V(n).st = "run" /\ V(n).pool = P(n) /\ V(n).idx = proc[p].idx
        /\ V(n).handler = proc[p].handler /\ V(n).blocked = proc[p].blocked
        /\ V(n).pending = proc[p].pending /\ V(n).pipe = proc[p].pipe
    BY <1>1, <2>1 DEF Procs, States
  <2>4. proc' = [proc EXCEPT ![p] = V(n)]
    BY <1>2, <1>4
  <2> HIDE DEF V
  <2>5. ProcOk(V(n)) /\ (HasTerm(proc[p]) => HasTerm(V(n)))
    BY <1>1, <2>2, <2>3 DEF ProcOk, HasTerm
  <2> QED BY <1>1, <2>3, <2>4, <2>5, VpKeeps
<1> QED BY <1>3, <1>4

(* child_sighandler: the signal goes from pending into the pipe.           *)
LEMMA ChildSignalStep ==
    ASSUME VpInv, NEW p \in Pids, NEW s \in Sig, child_sighandler(p, s) PROVE VpInv'
<1> DEFINE a == proc[p].pending \ {s}
           b == Append(proc[p].pipe, s)
           v == [proc[p] EXCEPT !.pending = a, !.pipe = b]
<1>0. /\ Live(p) /\ UNCHANGED <<wd, vp_pids, cfgver>>
      /\ proc' = [proc EXCEPT ![p] = IF proc[p].handler = "dfl" THEN Exited(p) ELSE v]
  BY DEF child_sighandler
<1> HIDE DEF v
<1>1. /\ proc[p] \in Procs /\ ProcOk(proc[p]) /\ Live(p)
      /\ UNCHANGED <<wd, vp_pids, cfgver>> /\ cfgver \in Nat
      /\ proc[p].handler # "dfl" => proc' = [proc EXCEPT ![p] = v]
      /\ proc[p].handler = "dfl" => proc' = [proc EXCEPT ![p] = Exited(p)]
  BY <1>0 DEF VpInv, VpType, ProcInv
<1>2. CASE proc[p].handler = "dfl"
  BY <1>1, <1>2, ExitStep
<1>3. CASE proc[p].handler # "dfl"
  <2>1. proc[p].pipe \in Seq(Sig) /\ proc[p].pending \in SUBSET Sig
    BY <1>1 DEF Procs
  <2>a. a \in SUBSET Sig /\ b \in Seq(Sig)
    BY <2>1
  <2>b. ("TERM" \in proc[p].pending => "TERM" \in a \/ s = "TERM")
    OBVIOUS
  <2> HIDE DEF a
  <2>2. /\ v \in Procs /\ v.st = proc[p].st /\ v.idx = proc[p].idx /\ v.pool = proc[p].pool
        /\ v.handler = proc[p].handler /\ v.blocked = proc[p].blocked
        /\ v.pending = a /\ v.pipe = b
    <3> HIDE DEF b
    <3> QED BY <1>1, <2>a DEF Procs, v
  <2>3. /\ Len(v.pipe) = Len(proc[p].pipe) + 1 /\ v.pipe[Len(proc[p].pipe) + 1] = s
        /\ \A k \in 1..Len(proc[p].pipe) : v.pipe[k] = proc[p].pipe[k]
        /\ Len(proc[p].pipe) \in Nat
    BY <2>1, <2>2
  <2>4. HasTerm(proc[p]) => HasTerm(v)
    <3> HIDE DEF b
    <3> QED BY <2>b, <2>2, <2>3 DEF HasTerm
  <2>5. ProcOk(v)
    BY <1>1, <2>2 DEF ProcOk
  <2>6. v.st \notin {"free", "reaped"}
    BY <1>1, <2>2 DEF Live
  <2> QED BY <1>1, <1>3, <2>2, <2>4, <2>5, <2>6, VpKeeps
<1> QED BY <1>2, <1>3

(* process_signals: only SIGTERM itself removes SIGTERM from the pipe.     *)
LEMMA ProcessSignalsStep == ASSUME VpInv, NEW p \in Pids, process_signals(p) PROVE VpInv'
<1> DEFINE s == Head(proc[p].pipe)
           rest == Tail(proc[p].pipe)
           v == [proc[p] EXCEPT !.pipe = rest, !.conf = cfgver]
<1>1. /\ proc[p] \in Procs /\ ProcOk(proc[p]) /\ Live(p) /\ proc[p].pipe # <<>>
      /\ UNCHANGED <<wd, vp_pids, cfgver>> /\ cfgver \in Nat /\ proc[p].st = "run"
      /\ \/ proc' = [proc EXCEPT ![p] = Exited(p)]
         \/ s = "HUP" /\ proc' = [proc EXCEPT ![p] = v]
  BY DEF VpInv, VpType, ProcInv, process_signals, Live
<1>2. CASE proc' = [proc EXCEPT ![p] = Exited(p)]
  BY <1>1, <1>2, ExitStep
<1>3. CASE s = "HUP" /\ proc' = [proc EXCEPT ![p] = v]
  <2>1. proc[p].pipe \in Seq(Sig)
    BY <1>1 DEF Procs
  <2>2. /\ v \in Procs /\ v.st = "run" /\ v.idx = proc[p].idx /\ v.pool = proc[p].pool
        /\ v.handler = proc[p].handler /\ v.blocked = proc[p].blocked
        /\ v.pending = proc[p].pending /\ v.pipe = rest
    <3>1. rest \in Seq(Sig)
      BY <1>1, <2>1
    <3> HIDE DEF rest
    <3> QED BY <1>1, <3>1 DEF Procs
  <2>3. /\ Len(proc[p].pipe) \in Nat /\ s = proc[p].pipe[1]
        /\ Len(v.pipe) = Len(proc[p].pipe) - 1
        /\ \A k \in 2..Len(proc[p].pipe) :
              k - 1 \in 1..Len(v.pipe) /\ v.pipe[k - 1] = proc[p].pipe[k]
    <3> HIDE DEF v
    <3> QED BY <1>1, <2>1, <2>2
  <2> HIDE DEF v, s
  <2>4. HasTerm(proc[p]) => HasTerm(v)
    <3> SUFFICES ASSUME NEW k \in 1..Len(proc[p].pipe), proc[p].pipe[k] = "TERM"
                 PROVE  \E j \in 1..Len(v.pipe) : v.pipe[j] = "TERM"
      BY <2>2 DEF HasTerm
    <3>1. k # 1
      BY <1>3, <2>3
    <3>2. k - 1 \in 1..Len(v.pipe) /\ v.pipe[k - 1] = proc[p].pipe[k]
      BY <2>3, <3>1
    <3> QED BY <3>2
  <2>5. ProcOk(v)
    BY <1>1, <2>2 DEF ProcOk
  <2> QED BY <1>1, <1>3, <2>2, <2>4, <2>5, VpKeeps
<1> QED BY <1>1, <1>2, <1>3

(* The loop of a connection thread keeps its pool's counters and limits.   *)
LEMMA PoolStep ==
    ASSUME NEW q \in Pools, PoolOk(q), Spare(q), NEW b \in BOOLEAN
    PROVE  /\ q.new > 0 => ThreadStart(q) \in Pools /\ PoolOk(ThreadStart(q)) /\ Spare(ThreadStart(q))
           /\ q.accept > 0 => /\ Accepted(q, b) \in Pools
                              /\ PoolOk(Accepted(q, b)) /\ Spare(Accepted(q, b))
           /\ q.session > 0 => /\ SessionDone(q) \in Pools
                               /\ PoolOk(SessionDone(q)) /\ Spare(SessionDone(q))
<1>0. /\ q.wait \in Nat /\ q.busy \in Nat /\ q.new \in Nat /\ q.accept \in Nat
      /\ q.session \in Nat /\ q.failed \in BOOLEAN
  BY DEF Pools
<1>1. ASSUME q.new > 0
      PROVE  ThreadStart(q) \in Pools /\ PoolOk(ThreadStart(q)) /\ Spare(ThreadStart(q))
  <2> DEFINE n == q.new - 1
             a == q.accept + 1
             r == [q EXCEPT !.new = n, !.accept = a]
  <2>1. ThreadStart(q) = r /\ n \in Nat /\ a \in Nat
    BY <1>0, <1>1 DEF ThreadStart, PoolOk
  <2> HIDE DEF n, a
  <2>2. /\ r \in Pools /\ r.wait = q.wait /\ r.busy = q.busy /\ r.new = n
        /\ r.accept = a /\ r.session = q.session /\ r.failed = q.failed
    BY <2>1 DEF Pools
  <2> HIDE DEF r
  <2> QED BY <1>0, <2>1, <2>2 DEF PoolOk, Spare, n, a
<1>2. ASSUME q.accept > 0
      PROVE  Accepted(q, b) \in Pools /\ PoolOk(Accepted(q, b)) /\ Spare(Accepted(q, b))
  <2> DEFINE w == q.wait - 1
             u == q.busy + 1
             a == q.accept - 1
             n == q.session + 1
             left == [q EXCEPT !.wait = w, !.busy = u, !.accept = a, !.session = n]
             few  == left.wait < limits.min_wait /\ left.wait + left.busy < limits.max_threads
             mw == left.wait + 1
             mn == left.new + 1
             more == [left EXCEPT !.wait = mw, !.new = mn]
             none == [left EXCEPT !.failed = TRUE]
  <2>1. Accepted(q, b) = IF few THEN IF b THEN more ELSE none ELSE left
    BY DEF Accepted
  <2>a. w \in Nat /\ u \in Nat /\ a \in Nat /\ n \in Nat
    BY <1>0, <1>2 DEF PoolOk
  <2> HIDE DEF w, u, a, n
  <2>2. /\ left \in Pools /\ left.wait = w /\ left.busy = u /\ left.new = q.new
        /\ left.accept = a /\ left.session = n /\ left.failed = q.failed
    BY <2>a DEF Pools
  <2> HIDE DEF left
  <2>b. mw \in Nat /\ mn \in Nat
    BY <1>0, <2>a, <2>2
  <2> HIDE DEF mw, mn
  <2>3. /\ more \in Pools /\ more.wait = mw /\ more.busy = left.busy
        /\ more.new = mn /\ more.accept = left.accept /\ more.session = left.session
        /\ more.failed = left.failed
    BY <2>2, <2>b DEF Pools
  <2>4. /\ none \in Pools /\ none.wait = left.wait /\ none.busy = left.busy
        /\ none.new = left.new /\ none.accept = left.accept /\ none.session = left.session
        /\ none.failed
    BY <2>2 DEF Pools
  <2> HIDE DEF more, none
  <2>5. CASE few /\ b
    BY <1>0, <1>2, <2>1, <2>2, <2>3, <2>5, LimitsFacts DEF PoolOk, Spare, w, u, a, n, mw, mn
  <2>6. CASE few /\ ~b
    BY <1>0, <1>2, <2>1, <2>2, <2>4, <2>6, LimitsFacts DEF PoolOk, Spare, w, u, a, n
  <2>7. CASE ~few
    BY <1>0, <1>2, <2>1, <2>2, <2>7, LimitsFacts DEF PoolOk, Spare, w, u, a, n
  <2> QED BY <2>5, <2>6, <2>7
<1>3. ASSUME q.session > 0
      PROVE  SessionDone(q) \in Pools /\ PoolOk(SessionDone(q)) /\ Spare(SessionDone(q))
  <2> DEFINE w == q.wait + 1
             u == q.busy - 1
             n == q.session - 1
             back == [q EXCEPT !.wait = w, !.busy = u, !.session = n]
             stay == [back EXCEPT !.accept = @ + 1]
             gone == [back EXCEPT !.wait = @ - 1]
  <2>1. SessionDone(q) = IF back.wait <= limits.max_wait THEN stay ELSE gone
    BY DEF SessionDone
  <2>a. w \in Nat /\ u \in Nat /\ n \in Nat
    BY <1>0, <1>3 DEF PoolOk
  <2> HIDE DEF w, u, n
  <2>2. /\ back \in Pools /\ back.wait = w /\ back.busy = u /\ back.new = q.new
        /\ back.accept = q.accept /\ back.session = n /\ back.failed = q.failed
    BY <2>a DEF Pools
  <2> HIDE DEF back
  <2>3. /\ stay \in Pools /\ stay.wait = back.wait /\ stay.busy = back.busy /\ stay.new = back.new
        /\ stay.accept = back.accept + 1 /\ stay.session = back.session /\ stay.failed = back.failed
    BY <2>2 DEF Pools
  <2>4. /\ gone \in Pools /\ gone.wait = back.wait - 1 /\ gone.busy = back.busy /\ gone.new = back.new
        /\ gone.accept = back.accept /\ gone.session = back.session /\ gone.failed = back.failed
    BY <1>0, <2>2 DEF Pools, w
  <2> HIDE DEF stay, gone
  <2>5. CASE back.wait <= limits.max_wait
    BY <1>0, <1>3, <2>1, <2>2, <2>3, <2>5, LimitsFacts DEF PoolOk, Spare, w, u, n
  <2>6. CASE ~(back.wait <= limits.max_wait)
    BY <1>0, <1>3, <2>1, <2>2, <2>4, <2>6, LimitsFacts DEF PoolOk, Spare, w, u, n
  <2> QED BY <2>5, <2>6
<1> QED BY <1>1, <1>2, <1>3

(* handle_connections.                                                     *)
LEMMA ConnectionStep ==
    ASSUME VpInv, NEW p \in Pids, NEW i \in Sockets, handle_connections(p, i) PROVE VpInv'
<1> DEFINE q == proc[p].pool[i]
           V(r) == [proc[p] EXCEPT !.pool[i] = r]
<1>1. /\ proc[p] \in Procs /\ ProcOk(proc[p]) /\ Live(p) /\ proc[p].st = "run"
      /\ UNCHANGED <<wd, vp_pids, cfgver>> /\ cfgver \in Nat
      /\ q \in Pools /\ PoolOk(q) /\ Spare(q)
  BY DEF VpInv, VpType, ProcInv, handle_connections, Live, Procs, ProcOk
<1>2. PICK r \in Pools : PoolOk(r) /\ Spare(r) /\ proc' = [proc EXCEPT ![p].pool[i] = r]
  <2>1. CASE q.new > 0 /\ proc' = [proc EXCEPT ![p].pool[i] = ThreadStart(q)]
    BY <1>1, <2>1, PoolStep
  <2>2. CASE q.accept > 0 /\ \E b \in BOOLEAN : proc' = [proc EXCEPT ![p].pool[i] = Accepted(q, b)]
    BY <1>1, <2>2, PoolStep
  <2>3. CASE q.session > 0 /\ proc' = [proc EXCEPT ![p].pool[i] = SessionDone(q)]
    BY <1>1, <2>3, PoolStep
  <2> QED BY <2>1, <2>2, <2>3 DEF handle_connections
<1>3. proc' = [proc EXCEPT ![p] = V(r)]
  BY <1>2
<1>4. /\ V(r) \in Procs /\ V(r).st = "run" /\ V(r).idx = proc[p].idx
      /\ V(r).pool = [proc[p].pool EXCEPT ![i] = r]
      /\ V(r).handler = proc[p].handler /\ V(r).blocked = proc[p].blocked
      /\ V(r).pending = proc[p].pending /\ V(r).pipe = proc[p].pipe
  BY <1>1 DEF Procs
<1>5. \A j \in Sockets : V(r).pool[j] = IF j = i THEN r ELSE proc[p].pool[j]
  BY <1>1, <1>4 DEF Procs
<1> HIDE DEF V
<1>6. ProcOk(V(r)) /\ (HasTerm(proc[p]) => HasTerm(V(r)))
  BY <1>1, <1>2, <1>4, <1>5 DEF ProcOk, HasTerm
<1> QED BY <1>1, <1>3, <1>4, <1>6, VpKeeps

-----------------------------------------------------------------------------
(* The watchdog.                                                           *)

(* The steps before the first fork: there is no process and no table yet.  *)
LEMMA StartupStep ==
    ASSUME VpInv, UNCHANGED <<vp_pids, proc, cfgver>>, wd.pc \in Startup,
           wd'.pc \in Startup \cup {"single", "fork", "quit"}, wd'.i = wd.i, wd' \in Wds
    PROVE  VpInv'
<1>1. VpType' /\ ProcInv'
  BY DEF VpInv, VpType, ProcInv, Wds
<1>2. TableInv'
  BY DEF VpInv, TableInv, InSlot, Startup, Table
<1>3. TermInv'
  BY DEF TermInv, Startup
<1> QED BY <1>1, <1>2, <1>3 DEF VpInv

(* Interactive mode.                                                       *)
LEMMA InteractiveStep == ASSUME VpInv, StartInteractive PROVE VpInv'
<1>1. /\ 1 \in Pids /\ UNCHANGED <<wd, vp_pids, cfgver>> /\ wd.pc = "single"
      /\ proc' = [proc EXCEPT ![1] = Forked(1, "dfl", FALSE)]
  BY VpServerAssumption DEF StartInteractive, Pids
<1>2. Forked(1, "dfl", FALSE) \in Procs /\ ProcOk(Forked(1, "dfl", FALSE))
  BY ForkedFacts
<1> HIDE DEF Forked
<1>3. VpType' /\ ProcInv'
  BY <1>1, <1>2 DEF VpInv, VpType, ProcInv
<1>4. TableInv' /\ TermInv'
  BY <1>1 DEF TableInv, TermInv, Startup, Table
<1> QED BY <1>3, <1>4 DEF VpInv

(* The first loop of start_processes.                                      *)
LEMMA ForkFirstStep == ASSUME VpInv, ForkFirst PROVE VpInv'
<1>1. /\ wd \in Wds /\ wd.pc = "fork" /\ wd.i = Len(vp_pids) + 1 /\ cfgver' = cfgver
      /\ vp_pids \in Seq(Pids \cup {NoPid}) /\ Len(vp_pids) \in Nat
  BY DEF VpInv, VpType, TableInv, ForkFirst, Wds
<1>2. CASE /\ FreePids # {}
           /\ proc' = [proc EXCEPT ![NextPid] = Forked(wd.i, "dfl", FALSE)]
           /\ vp_pids' = Append(vp_pids, NextPid)
           /\ wd' = [wd EXCEPT !.pc = IF wd.i = VpCount THEN "install" ELSE "fork",
                               !.i = @ + 1]
  <2> DEFINE n == NextPid
             v == Forked(wd.i, "dfl", FALSE)
             m == wd.i + 1
  <2>1. n \in Pids /\ proc[n].st = "free"
    BY <1>2, NextPidFree DEF FreePids
  <2>2. v \in Procs /\ ProcOk(v) /\ v.st = "boot" /\ v.idx = wd.i /\ m \in Nat
    <3>1. wd.i \in Nat
      BY <1>1 DEF Wds
    <3>2. m \in Nat
      BY <3>1
    <3> HIDE DEF v
    <3>3. v \in Procs /\ ProcOk(v) /\ v.st = "boot" /\ v.idx = wd.i
      BY <3>1, ForkedFacts DEF v
    <3> QED BY <3>2, <3>3
  <2>3. wd' = [wd EXCEPT !.pc = IF wd.i = VpCount THEN "install" ELSE "fork", !.i = m]
    BY <1>2
  <2> HIDE DEF n, v, m
  <2>4. wd' \in Wds /\ wd'.pc \in {"install", "fork"} /\ wd'.i = m
    BY <1>1, <2>2, <2>3 DEF Wds, Stages, Table
  <2>5. /\ proc' \in [Pids -> Procs] /\ proc'[n] = v
        /\ \A p \in Pids : p # n => proc'[p] = proc[p]
    BY <1>2, <2>1, <2>2 DEF VpInv, VpType, n, v
  <2>6. /\ vp_pids' \in Seq(Pids \cup {NoPid}) /\ Len(vp_pids') = Len(vp_pids) + 1
        /\ vp_pids'[Len(vp_pids) + 1] = n
        /\ \A k \in 1..Len(vp_pids) : vp_pids'[k] = vp_pids[k] /\ k \in 1..Len(vp_pids')
        /\ Len(vp_pids) + 1 \in 1..Len(vp_pids')
    <3>1. vp_pids' = Append(vp_pids, n) /\ n \in Pids \cup {NoPid}
      BY <1>2, <2>1 DEF n
    <3> QED BY <1>1, <3>1
  <2>7. VpType'
    BY <1>1, <2>4, <2>5, <2>6 DEF VpInv, VpType, Wds
  <2>8. ASSUME NEW p \in Pids PROVE InSlot(p)'
    <3>1. CASE p = n
      BY <1>1, <2>2, <2>5, <2>6, <3>1 DEF InSlot
    <3>2. CASE p # n
      BY <1>1, <2>5, <2>6, <3>2 DEF InSlot, VpInv, TableInv, Table
    <3> QED BY <3>1, <3>2
  <2>9. TableInv'
    <3>1. wd'.i = Len(vp_pids') + 1
      BY <1>1, <2>4, <2>6 DEF m
    <3> QED BY <2>4, <2>8, <3>1 DEF TableInv, Startup
  <2>10. TermInv' /\ ProcInv'
    BY <2>2, <2>4, <2>5 DEF VpInv, TermInv, ProcInv
  <2> QED BY <2>7, <2>9, <2>10 DEF VpInv
<1>3. CASE /\ wd' = [wd EXCEPT !.pc = IF wd.i = 1 THEN "quit" ELSE "install"]
           /\ UNCHANGED <<vp_pids, proc>>
  <2>1. wd' \in Wds /\ wd'.pc \in {"quit", "install"}
    BY <1>1, <1>3 DEF Wds, Stages, Table
  <2>2. VpType' /\ ProcInv' /\ TermInv'
    BY <1>1, <1>3, <2>1 DEF VpInv, VpType, ProcInv, TermInv, Wds
  <2>3. TableInv'
    BY <1>1, <1>3, <2>1 DEF VpInv, TableInv, InSlot, Startup, Table
  <2> QED BY <2>2, <2>3 DEF VpInv
<1> QED BY <1>2, <1>3 DEF ForkFirst

(* Steps of the watchdog, or of the operator, that change neither the      *)
(* processes nor the table.                                                *)
LEMMA WdOnlyStep ==
    ASSUME VpInv, UNCHANGED <<vp_pids, proc>>, cfgver' \in Nat, wd' \in Wds,
           wd'.i = wd.i, wd'.pid = wd.pid,
           wd'.pc \in {wd.pc, "quit", "killed"} \/ (wd.pc = "install" /\ wd'.pc = "wait")
    PROVE  VpInv'
<1>1. VpType' /\ ProcInv'
  BY DEF VpInv, VpType, ProcInv, Wds
<1>2. TermInv'
  BY DEF VpInv, TermInv, Live
<1>3. TableInv'
  <2>1. \A p \in Pids : InSlot(p)' <=> InSlot(p)
    BY DEF InSlot
  <2>2. CASE wd'.pc = wd.pc
    BY <2>1, <2>2 DEF VpInv, TableInv
  <2>3. CASE wd'.pc \in {"quit", "killed"}
    BY <2>3 DEF TableInv, Startup, Table
  <2>4. CASE wd.pc = "install" /\ wd'.pc = "wait"
    BY <2>1, <2>4 DEF VpInv, TableInv, Startup, Table
  <2> QED BY <2>2, <2>3, <2>4
<1> QED BY <1>1, <1>2, <1>3 DEF VpInv

(* wait(2) reaps a child, or ends the watchdog.                            *)
LEMMA WaitStep == ASSUME VpInv, WaitChild PROVE VpInv'
<1>1. wd \in Wds /\ wd.pc = "wait" /\ UNCHANGED <<vp_pids, cfgver>> /\ cfgver \in Nat
  BY DEF VpInv, VpType, WaitChild, Wds
<1>2. CASE wd' = [wd EXCEPT !.pc = "quit"] /\ UNCHANGED proc
  <2>1. wd' \in Wds /\ wd'.pc = "quit" /\ wd'.i = wd.i /\ wd'.pid = wd.pid
    BY <1>1, <1>2 DEF Wds, Stages
  <2> QED BY <1>1, <1>2, <2>1, WdOnlyStep
<1>3. ASSUME NEW p \in Pids, proc[p].st = "zombie",
             proc' = [proc EXCEPT ![p] = [NoProc EXCEPT !.st = "reaped"]],
             wd' = [wd EXCEPT !.pc = "reaped", !.pid = p]
      PROVE  VpInv'
  <2> DEFINE v == [NoProc EXCEPT !.st = "reaped"]
  <2>1. wd' \in Wds /\ wd'.pc = "reaped" /\ wd'.pid = p
    BY <1>1, <1>3 DEF Wds, Stages, Table
  <2>2. v \in Procs /\ ProcOk(v) /\ v.st = "reaped"
    BY ReapedFacts
  <2> HIDE DEF v
  <2>3. /\ proc' \in [Pids -> Procs] /\ proc'[p] = v
        /\ \A q \in Pids : q # p => proc'[q] = proc[q]
    BY <1>3, <2>2 DEF VpInv, VpType, v
  <2>4. VpType' /\ ProcInv' /\ TermInv'
    BY <1>1, <2>1, <2>2, <2>3 DEF VpInv, VpType, ProcInv, TermInv, Wds
  <2>5. \A q \in Pids : InSlot(q)'
    BY <1>1, <2>2, <2>3 DEF VpInv, TableInv, Table, InSlot
  <2>6. TableInv'
    BY <2>1, <2>2, <2>3, <2>5 DEF TableInv, Startup, Table
  <2> QED BY <2>4, <2>6 DEF VpInv
<1> QED BY <1>2, <1>3 DEF WaitChild

(* The slot in hand is that of a reaped child.                             *)
LEMMA BlockStep == ASSUME VpInv, BlockSignals PROVE VpInv'
<1>1. /\ wd \in Wds /\ wd.pc = "reaped" /\ UNCHANGED <<vp_pids, proc, cfgver>>
      /\ vp_pids \in Seq(Pids \cup {NoPid})
  BY DEF VpInv, VpType, BlockSignals, Wds
<1>2. PICK k \in 1..Len(vp_pids) : vp_pids[k] = wd.pid /\ wd' = [wd EXCEPT !.pc = "blocked", !.i = k]
  <2>1. DOMAIN vp_pids = 1..Len(vp_pids)
    BY <1>1
  <2> QED BY <2>1 DEF BlockSignals
<1>a. k \in Nat
  BY <1>1
<1>3. wd' \in Wds /\ wd'.pc = "blocked" /\ wd'.i = k
  BY <1>1, <1>2, <1>a DEF Wds, Stages, Table
<1>4. VpType' /\ ProcInv' /\ TermInv'
  BY <1>1, <1>3 DEF VpInv, VpType, ProcInv, TermInv, Wds
<1>5. TableInv'
  BY <1>1, <1>2, <1>3 DEF VpInv, TableInv, InSlot, Startup, Table
<1> QED BY <1>4, <1>5 DEF VpInv

(* The replacement is forked with the signals blocked; it is not in the    *)
(* table yet.                                                              *)
LEMMA ReplaceStep == ASSUME VpInv, ForkReplacement PROVE VpInv'
<1>1. wd \in Wds /\ wd.pc = "blocked" /\ UNCHANGED <<vp_pids, cfgver>> /\ wd.i \in Nat
  BY DEF VpInv, VpType, ForkReplacement, Wds
<1>2. CASE /\ FreePids # {}
           /\ wd' = [wd EXCEPT !.pc = "forked", !.pid = NextPid]
           /\ proc' = [proc EXCEPT ![NextPid] = Forked(wd.i, "wdog", WdBlocked)]
  <2> DEFINE n == NextPid
             v == Forked(wd.i, "wdog", WdBlocked)
  <2>1. n \in Pids /\ proc[n].st = "free"
    BY <1>2, NextPidFree DEF FreePids
  <2>2. v \in Procs /\ ProcOk(v) /\ v.idx = wd.i
    <3>1. WdBlocked = TRUE
      BY <1>1 DEF WdBlocked
    <3>2. /\ Forked(wd.i, "wdog", TRUE) \in Procs /\ ProcOk(Forked(wd.i, "wdog", TRUE))
          /\ Forked(wd.i, "wdog", TRUE).idx = wd.i
      BY <1>1, ForkedFacts
    <3> QED BY <3>1, <3>2
  <2> HIDE DEF v, n
  <2>3. wd' \in Wds /\ wd'.pc = "forked" /\ wd'.pid = n /\ wd'.i = wd.i
    BY <1>1, <1>2, <2>1 DEF Wds, Stages, n
  <2>4. /\ proc' \in [Pids -> Procs] /\ proc'[n] = v
        /\ \A q \in Pids : q # n => proc'[q] = proc[q]
    BY <1>2, <2>1, <2>2 DEF VpInv, VpType, v, n
  <2>5. VpType' /\ ProcInv' /\ TermInv'
    BY <1>1, <2>2, <2>3, <2>4 DEF VpInv, VpType, ProcInv, TermInv, Wds
  <2>6. \A q \in Pids : q # n => InSlot(q)'
    BY <1>1, <2>4 DEF VpInv, TableInv, Table, InSlot
  <2>7. /\ wd.i \in 1..Len(vp_pids) /\ vp_pids[wd.i] \in Pids
        /\ proc'[vp_pids[wd.i]].st = "reaped"
    BY <1>1, <2>1, <2>4 DEF VpInv, TableInv
  <2>8. TableInv'
    <3>1. wd'.pid # 0
      BY <2>1, <2>3 DEF Pids
    <3>2. vp_pids' = vp_pids /\ proc'[wd'.pid].idx = wd'.i
      BY <1>1, <2>2, <2>3, <2>4
    <3>3. wd'.pc \notin Startup \cup Table \cup {"fork", "reaped"}
      BY <2>3 DEF Startup, Table
    <3> QED BY <2>3, <2>6, <2>7, <3>1, <3>2, <3>3 DEF TableInv
  <2> QED BY <2>5, <2>8 DEF VpInv
<1>3. CASE wd' = [wd EXCEPT !.pc = "forked", !.pid = NoPid] /\ UNCHANGED proc
  <2>1. wd' \in Wds /\ wd'.pc = "forked" /\ wd'.pid = NoPid /\ wd'.i = wd.i
    BY <1>1, <1>3 DEF Wds, Stages
  <2>2. NoPid \notin Pids
    BY DEF NoPid, Pids
  <2>3. VpType' /\ ProcInv' /\ TermInv'
    BY <1>1, <1>3, <2>1 DEF VpInv, VpType, ProcInv, TermInv, Wds
  <2>4. TableInv'
    <3>1. wd'.pid # 0
      BY <2>1 DEF NoPid
    <3>2. wd'.pc \notin Startup \cup Table \cup {"fork", "reaped"}
      BY <2>1 DEF Startup, Table
    <3>3. \A q \in Pids : InSlot(q)'
      BY <1>1, <1>3 DEF VpInv, TableInv, InSlot, Table
    <3>4. /\ wd.i \in 1..Len(vp_pids) /\ vp_pids[wd.i] \in Pids
          /\ proc[vp_pids[wd.i]].st = "reaped"
      BY <1>1 DEF VpInv, TableInv
    <3> QED BY <1>1, <1>3, <2>1, <2>2, <3>1, <3>2, <3>3, <3>4 DEF TableInv
  <2> QED BY <2>3, <2>4 DEF VpInv
<1> QED BY <1>2, <1>3 DEF ForkReplacement

(* Recording the pid loses nobody: the slot held a reaped child.           *)
LEMMA RecordStep == ASSUME VpInv, RecordPid PROVE VpInv'
<1>1. /\ wd \in Wds /\ wd.pc = "forked" /\ UNCHANGED <<proc, cfgver>>
      /\ vp_pids' = [vp_pids EXCEPT ![wd.i] = wd.pid] /\ wd' = [wd EXCEPT !.pc = "wait"]
      /\ wd.i \in 1..Len(vp_pids) /\ vp_pids \in Seq(Pids \cup {NoPid})
      /\ vp_pids[wd.i] \in Pids /\ proc[vp_pids[wd.i]].st = "reaped"
      /\ wd.pid \in Pids => proc[wd.pid].idx = wd.i
      /\ \A p \in Pids : p # wd.pid => InSlot(p)
  BY DEF VpInv, VpType, RecordPid, TableInv, Wds
<1>2. wd' \in Wds /\ wd'.pc = "wait"
  BY <1>1 DEF Wds, Stages, Table
<1>3. wd.pid \in Pids \cup {NoPid}
  BY <1>1 DEF VpInv, TableInv, Wds
<1>4. /\ vp_pids' \in Seq(Pids \cup {NoPid}) /\ Len(vp_pids') = Len(vp_pids)
      /\ \A k \in 1..Len(vp_pids) : vp_pids'[k] = IF k = wd.i THEN wd.pid ELSE vp_pids[k]
  BY <1>1, <1>3, ExceptSeq
<1>5. VpType' /\ ProcInv' /\ TermInv'
  BY <1>1, <1>2, <1>4 DEF VpInv, VpType, ProcInv, TermInv, Wds
<1>6. ASSUME NEW p \in Pids PROVE InSlot(p)'
  <2>1. CASE p = wd.pid
    BY <1>1, <1>4, <2>1 DEF InSlot
  <2>2. CASE p # wd.pid
    BY <1>1, <1>4, <2>2 DEF InSlot
  <2> QED BY <2>1, <2>2
<1>7. TableInv'
  BY <1>2, <1>6 DEF TableInv, Startup, Table
<1> QED BY <1>5, <1>7 DEF VpInv

(* wdog_sighandler: the table has every child, so that none is missed.     *)
LEMMA WdSignalStep == ASSUME VpInv, NEW s \in Sig, wdog_sighandler(s) PROVE VpInv'
<1> DEFINE targets == {vp_pids[i] : i \in DOMAIN vp_pids}
           V(p) == [proc[p] EXCEPT !.pending = @ \cup {s}]
<1>1. /\ wd \in Wds /\ wd.pc \in {"wait", "reaped"} /\ UNCHANGED <<vp_pids, cfgver>>
      /\ proc' = [p \in Pids |-> IF p \in targets /\ Live(p) THEN V(p) ELSE proc[p]]
      /\ vp_pids \in Seq(Pids \cup {NoPid})
  BY DEF VpInv, VpType, wdog_sighandler, WdBlocked, Wds
<1>2. /\ wd' \in Wds /\ wd'.pid = wd.pid /\ wd'.i = wd.i
      /\ wd'.pc \in {wd.pc, "terminated", "quit"}
      /\ wd'.pc = "terminated" => s = "TERM"
  <2> DEFINE rest == wd.pending \ {s}
  <2>1. \E b \in Stages : /\ wd' = [wd EXCEPT !.pending = rest, !.pc = b]
                          /\ b \in {wd.pc, "terminated", "quit"}
                          /\ b = "terminated" => s = "TERM"
    BY <1>1 DEF wdog_sighandler, Stages, Table
  <2>2. rest \in SUBSET Sig
    BY <1>1 DEF Wds
  <2> HIDE DEF rest
  <2> QED BY <1>1, <2>1, <2>2 DEF Wds
<1>3. ASSUME NEW p \in Pids
      PROVE  /\ V(p) \in Procs /\ V(p).st = proc[p].st /\ V(p).idx = proc[p].idx
             /\ V(p).pool = proc[p].pool /\ V(p).handler = proc[p].handler
             /\ V(p).blocked = proc[p].blocked /\ s \in V(p).pending
  <2> DEFINE a == proc[p].pending \cup {s}
  <2>1. proc[p] \in Procs
    BY DEF VpInv, VpType
  <2>2. a \in SUBSET Sig /\ s \in a /\ V(p) = [proc[p] EXCEPT !.pending = a]
    BY <2>1 DEF Procs
  <2> HIDE DEF a
  <2> QED BY <2>1, <2>2 DEF Procs
<1> HIDE DEF V, targets
<1>4. ASSUME NEW p \in Pids
      PROVE  /\ proc'[p] \in Procs /\ proc'[p].st = proc[p].st /\ proc'[p].idx = proc[p].idx
             /\ ProcOk(proc'[p])
  <2>1. proc[p] \in Procs /\ ProcOk(proc[p])
    BY DEF VpInv, VpType, ProcInv
  <2>2. ProcOk(V(p))
    BY <1>3, <2>1 DEF ProcOk
  <2> QED BY <1>1, <1>3, <2>1, <2>2
<1>5. VpType' /\ ProcInv'
  BY <1>1, <1>2, <1>4 DEF VpInv, VpType, ProcInv, Wds
<1>6. ASSUME NEW p \in Pids PROVE InSlot(p)' /\ InSlot(p)
  BY <1>1, <1>4 DEF VpInv, TableInv, InSlot, Table
<1>7. TableInv'
  BY <1>1, <1>2, <1>4, <1>6 DEF VpInv, TableInv, Startup, Table
<1>8. TermInv'
  <2> SUFFICES ASSUME wd'.pc = "terminated", NEW p \in Pids, Live(p)' PROVE HasTerm(proc'[p])
    BY DEF TermInv
  <2>1. s = "TERM"
    BY <1>1, <1>2
  <2>2. Live(p)
    BY <1>4 DEF Live
  <2>3. p \in targets
    BY <1>1, <1>6, <2>2 DEF Live, InSlot, targets
  <2>4. proc'[p] = V(p)
    BY <1>1, <2>2, <2>3
  <2> QED BY <1>3, <2>1, <2>4 DEF HasTerm
<1> QED BY <1>5, <1>7, <1>8 DEF VpInv

(* The operator's signals.                                                 *)
LEMMA SendStep == ASSUME VpInv, NEW s \in Sig, SendSignal(s) PROVE VpInv'
<1>1. wd \in Wds /\ cfgver' \in Nat /\ vp_pids' = vp_pids
  BY DEF VpInv, VpType, SendSignal, Wds
<1>2. CASE wd' = [wd EXCEPT !.pending = @ \cup {s}] /\ UNCHANGED proc
  <2> DEFINE a == wd.pending \cup {s}
  <2>1. a \in SUBSET Sig /\ wd' = [wd EXCEPT !.pending = a]
    BY <1>1, <1>2 DEF Wds
  <2> HIDE DEF a
  <2>2. wd' \in Wds /\ wd'.pc = wd.pc /\ wd'.i = wd.i /\ wd'.pid = wd.pid
    BY <1>1, <2>1 DEF Wds
  <2> QED BY <1>1, <1>2, <2>2, WdOnlyStep
<1>3. CASE /\ wd.pc = "single" /\ Live(1) /\ proc' = [proc EXCEPT ![1].pending = @ \cup {s}]
           /\ UNCHANGED wd
  <2> DEFINE a == proc[1].pending \cup {s}
             v == [proc[1] EXCEPT !.pending = a]
  <2>1. 1 \in Pids /\ proc[1] \in Procs /\ ProcOk(proc[1])
    BY VpServerAssumption DEF Pids, VpInv, VpType, ProcInv
  <2>2. a \in SUBSET Sig /\ proc[1].pending \subseteq a
    BY <2>1 DEF Procs
  <2>3. proc' = [proc EXCEPT ![1] = v]
    BY <1>3
  <2> HIDE DEF a
  <2>4. /\ v \in Procs /\ v.st = proc[1].st /\ v.idx = proc[1].idx /\ v.pool = proc[1].pool
        /\ v.handler = proc[1].handler /\ v.blocked = proc[1].blocked
        /\ v.pending = a /\ v.pipe = proc[1].pipe
    BY <2>1, <2>2 DEF Procs
  <2> HIDE DEF v
  <2>5. ProcOk(v) /\ (HasTerm(proc[1]) => HasTerm(v)) /\ v.st \notin {"free", "reaped"}
    BY <1>3, <2>1, <2>2, <2>4 DEF ProcOk, HasTerm, Live
  <2> QED BY <1>1, <1>3, <2>1, <2>3, <2>4, <2>5, VpKeeps
<1> QED BY <1>2, <1>3 DEF SendSignal

(* Every step of the watchdog.                                             *)
LEMMA WatchdogStep == ASSUME VpInv, Watchdog PROVE VpInv'
<1>1. wd \in Wds /\ cfgver \in Nat
  BY DEF VpInv, VpType, Wds
<1>2. CASE parse_arguments
  <2>1. /\ wd.pc \in Startup /\ UNCHANGED <<vp_pids, proc, cfgver>> /\ wd' \in Wds /\ wd'.i = wd.i
        /\ wd'.pc \in Startup \cup {"single", "fork", "quit"}
    BY <1>1, <1>2 DEF parse_arguments, Startup, Wds, Stages
  <2> QED BY <2>1, StartupStep
<1>3. ASSUME NEW a \in Startup, NEW b \in Startup \cup {"fork"}, Stage(a, b) PROVE VpInv'
  <2>1. b \in Stages /\ "quit" \in Stages
    BY DEF Stages, Table
  <2>2. /\ wd.pc \in Startup /\ UNCHANGED <<vp_pids, proc, cfgver>> /\ wd' \in Wds /\ wd'.i = wd.i
        /\ wd'.pc \in Startup \cup {"single", "fork", "quit"}
    BY <1>1, <1>3, <2>1 DEF Stage, Wds
  <2> QED BY <2>2, StartupStep
<1>4. CASE start_daemon \/ create_listeners \/ change_user
  BY <1>3, <1>4 DEF start_daemon, create_listeners, change_user, Startup
<1>5. CASE open_log_files
  <2>1. CASE wd.interactive
    <3>1. /\ wd.pc \in Startup /\ UNCHANGED <<vp_pids, proc, cfgver>> /\ wd' \in Wds /\ wd'.i = wd.i
          /\ wd'.pc \in Startup \cup {"single", "fork", "quit"}
      BY <1>1, <1>5, <2>1 DEF open_log_files, Startup, Wds, Stages
    <3> QED BY <3>1, StartupStep
  <2>2. CASE ~wd.interactive
    BY <1>3, <1>5, <2>2 DEF open_log_files, Startup
  <2> QED BY <2>1, <2>2
<1>6. CASE InstallWatchdog \/ DefaultSignal
  <2>1. /\ UNCHANGED <<vp_pids, proc, cfgver>> /\ wd' \in Wds /\ wd'.i = wd.i /\ wd'.pid = wd.pid
        /\ wd'.pc = "killed" \/ (wd.pc = "install" /\ wd'.pc = "wait")
    BY <1>1, <1>6 DEF InstallWatchdog, DefaultSignal, Wds, Stages, Table
  <2> QED BY <1>1, <2>1, WdOnlyStep
<1>7. CASE StartInteractive \/ ForkFirst \/ WaitChild \/ BlockSignals \/ ForkReplacement \/ RecordPid
  BY <1>7, InteractiveStep, ForkFirstStep, WaitStep, BlockStep, ReplaceStep, RecordStep
<1>8. CASE \E s \in Sig : wdog_sighandler(s)
  BY <1>8, WdSignalStep
<1> QED BY <1>2, <1>4, <1>5, <1>6, <1>7, <1>8 DEF Watchdog

-----------------------------------------------------------------------------
(* VpInv is inductive.                                                     *)
THEOREM VpInductive == Spec => []VpInv
<1>1. Init => VpInv
  <2> SUFFICES ASSUME Init PROVE VpInv
    OBVIOUS
  <2>1. NoProc \in Procs /\ ProcOk(NoProc) /\ NoProc.st = "free"
    BY NoProcFacts, FreshProcs
  <2> HIDE DEF NoProc
  <2>2. Len(vp_pids) = 0 /\ wd.i = 1 /\ wd.pc = "args" /\ wd \in Wds
    BY DEF Init, Wds, Stages, Startup
  <2>3. VpType /\ ProcInv
    BY <2>1, <2>2 DEF Init, VpType, ProcInv, Wds
  <2>4. TableInv /\ TermInv
    BY <2>1, <2>2 DEF Init, TableInv, TermInv, Startup, Table
  <2> QED BY <2>3, <2>4 DEF VpInv
<1>2. VpInv /\ [Next]_vars => VpInv'
  <2> SUFFICES ASSUME VpInv, [Next]_vars PROVE VpInv'
    OBVIOUS
  <2>1. CASE UNCHANGED vars
    BY <2>1 DEF vars, VpInv, VpType, TableInv, InSlot, TermInv, HasTerm, Live, ProcInv
  <2>2. CASE Watchdog
    BY <2>2, WatchdogStep
  <2>3. CASE \E s \in Sig : SendSignal(s)
    BY <2>3, SendStep
  <2>4. CASE \E p \in Pids : VpStep(p)
    BY <2>4, InstallStep, StartStep, ProcessSignalsStep, ChildSignalStep DEF VpStep
  <2>5. CASE \E p \in Pids : Crash(p)
    BY <2>5, ExitStep DEF Crash
  <2>6. CASE \E p \in Pids : \E i \in Sockets : handle_connections(p, i)
    BY <2>6, ConnectionStep
  <2> QED BY <2>1, <2>2, <2>3, <2>4, <2>5, <2>6 DEF Next
<1> QED BY <1>1, <1>2, PTL DEF Spec

(* Every child that has not been reaped is in the watchdog's table while   *)
(* the watchdog can be interrupted, and a SIGTERM that ends the watchdog   *)
(* is on its way to every VP (start_processes, wdog_sighandler).           *)
THEOREM NoVpIsMissed == Spec => []NoVpMissed
<1>1. VpInv => NoVpMissed
  <2> SUFFICES ASSUME VpInv PROVE NoVpMissed
    OBVIOUS
  <2>1. DOMAIN vp_pids = 1..Len(vp_pids)
    BY DEF VpInv, VpType
  <2>2. TableCoversChildren
    BY <2>1 DEF TableCoversChildren, VpInv, TableInv, InSlot, Table
  <2>3. TermOnItsWay
    <3> SUFFICES ASSUME wd.pc = "terminated", NEW p \in Pids, Live(p)
                 PROVE  "TERM" \in proc[p].pending \cup {proc[p].pipe[k] : k \in DOMAIN proc[p].pipe}
      BY DEF TermOnItsWay
    <3>1. HasTerm(proc[p]) /\ DOMAIN proc[p].pipe = 1..Len(proc[p].pipe)
      BY DEF VpInv, VpType, TermInv, Procs
    <3> QED BY <3>1 DEF HasTerm
  <2> QED BY <2>2, <2>3 DEF NoVpMissed
<1> QED BY <1>1, VpInductive, PTL

(* No VP receives a signal with the watchdog's handlers installed (the     *)
(* mask of start_processes).                                               *)
THEOREM NoHandlerInherited == Spec => []NoInheritedHandler
<1>1. VpInv => NoInheritedHandler
  BY DEF VpInv, ProcInv, ProcOk, NoInheritedHandler
<1> QED BY <1>1, VpInductive, PTL

(* The thread pools keep their counters, limits and spare threads, for all *)
(* options of the command line (handle_connections,                        *)
(* set_thread_throttling).                                                 *)
THEOREM PoolStaysSound == Spec => []PoolSound
<1>1. VpInv => PoolSound
  BY DEF VpInv, ProcInv, ProcOk, PoolOk, Spare, PoolSound
<1> QED BY <1>1, VpInductive, PTL
=============================================================================
