------------------------------ MODULE NvsProxy ------------------------------
(***************************************************************************)
(* The video proxy of server/: one front end (pu_proxy_t, the device that  *)
(* sends video) and its viewers (cu_proxy_t), each served by cooperative   *)
(* threads that run until they wait for I/O, a condition or a time.        *)
(*                                                                         *)
(* The threads run in the order of the scheduler's run queue; completions  *)
(* and timers are turned into runnable threads only by the idle thread,    *)
(* when the queue is empty.  Proxies and messages are freed by hand-kept   *)
(* reference counts.  A signal sent while nobody waits is lost.            *)
(*                                                                         *)
(* The header and the body of a message are read in one wait: the checks   *)
(* made between the two are repeated after the second.  A thread that      *)
(* touches freed memory ends the run (crashed).                            *)
(***************************************************************************)
EXTENDS Integers, Sequences, SequencesExt, FiniteSets, FiniteSetsExt

CONSTANTS Viewers,     \* viewers that may connect
          HeartTicks,  \* seconds between two heartbeats
          MaxFrames,   \* bound on the frames of video
          MaxInputs,   \* bound on the connections and viewers' heartbeats
          MaxBeats     \* bound on the heartbeats queued at a time

ASSUME NvsAssumption ==
  /\ IsFiniteSet(Viewers) /\ "device" \notin Viewers
  /\ HeartTicks \in Nat \ {0} /\ MaxBeats \in Nat \ {0}
  /\ MaxFrames \in Nat /\ MaxInputs \in Nat

VARIABLES
  w,        \* the server: run queue, threads, proxies and messages
  idle,     \* the idle thread is collecting completions and timers
  frames,   \* frames received so far
  inputs    \* connections made and viewers' heartbeats received so far

nvsvars == <<w, idle, frames, inputs>>

(***************************************************************************)
(* A thread is named by its function and the proxy it serves.  Its pc is   *)
(* where it waits or will start; it waits unless it is in the run queue.   *)
(***************************************************************************)
T(role) == <<role, "device">>
DeviceThreads == {T(r) : r \in {"session", "recv", "send", "heart", "open"}}
Threads == DeviceThreads \cup ({"session", "recv", "send", "open"} \X Viewers)

\* The heartbeats, and each viewer's heartbeat answers, are counted together,
\* since nothing tells them apart.
Beat == <<"beat", "device">>
VideoCmd == <<"cmd", "device">>      \* the front end's _real_video_cmd
Msgs == ({"frame"} \X (1..MaxFrames)) \cup {Beat, VideoCmd}
          \cup ({"beat", "open"} \X Viewers)

NoPu == [alive |-> FALSE, id |-> 0, valid |-> FALSE, ref |-> 0, cmd |-> FALSE,
         vec |-> <<>>, queue |-> <<>>, batch |-> <<>>, ticks |-> 0]
NoCu == [alive |-> FALSE, valid |-> FALSE, ref |-> 0, pu |-> FALSE,
         wrap |-> FALSE, queue |-> <<>>, batch |-> <<>>, found |-> 0]

NvsInit ==
  /\ w = [runq |-> <<>>, pc |-> [t \in Threads |-> "none"], pu |-> NoPu,
          cu |-> [c \in Viewers |-> NoCu], ref |-> [m \in Msgs |-> 0],
          crashed |-> "no"]
  /\ idle = TRUE /\ frames = 0 /\ inputs = 0

----------------------------------------------------------------------------
(* Threads *)

st_thread_create(s, t) ==
  [s EXCEPT !.runq = Append(@, t), !.pc[t] = "start"]

\* The running thread waits at location l, or ends.
At(s, t, l) == [s EXCEPT !.pc[t] = l]
End(s, t) == [s EXCEPT !.pc[t] = "none"]

\* st_cond_signal wakes the thread if it waits, and is lost otherwise.
notify(s, t) ==
  IF s.pc[t] = "wait" /\ t \notin ToSet(s.runq)
  THEN [s EXCEPT !.runq = Append(@, t)] ELSE s

Crash(s, why) == [s EXCEPT !.crashed = why]

----------------------------------------------------------------------------
(* Messages and queues: proto.hpp, pu_proxy.hpp *)

AddMsg(s, m) == [s EXCEPT !.ref[m] = @ + 1]
ReleaseMsg(s, m) ==
  IF s.ref[m] = 0 THEN Crash(s, "count") ELSE [s EXCEPT !.ref[m] = @ - 1]

\* How often m is in the sequence ms.
Copies(ms, m) == Cardinality({i \in DOMAIN ms : ms[i] = m})

\* Releases every entry of the sequence ms.
ReleaseAll(s, ms) ==
  IF \E m \in Msgs : s.ref[m] < Copies(ms, m) THEN Crash(s, "count")
  ELSE [s EXCEPT !.ref = [m \in Msgs |-> s.ref[m] - Copies(ms, m)]]

\* A queued message has the queue's reference besides its sender's, which
\* the sending thread gives up when the message is written.
pu_send_msg(s, m) ==
  IF ~s.pu.valid THEN s
  ELSE notify([AddMsg(s, m) EXCEPT !.pu.queue = Append(@, m)], T("send"))

cu_send_msg(s, c, m) ==
  IF ~s.cu[c].valid THEN s
  ELSE notify([AddMsg(s, m) EXCEPT !.cu[c].queue = Append(@, m)],
              <<"send", c>>)

\* msg_queue_t::backup moves the queue to the batch and clears the queue.
pu_backup(s) ==
  ReleaseAll([s EXCEPT !.pu.batch = @ \o s.pu.queue, !.pu.queue = <<>>],
             s.pu.queue)
cu_backup(s, c) ==
  ReleaseAll([s EXCEPT !.cu[c].batch = @ \o s.cu[c].queue,
                       !.cu[c].queue = <<>>], s.cu[c].queue)

----------------------------------------------------------------------------
(* Proxies: server_base_t and socket_fd_t of proto.hpp *)

\* Deleting a front end releases its video command, takes it off the map of
\* devices and drops its queue.
pu_release(s) ==
  IF ~s.pu.alive THEN Crash(s, "count")
  ELSE IF s.pu.ref > 1 THEN [s EXCEPT !.pu.ref = @ - 1]
  ELSE IF ~s.pu.cmd THEN Crash(s, "count")
  ELSE [ReleaseAll(ReleaseMsg(s, VideoCmd), s.pu.queue) EXCEPT !.pu = NoPu]

\* Deleting a viewer does not release its front end.
cu_release(s, c) ==
  IF ~s.cu[c].alive THEN Crash(s, "count")
  ELSE IF s.cu[c].ref > 1 THEN [s EXCEPT !.cu[c].ref = @ - 1]
  ELSE [ReleaseAll(s, s.cu[c].queue) EXCEPT !.cu[c] = NoCu]

pu_close(s) ==
  pu_release(IF s.pu.valid THEN notify([s EXCEPT !.pu.valid = FALSE], T("send"))
                           ELSE s)

\* Only the thread of the last open request is told.
cu_close(s, c) ==
  LET shut == [s EXCEPT !.cu[c].valid = FALSE, !.cu[c].wrap = FALSE]
      told == IF s.cu[c].wrap THEN notify(shut, <<"open", c>>) ELSE shut
  IN cu_release(IF s.cu[c].valid THEN notify(told, <<"send", c>>) ELSE s, c)

----------------------------------------------------------------------------
(* The front end's threads: pu_proxy.cpp *)

\* The next read waits, or fails at once (fail) as it does when the
\* connection has been closed; then the thread closes the proxy and ends.
PuRead(s, fail) ==
  IF ~s.pu.valid \/ fail THEN pu_close(End(s, T("recv")))
                         ELSE At(s, T("recv"), "read")

ForwardShared(s, m) ==
  LET to[i \in 0..Len(s.pu.vec)] ==
        IF i = 0 THEN AddMsg(s, m) ELSE cu_send_msg(to[i - 1], s.pu.vec[i], m)
  IN ReleaseMsg(to[Len(s.pu.vec)], m)
\* A frame goes to the queue of every viewer that has the video open.
Forward(s, m) ==
  LET to[i \in 0..Len(s.pu.vec)] ==
        IF i = 0 THEN AddMsg(s, m)
        ELSE cu_send_msg(AddMsg(to[i - 1], m), s.pu.vec[i], m)
  IN ReleaseMsg(to[Len(s.pu.vec)], m)

\* Any other message, the answer to the open command included, leaves the
\* references alone; one that is too long ends the thread like a failure.
handle_recv(s, kind, fail) ==
  PuRead(IF kind = "frame" THEN Forward(s, <<"frame", frames + 1>>) ELSE s, fail)

\* Writes the batch: each message is written (a wait), or the first failure
\* ends the thread once the rest has been released.
PuWrite(s, fail) ==
  IF s.pu.batch = <<>> THEN At(s, T("send"), "wait")
  ELSE IF ~s.pu.valid \/ fail
  THEN pu_close(End([ReleaseAll(s, s.pu.batch) EXCEPT !.pu.batch = <<>>],
                    T("send")))
  ELSE At(s, T("send"), "write")

pu_handle_send(s, fail) ==
  CASE s.pc[T("send")] = "start" ->
         At(st_thread_create(s, T("heart")), T("send"), "wait")
    [] s.pc[T("send")] = "wait" ->
         IF ~s.pu.valid THEN pu_close(End(s, T("send")))
                        ELSE PuWrite(pu_backup(s), fail)
    [] s.pc[T("send")] = "write" ->
         PuWrite([ReleaseMsg(s, Head(s.pu.batch)) EXCEPT !.pu.batch = Tail(@)],
                 fail)

HeartBeatIfIdle(s) ==
  IF s.pu.queue # <<>> THEN s ELSE pu_send_msg(AddMsg(s, Beat), Beat)
HeartBeat(s) == pu_send_msg(AddMsg(s, Beat), Beat)

heart_thread(s) ==
  IF s.pc[T("heart")] = "start"
  THEN At([st_thread_create(s, T("open")) EXCEPT !.pu.ref = @ + 1],
          T("heart"), "sleep")
  ELSE IF ~s.pu.valid THEN pu_release(End(s, T("heart")))
  ELSE LET t == (s.pu.ticks + 1) % HeartTicks IN
    At([IF t = 0 THEN HeartBeat(s) ELSE s EXCEPT !.pu.ticks = t],
       T("heart"), "sleep")

handle_open_video(s) ==
  LET cmd == [End(s, T("open")) EXCEPT !.pu.ref = @ + 1, !.pu.cmd = TRUE,
                                       !.ref[VideoCmd] = 2]
  IN pu_release(pu_send_msg(cmd, VideoCmd))

----------------------------------------------------------------------------
(* The viewers' threads: cu_proxy.cpp *)

CuRead(s, c, fail) ==
  IF ~s.cu[c].valid \/ fail THEN cu_close(End(s, <<"recv", c>>), c)
                            ELSE At(s, <<"recv", c>>, "read")

check_net(s, c) == s.cu[c].pu /\ s.pu.valid

\* An open request starts a thread; any other than that and a heartbeat
\* ends the connection.
cu_handle_recv(s, c, kind, fail) ==
  CASE s.pc[<<"recv", c>>] = "start" -> CuRead(s, c, fail)
    [] s.pc[<<"recv", c>>] = "read" /\ (~check_net(s, c) \/ kind = "other") ->
         cu_close(End(s, <<"recv", c>>), c)
    [] s.pc[<<"recv", c>>] = "read" /\ check_net(s, c) /\ kind = "beat" ->
         CuRead(cu_send_msg(AddMsg(s, <<"beat", c>>), c, <<"beat", c>>), c, fail)
    [] s.pc[<<"recv", c>>] = "read" /\ check_net(s, c) /\ kind = "open" ->
         CuRead(st_thread_create([AddMsg(s, <<"open", c>>) EXCEPT
                                    !.cu[c].wrap = TRUE], <<"open", c>>), c, fail)

CuWrite(s, c, fail) ==
  IF s.cu[c].batch = <<>> THEN At(s, <<"send", c>>, "wait")
  ELSE IF ~s.cu[c].valid \/ fail
  THEN LET r == ReleaseAll(ReleaseAll(s, s.cu[c].batch), s.cu[c].queue)
       IN cu_close(End([r EXCEPT !.cu[c].batch = <<>>, !.cu[c].queue = <<>>],
                       <<"send", c>>), c)
  ELSE At(s, <<"send", c>>, "write")

cu_handle_send(s, c, fail) ==
  CASE s.pc[<<"send", c>>] = "start" -> At(s, <<"send", c>>, "wait")
    [] s.pc[<<"send", c>>] = "wait" ->
         IF ~s.cu[c].valid
         THEN cu_close(End([ReleaseAll(s, s.cu[c].queue) EXCEPT
                              !.cu[c].queue = <<>>], <<"send", c>>), c)
         ELSE CuWrite(cu_backup(s, c), c, fail)
    [] s.pc[<<"send", c>>] = "write" ->
         CuWrite([ReleaseMsg(s, Head(s.cu[c].batch)) EXCEPT
                    !.cu[c].batch = Tail(@)], c, fail)

\* pu_proxy_t::open_real_video and close_real_video.
OpenVideo(s, c) ==
  AddMsg([s EXCEPT !.cu[c].ref = @ + 1, !.pu.vec = Append(@, c)], VideoCmd)
CloseVideo(s, c) ==
  LET found == {i \in DOMAIN s.pu.vec : s.pu.vec[i] = c}
  IN IF found = {} THEN s
     ELSE ReleaseMsg([cu_release(s, c) EXCEPT !.pu.vec = RemoveAt(@, Min(found))],
                     VideoCmd)

\* The viewer waits in the list of the front end until its connection is
\* closed; then it gives the front end up.
open_real_video(s, c) ==
  LET o == <<"open", c>>
      up == OpenVideo([s EXCEPT !.cu[c].ref = @ + 1], c)
      down == ReleaseMsg(CloseVideo(End(s, o), c), o)
  IN IF ~s.cu[c].alive THEN Crash(s, "open")
     ELSE IF ~s.pu.cmd THEN Crash(s, "count")
     ELSE IF s.pc[o] = "start"
     THEN At(AddMsg(cu_send_msg(up, c, o), o), o, "wait")
     ELSE cu_release(pu_release([down EXCEPT !.cu[c].pu = FALSE]), c)

----------------------------------------------------------------------------
(* Sessions: ServerHandler::handle_session of server.cpp *)

\* A device that is registered already is turned away.  The session keeps
\* its own reference while it waits for the answer to be written.
DeviceSession(s, fail) ==
  LET me == T("session")
      new(x) == [x EXCEPT !.pu = [NoPu EXCEPT !.alive = TRUE, !.ref = 1,
                                              !.id = inputs]]
      run(x) == st_thread_create(st_thread_create(
                  [x EXCEPT !.pu.valid = TRUE, !.pu.ref = @ + 2],
                  T("recv")), T("send"))
  IN CASE s.pc[me] = "auth" -> pu_release(run(End(s, me)))
       [] s.pc[me] = "start" /\ s.pu.alive -> End(s, me)
       [] s.pc[me] = "start" /\ ~s.pu.alive ->
            IF fail THEN pu_release(run(new(End(s, me)))) ELSE At(new(s), me, "auth")

AttachUncounted(s, c) == [s EXCEPT !.cu[c].pu = TRUE]
\* cu_proxy_t::init
Attach(s, c) == [s EXCEPT !.cu[c].pu = TRUE, !.pu.ref = @ + 1]

\* The front end found before the answer is written may be gone after it.
ViewerSession(s, c, fail) ==
  LET me == <<"session", c>>
      run(x) == st_thread_create(st_thread_create(
                  [x EXCEPT !.cu[c].valid = TRUE, !.cu[c].ref = 3],
                  <<"recv", c>>), <<"send", c>>)
  IN IF s.pc[me] = "start"
     THEN IF ~s.pu.alive \/ ~s.pu.cmd \/ fail THEN End(s, me)
          ELSE At([s EXCEPT !.cu[c].found = s.pu.id], me, "auth")
     ELSE IF s.pu.id # s.cu[c].found THEN Crash(s, "session")
     ELSE cu_release(run(Attach([End(s, me) EXCEPT !.cu[c].alive = TRUE], c)), c)

----------------------------------------------------------------------------
(* Steps *)

\* The thread at the head of the run queue runs until it waits or ends.
Run(t, next) ==
  /\ w.crashed = "no" /\ w.runq # <<>> /\ t = Head(w.runq)
  /\ w' = next
  /\ idle' = (w'.runq = <<>>)

Rest == [w EXCEPT !.runq = Tail(@)]

RunDevice ==
  /\ \E fail \in BOOLEAN, kind \in {"none", "frame"} :
       \/ /\ kind = "frame" => w.pc[T("recv")] = "read" /\ frames < MaxFrames
          /\ Run(T("recv"), handle_recv(Rest, kind, fail))
          /\ frames' = frames + (IF kind = "frame" THEN 1 ELSE 0)
       \/ /\ kind = "none" /\ UNCHANGED frames
          /\ \/ Run(T("send"), pu_handle_send(Rest, fail))
             \/ Run(T("session"), DeviceSession(Rest, fail))
             \/ ~fail /\ Run(T("heart"), heart_thread(Rest))
             \/ ~fail /\ Run(T("open"), handle_open_video(Rest))
  /\ UNCHANGED inputs

RunViewer(c) ==
  /\ \E fail \in BOOLEAN, kind \in {"none", "beat", "open", "other"} :
       \/ /\ kind = "none" <=> w.pc[<<"recv", c>>] = "start"
          /\ kind = "open" => w.ref[<<"open", c>>] = 0
          /\ kind = "beat" => inputs < MaxInputs
          /\ Run(<<"recv", c>>, cu_handle_recv(Rest, c, kind, fail))
          /\ inputs' = inputs + (IF kind = "beat" THEN 1 ELSE 0)
       \/ /\ kind = "none" /\ UNCHANGED inputs
          /\ \/ Run(<<"send", c>>, cu_handle_send(Rest, c, fail))
             \/ Run(<<"session", c>>, ViewerSession(Rest, c, fail))
             \/ ~fail /\ Run(<<"open", c>>, open_real_video(Rest, c))
  /\ UNCHANGED frames

\* With nobody to run the idle thread makes the threads runnable whose I/O
\* has completed, and then the one whose time has come.
NvsIdle == idle /\ w.crashed = "no" /\ T("heart") \notin ToSet(w.runq)

Wake(t) ==
  /\ NvsIdle /\ t \notin ToSet(w.runq)
  /\ w.pc[t] \in {"auth", "read", "write", "sleep"}
  /\ t = T("heart") /\ w.pc[T("send")] = "write" => Len(w.pu.queue) < MaxBeats
  /\ w' = [w EXCEPT !.runq = Append(@, t)]
  /\ UNCHANGED <<idle, frames, inputs>>

\* An accepted connection gets a thread of its own (handle_connections).
Arrive(t) ==
  /\ NvsIdle /\ t[1] = "session" /\ w.pc[t] = "none" /\ inputs < MaxInputs
  /\ t[2] \in Viewers => ~w.cu[t[2]].alive /\ w.pc[<<"open", t[2]>>] = "none"
  /\ w' = st_thread_create(w, t)
  /\ inputs' = inputs + 1
  /\ UNCHANGED <<idle, frames>>

NvsNext ==
  \/ RunDevice
  \/ \E c \in Viewers : RunViewer(c)
  \/ \E t \in Threads : Wake(t)
  \/ \E t \in Threads : Arrive(t)

(***************************************************************************)
(* The scheduler runs a runnable thread (the fairness Sched assumes), a    *)
(* write to a device completes, and the heartbeat's seconds pass: the idle *)
(* thread collects them at one of its next turns, whatever else it finds.  *)
(***************************************************************************)
Fairness ==
  /\ WF_nvsvars(RunDevice \/ \E c \in Viewers : RunViewer(c))
  /\ SF_nvsvars(Wake(T("send"))) /\ SF_nvsvars(Wake(T("heart")))

NvsSpec == NvsInit /\ [][NvsNext]_nvsvars /\ Fairness

----------------------------------------------------------------------------
\* References that the entries of a proxy's queue and batch stand for.
Queued(p, m) == 2 * Copies(p.queue, m) + Copies(p.batch, m)

\* The sum of the numbers F[c].
Total(F) == Cardinality(UNION {{c} \X (1..F[c]) : c \in Viewers})

(* No message is freed while something still refers to it: an entry of a   *)
(* queue counts for the queue's and the sender's reference, an entry of a  *)
(* batch for the sender's, the front end keeps its video command, every    *)
(* viewer in its list a reference to it, and the thread that opened the    *)
(* video its request (proto.hpp, pu_proxy.cpp, cu_proxy.cpp).              *)
MessageAlive ==
  w.crashed = "no" => \A m \in Msgs :
    w.ref[m] >=
      Queued(w.pu, m) + Total([c \in Viewers |-> Queued(w.cu[c], m)])
      + (IF m = VideoCmd /\ w.pu.cmd THEN 1 + Len(w.pu.vec) ELSE 0)
      + (IF m \in {"open"} \X Viewers /\ w.pc[m] = "wait" THEN 1 ELSE 0)

(* A proxy that a reference is counted for is never freed: the front end   *)
(* outlives its threads (also the ones that have not started and take      *)
(* their reference only then) and its viewers, and a viewer its threads    *)
(* and its place in the front end's list; and no count falls below zero.   *)
(* Not counted, and left out, are a viewer's session that waits for its    *)
(* answer to be written and an open request whose thread has not started.  *)
ProxyAlive ==
  /\ w.crashed # "count"
  /\ w.crashed = "no" =>
       /\ \A t \in DeviceThreads \ {T("session")} :
            w.pc[t] # "none" => w.pu.alive
       /\ \A c \in Viewers :
            /\ \/ w.pc[<<"recv", c>>] # "none" \/ w.pc[<<"send", c>>] # "none"
               \/ w.pc[<<"open", c>>] = "wait" \/ c \in ToSet(w.pu.vec)
               => w.cu[c].alive
            /\ w.cu[c].pu => w.pu.alive

(* While the connection of a device lasts, what is queued for it is taken  *)
(* again and again: a signal lost because the sending thread was writing   *)
(* is made good by the next heartbeat (pu_proxy.cpp, heart_thread).        *)
SenderDrained ==
  []<>(w.pu.queue = <<>> \/ ~w.pu.valid \/ w.crashed # "no")

=============================================================================
