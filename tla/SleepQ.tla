------------------------------- MODULE SleepQ -------------------------------
(***************************************************************************)
(* The sleep queue of sched_win.cpp: a list of threads sorted by wake-up    *)
(* time in which each thread stores the difference to its predecessor       *)
(* (thread->sleep), and the sum of all differences in sleep_max; and the    *)
(* clock that drives it.  All times are unsigned and wrap at TimeMod, the   *)
(* range of st_utime_t (2^32); ST_UTIME_NO_TIMEOUT (-1) is its last value.  *)
(***************************************************************************)
EXTENDS Integers, Sequences, FiniteSets, SequencesExt

CONSTANTS Sleepers,   \* the threads that can sleep
          TimeMod,    \* number of values of st_utime_t
          PerSecond,  \* clock units in a second (1000000)
          Usecs,      \* the arguments given to st_usleep
          Secs        \* the arguments given to st_sleep

ASSUME SleepQAssumption ==
    /\ TimeMod \in Nat \ {0} /\ PerSecond \in Nat \ {0}
    /\ Usecs \subseteq 0 .. TimeMod - 1 /\ Secs \subseteq Nat \cup {-1}

VARIABLES sq,          \* the queue: its order, thread->sleep and sleep_max
          clock,       \* the time, as far as st_utime_t holds it
          last_clock,  \* _st_this_vp.last_clock
          expired      \* threads woken by the last _st_vp_check_clock, in order

sqvars == <<sq, clock, last_clock, expired>>

Utime(n) == n % TimeMod

NO_TIMEOUT == TimeMod - 1

OnSleepQ(t) == t \in Range(sq.q)

(* st_utime: the low bits of the time in microseconds. *)
st_utime == clock

-----------------------------------------------------------------------------
(* The loop that both _st_add_sleep_q and _st_vp_check_clock make over the queue,
   from a sleeper that is not due later than time, the timeout or the elapsed time,
   to the next.  Rest is what is left of the time at each position; the loop stops
   at the first sleeper that has longer to sleep, or at the end. *)
Rest(s, time) ==
    LET rest[i \in 1 .. Len(s.q) + 1] ==
            IF i = 1 THEN time ELSE Utime(rest[i - 1] - s.sleep[s.q[i - 1]])
    IN rest

Scan(s, time) ==
    LET rest == Rest(s, time)
    IN CHOOSE i \in 1 .. Len(s.q) + 1 :
          /\ i = Len(s.q) + 1 \/ rest[i] < s.sleep[s.q[i]]
          /\ \A j \in 1 .. i - 1 : rest[j] >= s.sleep[s.q[j]]

_st_add_sleep_q(s, t, timeout) ==
    IF timeout >= s.max
    THEN [q |-> Append(s.q, t),
          sleep |-> [s.sleep EXCEPT ![t] = Utime(timeout - s.max)],
          max |-> timeout]
    ELSE LET pos == Scan(s, timeout)
             sleep == Rest(s, timeout)[pos]
             after == s.q[pos]   \* ST_ASSERT: there is a sleeper behind us
         IN [q |-> InsertAt(s.q, pos, t),
             sleep |-> [s.sleep EXCEPT ![t] = sleep, ![after] = Utime(@ - sleep)],
             max |-> s.max]

(* Mutant: the sleeper behind the removed one loses the removed difference. *)
DelNoCarry(s, t, isExpired) ==
    [q |-> Remove(s.q, t),
     sleep |-> s.sleep,
     max |-> IF Last(s.q) # t /\ ~isExpired THEN s.max ELSE Utime(s.max - s.sleep[t])]

_st_del_sleep_q(s, t, isExpired) ==
    LET k == CHOOSE i \in DOMAIN s.q : s.q[i] = t
        last == k = Len(s.q)
    IN [q |-> RemoveAt(s.q, k),
        sleep |-> IF last \/ isExpired THEN s.sleep
                  ELSE [s.sleep EXCEPT ![s.q[k + 1]] = Utime(@ + s.sleep[t])],
        max |-> IF ~last /\ ~isExpired THEN s.max
                ELSE IF last /\ k = 1 THEN 0 ELSE Utime(s.max - s.sleep[t])]

(* The queue after its first n sleepers have expired. *)
Deleted(s, n) ==
    LET del[i \in 0 .. n] ==
            IF i = 0 THEN s ELSE _st_del_sleep_q(del[i - 1], s.q[i], TRUE)
    IN del[n]

(* Mutant: what is left of the elapsed time is not accounted for. *)
ExpireNoRest(s, elapsed) ==
    LET n == Scan(s, elapsed) - 1
    IN [s |-> Deleted(s, n), woken |-> SubSeq(s.q, 1, n)]

(* The loop of _st_vp_check_clock: the sleepers that are due expire, and the first
   one that is not has to sleep so much less. *)
Expire(s, elapsed) ==
    LET n == Scan(s, elapsed) - 1
        rest == Rest(s, elapsed)[n + 1]
        del == Deleted(s, n)
    IN [s |-> IF n = Len(s.q) THEN del
              ELSE [del EXCEPT !.sleep[s.q[n + 1]] = Utime(@ - rest), !.max = Utime(@ - rest)],
        woken |-> SubSeq(s.q, 1, n)]

-----------------------------------------------------------------------------

SqInit ==
    /\ sq = [q |-> <<>>, sleep |-> [t \in Sleepers |-> 0], max |-> 0]
    /\ clock = 0
    /\ last_clock = 0
    /\ expired = <<>>

(* A thread that is not asleep sleeps for timeout. *)
Sleep(t, timeout) ==
    /\ ~OnSleepQ(t)
    /\ sq' = _st_add_sleep_q(sq, t, timeout)
    /\ expired' = <<>>
    /\ UNCHANGED <<clock, last_clock>>

st_usleep(t, usecs) == Sleep(t, usecs)

(* The number of seconds is multiplied in 32 bits. *)
st_sleep(t, secs) ==
    \/ secs = -1 /\ st_usleep(t, NO_TIMEOUT)
    \/ secs # -1 /\ Sleep(t, Utime(secs * PerSecond))

(* A signal, an interrupt or a completed operation takes a sleeper off. *)
Cancel(t) ==
    /\ OnSleepQ(t)
    /\ sq' = _st_del_sleep_q(sq, t, FALSE)
    /\ expired' = <<>>
    /\ UNCHANGED <<clock, last_clock>>

_st_vp_check_clock ==
    LET now == st_utime
        r == Expire(sq, Utime(now - last_clock))
    IN /\ last_clock' = now
       /\ sq' = r.s
       /\ expired' = r.woken
       /\ UNCHANGED clock

Tick ==
    /\ clock' = Utime(clock + 1)
    /\ UNCHANGED <<sq, last_clock, expired>>

SqNext ==
    \/ \E t \in Sleepers : \/ \E usecs \in Usecs : st_usleep(t, usecs)
                          \/ \E secs \in Secs : st_sleep(t, secs)
                          \/ Cancel(t)
    \/ _st_vp_check_clock
    \/ Tick

SqSpec == SqInit /\ [][SqNext]_sqvars

-----------------------------------------------------------------------------

(* The sums of the differences along the queue: when each sleeper is due. *)
Due(s) ==
    LET sum[i \in 0 .. Len(s.q)] == IF i = 0 THEN 0 ELSE sum[i - 1] + s.sleep[s.q[i]]
    IN sum

(* sleep_max is the exact sum of the differences, although every step computes
   modulo TimeMod: nothing ever wraps.  It is what makes timeout >= _ST_SLEEPQMAX
   find the longest timeout and guarantees the ST_ASSERT of _st_add_sleep_q that
   somebody follows an inserted thread. *)
SleepMaxIsSum == sq.max = Due(sq)[Len(sq.q)]

(* Refinement mapping: the time left to a sleeper is the sum of the differences
   up to its own. *)
TimeLeft == [t \in Range(sq.q) |-> Due(sq)[CHOOSE i \in DOMAIN sq.q : sq.q[i] = t]]

Timer == INSTANCE Timers WITH Threads <- Sleepers, MaxTime <- TimeMod - 1,
                              left <- TimeLeft, seen <- last_clock

(* The differences implement independent timers: adding, cancelling or expiring
   one sleeper never changes when another one wakes, and _st_vp_check_clock takes
   the time that has passed off every sleeper that is left. *)
ImplementsTimers == Timer!Spec
=============================================================================
