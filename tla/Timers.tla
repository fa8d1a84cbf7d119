------------------------------- MODULE Timers -------------------------------
(***************************************************************************)
(* What the sleep queue promises: every sleeper has an amount of time left, *)
(* cancelling one sleeper does not disturb another, and when the clock is   *)
(* read, all the time that has passed since the last reading is accounted   *)
(* for: exactly the sleepers with at most that much left expire, in the     *)
(* order of the time they had left, and the others have that much less.     *)
(***************************************************************************)
EXTENDS Integers, Sequences, FiniteSets, Functions

CONSTANTS Threads,  \* the threads that can sleep
          MaxTime   \* the longest time a timer can be set to; the clock wraps after it

VARIABLES left,     \* time left, defined on the sleepers only
          expired,  \* the threads the last accounting woke, in order
          clock,    \* the time
          seen      \* the time when the clock was last read

vars == <<left, expired, clock, seen>>

Sleeping == DOMAIN left

Init == left = <<>> /\ expired = <<>> /\ clock = 0 /\ seen = 0

Set(t, d) ==
    /\ t \notin Sleeping
    /\ left' = [x \in Sleeping \cup {t} |-> IF x = t THEN d ELSE left[x]]
    /\ expired' = <<>>
    /\ UNCHANGED <<clock, seen>>

Cancel(t) ==
    /\ t \in Sleeping
    /\ left' = Restrict(left, Sleeping \ {t})
    /\ expired' = <<>>
    /\ UNCHANGED <<clock, seen>>

Account ==
    LET e   == (clock - seen) % (MaxTime + 1)
        due == {t \in Sleeping : left[t] <= e}
    IN /\ left' = [t \in Sleeping \ due |-> left[t] - e]
       /\ IsInjective(expired') /\ Range(expired') = due
       /\ \A i, j \in DOMAIN expired' : i < j => left[expired'[i]] <= left[expired'[j]]
       /\ seen' = clock /\ UNCHANGED clock

Tick == clock' = (clock + 1) % (MaxTime + 1) /\ UNCHANGED <<left, expired, seen>>

Next ==
    \/ \E t \in Threads, d \in 0 .. MaxTime : Set(t, d)
    \/ \E t \in Threads : Cancel(t)
    \/ Account \/ Tick

Spec == Init /\ [][Next]_vars
=============================================================================
