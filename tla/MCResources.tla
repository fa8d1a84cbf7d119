----------------------------- MODULE MCResources -----------------------------
(* Thread data, descriptors and the sleep queue share no state: one of them *)
(* is checked from each initial state, and the others keep theirs.          *)
EXTENDS ThreadData, NetFd, SleepQ, TLC

VARIABLE part

Init == TdInit /\ NfInit /\ SqInit /\ part \in {"ThreadData", "NetFd", "SleepQ"}

Next ==
  /\ UNCHANGED part
  /\ \/ part = "ThreadData" /\ TdNext /\ UNCHANGED <<nfvars, sqvars>>
     \/ part = "NetFd" /\ NfNext /\ UNCHANGED <<tdvars, sqvars>>
     \/ part = "SleepQ" /\ SqNext /\ UNCHANGED <<tdvars, nfvars>>

Spec == Init /\ [][Next]_<<part, tdvars, nfvars, sqvars>>

-----------------------------------------------------------------------------
Symmetry == Permutations(Threads) \cup Permutations(SockNums)

AllTimes == 0 .. TimeMod - 1

SomeSeconds == {-1, 1, 2}
=============================================================================
