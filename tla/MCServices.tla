----------------------------- MODULE MCServices -----------------------------
(* The database client, the gateway and the resolver share no state: one   *)
(* of them is checked from each initial state, and the others keep theirs. *)
EXTENDS DbService, Gateway, Resolver

VARIABLE part

allvars == <<part, vars, gwvars, resvars>>

Init ==
    /\ DbInit /\ GwInit /\ ResInit /\ part \in {"DbService", "Gateway", "Resolver"}
    /\ part # "DbService" => \A u \in Users : table[u] = Absent

Db(A) == part = "DbService" /\ A /\ UNCHANGED <<part, gwvars, resvars>>
Gw(A) == part = "Gateway" /\ A /\ UNCHANGED <<part, vars, resvars>>
Rs(A) == part = "Resolver" /\ A /\ UNCHANGED <<part, vars, gwvars>>

AllNext == Db(Next) \/ Gw(GwNext) \/ Rs(ResNext)

(* The fairness of each of them, as long as it is the one that runs.       *)
AllSpec ==
    /\ Init /\ [][AllNext]_allvars
    /\ WF_allvars(Db(db_server)) /\ \A c \in Clients : WF_allvars(Db(Notify(c)))
    /\ \A c \in Conns : /\ WF_allvars(Gw(handle_request(c)))
                        /\ \A d \in Sides : WF_allvars(Gw(PeerReceive(c, d)))
    /\ WF_allvars(Rs(CreateThreads)) /\ \A h \in Hosts : WF_allvars(Rs(dns_getaddr(h)))

-----------------------------------------------------------------------------
Procs2 == {-1, 2}
Bytes31 == [cli |-> 3, rmt |-> 1]
Hosts2 == {[dots |-> 0, trailing |-> FALSE], [dots |-> 1, trailing |-> FALSE]}
Domain1 == <<"d1">>
=============================================================================
