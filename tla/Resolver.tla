------------------------------ MODULE Resolver ------------------------------
(***************************************************************************)
(* Name resolution over UDP: dns_getaddr of examples/res.c, called by the  *)
(* threads of examples/lookupdns.c, one for every host name.  A lookup     *)
(* asks every name server in turn for every candidate name in turn, and    *)
(* waits for the answer to each query for a limited time.                  *)
(*                                                                         *)
(* Datagrams get lost, overtake each other, come late or twice.  Only      *)
(* their 16-bit id tells the answers of a lookup's queries apart.  The     *)
(* error h_errno is one variable for all threads; a thread gives up the    *)
(* processor only while it waits for the network.                          *)
(***************************************************************************)
EXTENDS Integers, Sequences, SequencesExt

CONSTANTS
    Hosts,       \* names to look up: [dots, trailing]
    Domains,     \* _res.dnsrch, the sequence of search domains
    Options,     \* subset of {"DEFNAMES", "DNSRCH"}
    Ndots,       \* _res.ndots
    NsCount,     \* _res.nscount
    Rcodes,      \* what the name servers answer
    MaxReplies,  \* bound: datagrams the name servers send
    MaxFaults    \* bound: interrupts and failing system calls

ASSUME ResolverAssumption ==
    /\ NsCount \in Nat \ {0} /\ Ndots \in Nat
    /\ Hosts \subseteq [dots : Nat, trailing : BOOLEAN] /\ Domains \in Seq(ToSet(Domains))
    /\ Rcodes \subseteq {"ok", "alias", "nxdomain", "servfail", "empty", "refused", "short"}
    /\ MaxReplies \in Nat /\ MaxFaults \in Nat

VARIABLES
    look,      \* the state of every lookup
    h_errno,   \* the global error
    replies,   \* datagrams on their way to the socket of each lookup
    lastid,    \* the id of the last query made
    count,     \* replies sent so far
    faults     \* interrupts and failures so far

resvars == <<look, h_errno, replies, lastid, count, faults>>

(* Where a lookup stands: the candidate k and the name server i it asks,   *)
(* the id of the query, all its queries so far, the last datagram it got,  *)
(* the socket, and what it reports: an address or an error.                *)
NoLookup == [pc |-> "none", k |-> 1, i |-> 0, id |-> 0, asked |-> {},
             last |-> {}, open |-> FALSE, addr |-> "none", said |-> "none"]

ResInit ==
    /\ look = [h \in Hosts |-> NoLookup]
    /\ h_errno = "none" /\ replies = [h \in Hosts |-> {}]
    /\ lastid = 0 /\ count = 0 /\ faults = 0

(* The candidates in the order dns_getaddr tries them: the name as it is   *)
(* if it has dots enough, then in the search domains, then as it is unless *)
(* that has been tried.                                                    *)
Candidates(h) ==
    LET asis == <<"as is">>
        first == h.dots >= Ndots
        search == \/ h.dots = 0 /\ "DEFNAMES" \in Options
                  \/ h.dots > 0 /\ ~h.trailing /\ "DNSRCH" \in Options
        domains == IF ~search THEN <<>>
                   ELSE IF "DNSRCH" \in Options \/ Domains = <<>> THEN Domains
                   ELSE SubSeq(Domains, 1, 1)
    IN (IF first THEN asis ELSE <<>>) \o domains \o (IF first THEN <<>> ELSE asis)

Fault == faults < MaxFaults /\ faults' = faults + 1

-----------------------------------------------------------------------------
(* The lookups.                                                            *)

Set(h, l) == look' = [look EXCEPT ![h] = l]

(* CLOSE_AND_RETURN; do_resolve reports the address, or h_errno without    *)
(* waiting in between, and ends.                                           *)
do_resolve(l, addr, e) ==
    [l EXCEPT !.pc = "done", !.open = FALSE, !.asked = {}, !.addr = addr, !.said = e]

(* A query of lookup h, which is l, has failed: the next name server, or   *)
(* the next candidate, or the end; an interrupted lookup ends at once.     *)
Advance(h, l) ==
    IF l.i < NsCount THEN [l EXCEPT !.pc = "send", !.i = @ + 1]
    ELSE IF l.k < Len(Candidates(h)) THEN [l EXCEPT !.pc = "send", !.i = 1, !.k = @ + 1]
    ELSE do_resolve(l, "none", h_errno')

Fails(h, l, e) ==
    /\ h_errno' = e
    /\ Set(h, IF e = "INTERRUPTED" THEN do_resolve(l, "none", h_errno') ELSE Advance(h, l))

(* main creates a thread for every name before it ends; if it cannot, the  *)
(* program exits.                                                          *)
CreateThreads ==
    /\ \A h \in Hosts : look[h].pc = "none"
    /\ \/ look' = [h \in Hosts |-> [NoLookup EXCEPT !.pc = "start"]] /\ UNCHANGED faults
       \/ Fault /\ look' = [h \in Hosts |-> [NoLookup EXCEPT !.pc = "exit"]]
    /\ UNCHANGED <<h_errno, replies, lastid, count>>

(* The checks of dns_getaddr and its socket.                               *)
Begin(h) ==
    /\ look[h].pc = "start"
    /\ \/ /\ Set(h, [look[h] EXCEPT !.pc = "send", !.i = 1, !.open = TRUE])
          /\ UNCHANGED <<h_errno, faults>>
       \/ Fault /\ h_errno' = "INTERNAL" /\ Set(h, do_resolve(look[h], "none", h_errno'))
    /\ UNCHANGED <<replies, lastid, count>>

(* res_mkquery numbers the query; sending it may wait, and fail.           *)
Query(h) ==
    /\ look[h].pc = "send"
    /\ \/ /\ lastid' = (lastid + 1) % 65536
          /\ Set(h, [look[h] EXCEPT !.pc = "wait", !.id = lastid', !.asked =
                        @ \cup {[id |-> lastid', name |-> Candidates(h)[look[h].k]]}])
          /\ UNCHANGED <<h_errno, faults>>
       \/ Fault /\ (\E e \in {"INTERNAL", "INTERRUPTED"} : Fails(h, look[h], e)) /\ UNCHANGED lastid
    /\ UNCHANGED <<replies, count>>

(* Defect: any answer is taken for that of the last query.                 *)
MatchesAny(h, r) == TRUE
Matches(h, r) == r.id = look[h].id

(* The name found in an answer, as parse_answer reads it: the first record *)
(* that is not an alias; an answer of aliases only is no address.          *)
parse_answer(h, l, r) ==
    IF r.rcode = "alias" THEN Fails(h, l, "TRY_AGAIN")
    ELSE Set(h, do_resolve(l, r.name, "none")) /\ UNCHANGED h_errno

(* The error for a code of the answer.                                     *)
Error == [nxdomain |-> "HOST_NOT_FOUND", servfail |-> "TRY_AGAIN", empty |-> "NO_DATA",
          refused |-> "NO_RECOVERY", short |-> "INTERNAL"]

(* A datagram arrives: one with another id is read over and the wait       *)
(* begins anew.                                                            *)
Receive(h, r) ==
    /\ look[h].pc = "wait" /\ r \in replies[h]
    /\ replies' = [replies EXCEPT ![h] = @ \ {r}]
    /\ LET l == [look[h] EXCEPT !.last = {r}]
       IN IF ~Matches(h, r) THEN Set(h, l) /\ UNCHANGED h_errno
          ELSE IF r.rcode \in DOMAIN Error THEN Fails(h, l, Error[r.rcode])
          ELSE parse_answer(h, l, r)
    /\ UNCHANGED <<lastid, count, faults>>

(* Defect: a wait that ended at its time limit begins anew.                *)
TimeoutAgain(h) ==
    /\ look[h].pc = "wait" /\ look' = [look EXCEPT ![h].last = {}]
    /\ UNCHANGED <<h_errno, replies, lastid, count, faults>>
Timeout(h) ==
    /\ look[h].pc = "wait" /\ Fails(h, look[h], "INTERNAL")
    /\ UNCHANGED <<replies, lastid, count, faults>>

st_thread_interrupt(h) ==
    /\ look[h].pc = "wait" /\ Fault /\ Fails(h, look[h], "INTERRUPTED")
    /\ UNCHANGED <<replies, lastid, count>>

dns_getaddr(h) ==
    Begin(h) \/ Query(h) \/ Timeout(h) \/ \E r \in replies[h] : Receive(h, r)

-----------------------------------------------------------------------------
(* The name servers answer a query of a lookup, whenever they like.        *)
Reply(h, q, rcode) ==
    /\ q \in look[h].asked /\ look[h].open
    /\ count < MaxReplies /\ count' = count + 1
    /\ replies' = [replies EXCEPT ![h] = @ \cup {[id |-> q.id, name |-> q.name, rcode |-> rcode]}]
    /\ UNCHANGED <<look, h_errno, lastid, faults>>

ResNext ==
    \/ CreateThreads
    \/ \E h \in Hosts : \/ dns_getaddr(h) \/ st_thread_interrupt(h)
                        \/ \E q \in look[h].asked, rcode \in Rcodes :
                             Reply(h, q, rcode)

ResFairness == WF_resvars(CreateThreads) /\ \A h \in Hosts : WF_resvars(dns_getaddr(h))

ResSpec == ResInit /\ [][ResNext]_resvars /\ ResFairness

-----------------------------------------------------------------------------
(* A lookup reports the truth, although late answers to its earlier        *)
(* queries still come in and all lookups set the same h_errno: an address  *)
(* is that of the candidate it was asking for, told in answer to its last  *)
(* query, and an error that only a name server can tell of was told in     *)
(* answer to that query (query_domain, do_resolve).                        *)
ReportTrue ==
    \A h \in Hosts :
        LET l == look[h]
            told == {r \in l.last : r.id = l.id /\ r.name = Last(Candidates(h))}
        IN l.pc = "done" =>
             /\ l.addr # "none" =>
                  \E r \in l.last : r.id = l.id /\ r.name = Candidates(h)[l.k] /\ r.name = l.addr
             /\ l.said \in {"HOST_NOT_FOUND", "NO_DATA", "NO_RECOVERY"} =>
                  \E r \in told : r.rcode \in DOMAIN Error /\ Error[r.rcode] = l.said

(* Every lookup ends with its socket closed, as the time limits of         *)
(* query_domain promise, whatever is lost on the way.                      *)
LookupEnds ==
    \A h \in Hosts : look[h].pc = "start" ~> (look[h].pc = "done" /\ ~look[h].open)
=============================================================================
