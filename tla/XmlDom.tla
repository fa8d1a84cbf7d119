-------------------------------- MODULE XmlDom --------------------------------
(***************************************************************************)
(* The document object model of TinyXML (tinyxml.cpp, the same file in     *)
(* server/ and in HMSyncPlatformServer/): nodes linked to their parent,    *)
(* their first and last child and their siblings, and the attributes of an *)
(* element in a ring that a sentinel closes.  A client builds and edits    *)
(* documents through LinkEndChild, the Insert, Replace and Remove calls,   *)
(* assignment and the attribute calls.                                     *)
(*                                                                         *)
(* A node is its address, 0 is NULL.  "leaf" stands for the four node      *)
(* types without children: text, comment, declaration and unknown.  What   *)
(* the code leaves to its caller is a guard: a node handed to LinkEndChild *)
(* is one nobody owns, and a node is not assigned one of its descendants.  *)
(***************************************************************************)
EXTENDS Integers, Sequences, FiniteSets, SequencesExt

CONSTANTS MaxNodes,     \* bound on the nodes that exist at a time
          Names         \* attribute names

ASSUME DomAssumption == MaxNodes \in Nat \ {0} /\ "sentinel" \notin Names

VARIABLE d      \* the links of every node

Nodes == 1..MaxNodes
Ptr == 0..MaxNodes
Ring == Names \cup {"sentinel"}

(* The attribute set of a new element: the sentinel is its own neighbour. *)
TiXmlAttributeSet == [x \in Ring |-> IF x = "sentinel" THEN "sentinel" ELSE "null"]

DomInit ==
  d = [ type |-> [n \in Nodes |-> "free"], parent |-> [n \in Nodes |-> 0],
        firstChild |-> [n \in Nodes |-> 0], lastChild |-> [n \in Nodes |-> 0],
        prev |-> [n \in Nodes |-> 0], next |-> [n \in Nodes |-> 0],
        aprev |-> [n \in Nodes |-> TiXmlAttributeSet],
        anext |-> [n \in Nodes |-> TiXmlAttributeSet],
        error |-> {} ]

Live(D) == {n \in Nodes : D.type[n] # "free"}
Branches(D) == {n \in Nodes : D.type[n] \in {"document", "element"}}

(* The nodes from x on, along the links of f (cut off after MaxNodes). *)
Walk(f, x) ==
  LET w[k \in Ptr, y \in Ptr] ==
        IF k = 0 \/ y = 0 THEN <<>> ELSE <<y>> \o w[k - 1, f[y]]
  IN w[MaxNodes, x]

(* A loop of NextSibling() from FirstChild(), as IterateChildren makes it. *)
IterateChildren(D, n) == Walk(D.next, D.firstChild[n])

(* The names in a ring, from the sentinel on. *)
Attributes(next) ==
  LET w[k \in 0..Cardinality(Names), y \in Ring \cup {"null"}] ==
        IF k = 0 \/ y \in {"sentinel", "null"} THEN <<>> ELSE <<y>> \o w[k - 1, next[y]]
  IN w[Cardinality(Names), next["sentinel"]]

(* What the destructor of n deletes: n and, down the lists, its children. *)
Subtree(D, n) ==
  LET s[k \in Ptr, x \in Nodes] ==
        IF k = 0 THEN {x}
        ELSE {x} \cup UNION {s[k - 1, y] : y \in ToSet(IterateChildren(D, x))}
  IN s[MaxNodes, n]

(* GetDocument: the document at the top of the parents of n, or 0. *)
GetDocument(D, n) ==
  LET top == Last(Walk(D.parent, n)) IN IF D.type[top] = "document" THEN top ELSE 0

----------------------------------------------------------------------------
(* Operations on the links.  Each returns the links it leaves. *)

Fresh(D, n, type) ==
  [D EXCEPT !.type[n] = type, !.parent[n] = 0, !.firstChild[n] = 0,
            !.lastChild[n] = 0, !.prev[n] = 0, !.next[n] = 0,
            !.aprev[n] = TiXmlAttributeSet, !.anext[n] = TiXmlAttributeSet]

(* delete: a freed node is overwritten. *)
Delete(D, S) ==
  LET Off(f) == [x \in Nodes |-> IF x \in S THEN 0 ELSE f[x]]
      NoAttrs(f) == [x \in Nodes |-> IF x \in S THEN TiXmlAttributeSet ELSE f[x]]
  IN [D EXCEPT !.type = [x \in Nodes |-> IF x \in S THEN "free" ELSE @[x]],
               !.parent = Off(@), !.firstChild = Off(@), !.lastChild = Off(@),
               !.prev = Off(@), !.next = Off(@),
               !.aprev = NoAttrs(@), !.anext = NoAttrs(@), !.error = @ \ S]

SetError(D, n) ==
  IF GetDocument(D, n) = 0 THEN D
  ELSE [D EXCEPT !.error = @ \cup {GetDocument(D, n)}]

Linked(D, p, n) ==
  LET last == D.lastChild[p]
      E == [D EXCEPT !.parent[n] = p, !.prev[n] = last, !.next[n] = 0,
                     !.lastChild[p] = n]
  IN IF last # 0 THEN [E EXCEPT !.next[last] = n] ELSE [E EXCEPT !.firstChild[p] = n]

(* TiXmlAttributeSet::Add and Remove, on the ring of e. *)
AttributeAdd(D, e, name) ==
  LET tail == D.aprev[e]["sentinel"] IN
  [D EXCEPT !.anext[e] = [@ EXCEPT ![name] = "sentinel", ![tail] = name],
            !.aprev[e] = [@ EXCEPT ![name] = tail, !["sentinel"] = name]]

AttributeRemoveBackOnly(D, e, name) ==
  [D EXCEPT !.anext[e] = [@ EXCEPT ![D.aprev[e][name]] = D.anext[e][name],
                                   ![name] = "null"],
            !.aprev[e] = [@ EXCEPT ![name] = "null"]]
AttributeRemove(D, e, name) ==
  [D EXCEPT !.anext[e] = [@ EXCEPT ![D.aprev[e][name]] = D.anext[e][name],
                                   ![name] = "null"],
            !.aprev[e] = [@ EXCEPT ![D.anext[e][name]] = D.aprev[e][name],
                                   ![name] = "null"]]

(* CopyTo: the attributes of a are set on c one by one, then the children  *)
(* of a are cloned and linked one by one; h says where the clones lie.     *)
CopyTo(D, a, h) ==
  LET WithAttrs(E, x) ==
        LET names == Attributes(D.anext[x])
            s[i \in 0..Len(names)] == IF i = 0 THEN E
                                      ELSE AttributeAdd(s[i - 1], h[x], names[i])
        IN s[Len(names)]
      WithKids(E, x) ==
        LET kids == IterateChildren(D, x)
            s[i \in 0..Len(kids)] == IF i = 0 THEN E
                                     ELSE Linked(s[i - 1], h[x], h[kids[i]])
        IN s[Len(kids)]
      new[n \in Ptr] ==
        IF n = 0 THEN D
        ELSE IF n \notin DOMAIN h \ {a} THEN new[n - 1]
        ELSE Fresh(new[n - 1], h[n], D.type[n])
      copy[n \in Ptr] ==
        IF n = 0 THEN new[MaxNodes]
        ELSE IF n \notin DOMAIN h THEN copy[n - 1]
        ELSE WithKids(WithAttrs(copy[n - 1], n), n)
  IN copy[MaxNodes]

(* Where Clone() puts the copy of each node of the subtree of a: its root  *)
(* in c, the others in the free nodes, in their order.                     *)
Places(D, a, c) ==
  LET Rank(S, x) == Cardinality({y \in S : y < x})
      below == Subtree(D, a) \ {a}
      free == (Nodes \ Live(D)) \ {c}
  IN [x \in below \cup {a} |->
        IF x = a THEN c ELSE CHOOSE y \in free : Rank(free, y) = Rank(below, x)]

Room(D, k) == Cardinality(Nodes \ Live(D)) >= k
NewNode(D) == CHOOSE n \in Nodes \ Live(D) : \A m \in Nodes \ Live(D) : n <= m

Clone(D, a) == CopyTo(Fresh(D, NewNode(D), D.type[a]), a, Places(D, a, NewNode(D)))

----------------------------------------------------------------------------
(* The calls. *)

Owned(n) == n \in Live(d) /\ d.parent[n] = 0      \* by the client
Copiable(a) == a \in Live(d) /\ Room(d, Cardinality(Subtree(d, a)))

New(type) == Room(d, 1) /\ d' = Fresh(d, NewNode(d), type)

DeleteNode(n) == Owned(n) /\ d' = Delete(d, Subtree(d, n))

(* A document can never be a child: LinkEndChild deletes it. *)
LinkEndChild(p, n) ==
  /\ p \in Branches(d) /\ Owned(n) /\ p \notin Subtree(d, n)
  /\ d' = IF d.type[n] = "document" THEN SetError(Delete(d, Subtree(d, n)), p)
          ELSE Linked(d, p, n)

(* The insertions of a document only set the error. *)
InsertDocument(p, a) ==
  p \in Branches(d) /\ a \in Live(d) /\ d.type[a] = "document" /\ d' = SetError(d, p)

InsertEndChild(p, a) ==
  /\ p \in Branches(d) /\ Copiable(a) /\ d.type[a] # "document"
  /\ d' = Linked(Clone(d, a), p, NewNode(d))

InsertBeforeChild(p, b, a) ==
  /\ b \in Live(d) /\ d.parent[b] = p /\ Copiable(a) /\ d.type[a] # "document"
  /\ LET n == NewNode(d)
         C == Clone(d, a)
         E == [C EXCEPT !.parent[n] = p, !.next[n] = b, !.prev[n] = C.prev[b]]
         F == IF C.prev[b] # 0 THEN [E EXCEPT !.next[C.prev[b]] = n]
              ELSE [E EXCEPT !.firstChild[p] = n]
     IN d' = [F EXCEPT !.prev[b] = n]

InsertAfterChild(p, b, a) ==
  /\ b \in Live(d) /\ d.parent[b] = p /\ Copiable(a) /\ d.type[a] # "document"
  /\ LET n == NewNode(d)
         C == Clone(d, a)
         E == [C EXCEPT !.parent[n] = p, !.prev[n] = b, !.next[n] = C.next[b]]
         F == IF C.next[b] # 0 THEN [E EXCEPT !.prev[C.next[b]] = n]
              ELSE [E EXCEPT !.lastChild[p] = n]
     IN d' = [F EXCEPT !.next[b] = n]

(* The neighbours of r are linked to before and after instead; 0 for one   *)
(* of them moves the end of the list of p.                                 *)
Bridged(D, p, r, before, after) ==
  LET E == IF D.next[r] # 0 THEN [D EXCEPT !.prev[D.next[r]] = before]
           ELSE [D EXCEPT !.lastChild[p] = before]
  IN IF D.prev[r] # 0 THEN [E EXCEPT !.next[D.prev[r]] = after]
     ELSE [E EXCEPT !.firstChild[p] = after]

ReplaceChildLate(p, r, a) ==
  /\ r \in Live(d) /\ d.parent[r] = p /\ Copiable(a) /\ d.type[a] # "document"
  /\ LET D == Delete(d, Subtree(d, r))
         n == NewNode(D)
         E == [Clone(D, a) EXCEPT !.next[n] = d.next[r], !.prev[n] = d.prev[r],
                                  !.parent[n] = p]
         F == IF d.next[r] # 0 THEN [E EXCEPT !.prev[d.next[r]] = n]
              ELSE [E EXCEPT !.lastChild[p] = n]
     IN d' = IF d.prev[r] # 0 THEN [F EXCEPT !.next[d.prev[r]] = n]
             ELSE [F EXCEPT !.firstChild[p] = n]
ReplaceChild(p, r, a) ==
  /\ r \in Live(d) /\ d.parent[r] = p /\ Copiable(a) /\ d.type[a] # "document"
  /\ LET n == NewNode(d)
         C == Clone(d, a)
         E == [C EXCEPT !.next[n] = C.next[r], !.prev[n] = C.prev[r]]
         F == Delete(Bridged(E, p, r, n, n), Subtree(d, r))
     IN d' = [F EXCEPT !.parent[n] = p]

RemoveChild(p, r) ==
  /\ r \in Live(d) /\ d.parent[r] = p
  /\ d' = Delete(Bridged(d, p, r, d.prev[r], d.next[r]), Subtree(d, r))

Cleared(D, p) ==
  LET E == Delete(D, Subtree(D, p) \ {p})
  IN [E EXCEPT !.firstChild[p] = 0, !.lastChild[p] = 0]

Clear(p) == p \in Branches(d) /\ d' = Cleared(d, p)

(* operator=: the target is cleared, its attributes too, and then copied   *)
(* to.                                                                     *)
Assign(p, a) ==
  LET E == [Cleared(d, p) EXCEPT !.aprev[p] = TiXmlAttributeSet,
                                 !.anext[p] = TiXmlAttributeSet]
  IN /\ {p, a} \subseteq Branches(d) /\ d.type[p] = d.type[a]
     /\ a \notin Subtree(d, p) /\ p \notin Subtree(d, a) /\ Room(E, Cardinality(Subtree(E, a)) - 1)
     /\ d' = [CopyTo(E, a, Places(E, a, p)) EXCEPT
                 !.error = IF a \in @ THEN @ \cup {p} ELSE @ \ {p}]

(* FindOrCreate: the name is looked up along the ring. *)
SetAttribute(e, name) ==
  /\ d.type[e] = "element"
  /\ d' = IF name \in ToSet(Attributes(d.anext[e])) THEN d ELSE AttributeAdd(d, e, name)

RemoveAttribute(e, name) ==
  /\ d.type[e] = "element" /\ name \in ToSet(Attributes(d.anext[e]))
  /\ d' = AttributeRemove(d, e, name)

DomNext ==
  \/ \E type \in {"document", "element", "leaf"} : New(type)
  \/ \E n \in Nodes : DeleteNode(n) \/ Clear(n)
  \/ \E p, n \in Nodes : \/ LinkEndChild(p, n) \/ InsertDocument(p, n)
                         \/ InsertEndChild(p, n) \/ RemoveChild(p, n) \/ Assign(p, n)
  \/ \E p, b, a \in Nodes : \/ InsertBeforeChild(p, b, a) \/ InsertAfterChild(p, b, a)
                            \/ ReplaceChild(p, b, a)
  \/ \E e \in Nodes, name \in Names : SetAttribute(e, name) \/ RemoveAttribute(e, name)

DomSpec == DomInit /\ [][DomNext]_d

----------------------------------------------------------------------------
(* The lists hold together in both directions: the children of a node, run *)
(* through forwards from the first and backwards from the last, are the    *)
(* same; they are exactly the live nodes that have it as their parent; a   *)
(* live node is linked to no freed one; and the attribute ring of an       *)
(* element reads the same both ways and is closed by its sentinel (links   *)
(* in TiXmlNode's edits, TiXmlAttributeSet::Add and Remove).               *)
LinksSound ==
  /\ \A n \in Live(d) :
       LET kids == IterateChildren(d, n) IN
       /\ Reverse(kids) = Walk(d.prev, d.lastChild[n])
       /\ ToSet(kids) = {x \in Live(d) : d.parent[x] = n}
       /\ IsInjective(kids)
       /\ d.parent[n] \in Live(d) \cup {0}
  /\ \A e \in Live(d) :
       LET names == Attributes(d.anext[e]) IN
       /\ Reverse(names) = Attributes(d.aprev[e])
       /\ IsInjective(names) /\ \A x \in Names \ ToSet(names) : d.anext[e][x] = "null"

(* The links implement an ordered forest: every call changes one list of   *)
(* children or one attribute set the way its name says, and copies and     *)
(* deletes whole subtrees, also when a node is replaced by a copy of a     *)
(* node it contains (TiXmlNode::ReplaceChild, Clone, CopyTo).              *)
Forest == INSTANCE XmlTree WITH
            Nodes <- Nodes,
            forest <- [live |-> Live(d),
                       kids |-> [n \in Nodes |-> IterateChildren(d, n)],
                       attrs |-> [n \in Nodes |-> Attributes(d.anext[n])]]

TreeKept == Forest!TSpec
=============================================================================
