------------------------------- MODULE XmlTree -------------------------------
(***************************************************************************)
(* What a TinyXML document promises its client: an ordered forest.  Every  *)
(* node has a sequence of children and, when it is an element, a sequence  *)
(* of attributes with different names.  An edit changes one of these       *)
(* sequences and takes or gives back the nodes of one subtree; all other   *)
(* nodes keep their children and their attributes.                         *)
(*                                                                         *)
(* Each kind of edit relates the forest f before it and the forest g after *)
(* it.                                                                     *)
(***************************************************************************)
EXTENDS Naturals, Sequences, FiniteSets, SequencesExt, Functions

CONSTANT Nodes

VARIABLE forest   \* its nodes, live, and the children and attributes of each

TInit == forest = [live |-> {}, kids |-> [n \in Nodes |-> <<>>],
                   attrs |-> [n \in Nodes |-> <<>>]]

Kids(f, x) == {f.kids[x][i] : i \in DOMAIN f.kids[x]}

(* The nodes of the subtree of n. *)
Sub(f, n) ==
  LET s[k \in 0..Cardinality(Nodes), x \in Nodes] ==
        IF k = 0 THEN {x} ELSE {x} \cup UNION {s[k - 1, y] : y \in Kids(f, x)}
  IN s[Cardinality(Nodes), n]

Roots(f) == f.live \ UNION {Kids(f, p) : p \in f.live}

(* In g, the nodes h[x] for x in the subtree of a are a copy of it. *)
IsCopy(f, g, a, h) ==
  \A x \in DOMAIN h :
    /\ g.kids[h[x]] = [i \in DOMAIN f.kids[x] |-> h[f.kids[x][i]]]
    /\ g.attrs[h[x]] = f.attrs[x]

(* The nodes New are a copy of the subtree of a, with r as its root. *)
CopyOf(f, g, a, r, New) ==
  /\ Cardinality(New) = Cardinality(Sub(f, a))
  /\ \E h \in Bijection(Sub(f, a), New) : h[a] = r /\ IsCopy(f, g, a, h)

Same(f, g, S) == \A x \in S : g.kids[x] = f.kids[x] /\ g.attrs[x] = f.attrs[x]

(* Only the children of p change, besides the nodes that come or go. *)
Edited(f, g, p, children) ==
  /\ g.kids[p] = children /\ g.attrs[p] = f.attrs[p]
  /\ Same(f, g, (f.live \cap g.live) \ {p})

Create(f, g, n) == /\ g.live = f.live \cup {n} /\ Same(f, g, f.live)
                   /\ g.kids[n] = <<>> /\ g.attrs[n] = <<>>

Drop(f, g, n) == /\ n \in Roots(f) \ g.live
                 /\ g.live = f.live \ Sub(f, n) /\ Same(f, g, g.live)

Link(f, g, p, n) == /\ g.live = f.live /\ n \in Roots(f) /\ p \notin Sub(f, n)
                    /\ Edited(f, g, p, Append(f.kids[p], n))

(* A copy of the subtree of a becomes the child of p at place i. *)
Insert(f, g, p, i, a) ==
  /\ f.live \subseteq g.live /\ i \in 1..Len(f.kids[p]) + 1
  /\ \E r \in g.live \ f.live : /\ Edited(f, g, p, InsertAt(f.kids[p], i, r))
                                /\ CopyOf(f, g, a, r, g.live \ f.live)

(* The child of p at place i goes, with its subtree. *)
Take(f, g, p, i) ==
  /\ g.live \subseteq f.live /\ i \in DOMAIN f.kids[p]
  /\ g.live = f.live \ Sub(f, f.kids[p][i])
  /\ Edited(f, g, p, RemoveAt(f.kids[p], i))

(* A copy of the subtree of a takes the place of the child of p at i.  The *)
(* copy is made first: a may be in the subtree that goes.                  *)
Replace(f, g, p, i, a) ==
  /\ i \in DOMAIN f.kids[p] /\ f.kids[p][i] \notin g.live
  /\ f.live \ g.live = Sub(f, f.kids[p][i])
  /\ \E r \in g.live \ f.live : /\ Edited(f, g, p, [f.kids[p] EXCEPT ![i] = r])
                                /\ CopyOf(f, g, a, r, g.live \ f.live)

(* The children of p go. *)
Empty(f, g, p) == /\ Edited(f, g, p, <<>>) /\ g.live = f.live \ (Sub(f, p) \ {p})

(* The content of p goes, and a copy of the content of a takes its place;  *)
(* the nodes of the copy may be nodes that went.                           *)
Become(f, g, p, a) ==
  LET Kept == f.live \ Sub(f, p)
  IN /\ a \in Kept /\ Kept \cup {p} \subseteq g.live /\ Same(f, g, Kept)
     /\ CopyOf(f, g, a, p, g.live \ Kept)

ChangeAttrs(f, g, e) ==
  /\ g.live = f.live /\ g.kids = f.kids
  /\ \E name \in Range(g.attrs[e]) \cup Range(f.attrs[e]) :
       g.attrs = [f.attrs EXCEPT ![e] =
                    IF name \in Range(@) THEN SelectSeq(@, LAMBDA x : x # name)
                                         ELSE Append(@, name)]

TNext ==
  \E f \in {forest}, g \in {forest'} :
    \/ \E n \in g.live \ f.live : Create(f, g, n)
    \/ \E p \in f.live :
         \/ Drop(f, g, p) \/ Empty(f, g, p) \/ ChangeAttrs(f, g, p)
         \/ \E a \in f.live : Link(f, g, p, a) \/ Become(f, g, p, a)
         \/ \E i \in 1..Cardinality(Nodes) :
              \/ Take(f, g, p, i)
              \/ \E a \in f.live : Insert(f, g, p, i, a) \/ Replace(f, g, p, i, a)

TSpec == TInit /\ [][TNext]_forest
=============================================================================
